--------------------------- MODULE LuaCallsProofs ---------------------------
(* Proofs about LuaCalls, for any coroutines, programs and limits.            *)
EXTENDS LuaCalls, FiniteSetTheorems, WellFoundedInduction, TLAPS

-----------------------------------------------------------------------------
(* States of the program.                                                     *)
Frame == {"base", "lua", "yield", "resume", "wrap", "pcall", "xpcall"}
Handlers == {f[3] : f \in {g \in UNION Programs : g[1] = "xpcall"}}
ErrFunc == {None} \cup Handlers
Rec == [ci : Seq(Frame), size : Nat, status : {"ok", "yield", "err"}, ncc : Nat, baseCc : Nat,
        errfunc : ErrFunc, fresh : BOOLEAN, made : BOOLEAN]
Act == [k : {"call", "handler", "resume"}, th : Thread] \cup [k : {"exec"}, th : Thread, n : Nat \ {0}]
       \cup [k : {"pcall"}, th : Thread, ncc : Nat, ci : Nat, errfunc : ErrFunc]
World == [t : [Thread -> Rec], cs : Seq(Act), may : Programs, raised : {"no", "error", "errerr"},
          out : {"running", "done", "exit"}]

-----------------------------------------------------------------------------
(* The C stack: the threads on it, the calls that count for nCcalls among the *)
(* m undermost activations, and where a thread ends.                          *)
On(cs) == {cs[i].th : i \in 1 .. Len(cs)}
Depth(cs, m) == Cardinality({i \in 1 .. m : cs[i].k \in {"call", "resume"}})
Ends(cs, i) == i = Len(cs) \/ cs[i + 1].k = "resume"

(* What an activation may call; lua_resume goes to another thread.            *)
Nested == {<<"resume", "exec">>, <<"exec", "pcall">>, <<"exec", "call">>, <<"exec", "handler">>,
           <<"call", "exec">>, <<"call", "pcall">>, <<"call", "handler">>, <<"pcall", "call">>,
           <<"handler", "call">>}
Follows(a, b) ==
  \/ b.k = "resume" /\ a.k \in {"exec", "call"} /\ b.th \in Coroutines
  \/ a.th = b.th /\ <<a.k, b.k>> \in Nested

(* The host's call is undermost, and a thread is in one place.                *)
Stacked(cs) ==
  /\ cs # <<>> => cs[1].th = Main /\ cs[1].k \in {"pcall", "call"}
  /\ \A i \in 1 .. Len(cs) - 1 : Follows(cs[i], cs[i + 1])
  /\ \A i, j \in 1 .. Len(cs) : i < j /\ cs[i].th = cs[j].th =>
       \A m \in i + 1 .. j : cs[m].th = cs[i].th /\ cs[m].k # "resume"

(* Activation i has been called with lv[i] frames in its thread.  Those of    *)
(* Lua functions belong to one luaV_execute each.                             *)
Own(a) == IF a.k = "exec" THEN a.n ELSE 0
Top(cs, lv, i) == lv[i] + Own(cs[i])
Placed(t, cs, lv, i) ==
  LET ci == t[cs[i].th].ci
  IN  /\ 1 <= lv[i] /\ Top(cs, lv, i) <= Len(ci)
      /\ \A j \in lv[i] + 1 .. Top(cs, lv, i) : ci[j] = "lua"
      /\ i = 1 \/ cs[i].k = "resume" => lv[i] = 1 /\ ci[1] # "lua"
Nests(t, cs, lv, i) ==
  LET ci == t[cs[i].th].ci
  IN  cs[i + 1].k # "resume" =>
        /\ \A j \in Top(cs, lv, i) + 1 .. lv[i + 1] : ci[j] # "lua"
        /\ cs[i + 1].k = "pcall" => Top(cs, lv, i) < lv[i + 1]
        /\ cs[i].k = "resume" => lv[i + 1] = 1
Closes(t, cs, lv, i) ==
  LET r == t[cs[i].th]
  IN  Ends(cs, i) /\ r.status # "yield" =>
        /\ \A j \in Top(cs, lv, i) + 1 .. Len(r.ci) : r.ci[j] # "lua"
        /\ i < Len(cs) => Top(cs, lv, i) < Len(r.ci)
        /\ i = Len(cs) /\ cs[i].k = "resume" => Len(r.ci) = 1
Levels(t, cs, lv) ==
  /\ \A i \in 1 .. Len(cs) : Placed(t, cs, lv, i) /\ Closes(t, cs, lv, i)
  /\ \A i \in 1 .. Len(cs) - 1 : Nests(t, cs, lv, i)
  /\ \A i, j \in 1 .. Len(cs) : i < j /\ cs[i].th = cs[j].th => Top(cs, lv, i) <= lv[j]

(* What luaD_pcall will restore.                                              *)
Saves(cs, lv, i) ==
  cs[i].k = "pcall" =>
    /\ cs[i].ci = lv[i] /\ cs[i].ncc = Depth(cs, i) /\ cs[i].ncc < MaxCcalls + Spare
    /\ (\A j \in 1 .. i - 1 : cs[j].th = cs[i].th => cs[j].k # "pcall") => cs[i].errfunc = None
Saved(t, cs, lv) ==
  /\ \A i \in 1 .. Len(cs) : Saves(cs, lv, i)
  /\ \A th \in On(cs) :
       (\A j \in 1 .. Len(cs) : cs[j].th = th => cs[j].k # "pcall") => t[th].errfunc = None

(* nCcalls counts all calls below, those of other threads too.                *)
Counted(t, cs) ==
  /\ \A i \in 1 .. Len(cs) :
       /\ Ends(cs, i) => t[cs[i].th].ncc = Depth(cs, i)
       /\ cs[i].k = "resume" => t[cs[i].th].baseCc = Depth(cs, i) /\ Depth(cs, i - 1) < MaxCcalls
  /\ t[Main].baseCc = 0

(* Threads on the C stack, and the others.                                    *)
Suspended(r) ==
  /\ r.made /\ ~r.fresh /\ r.errfunc = None
  /\ Len(r.ci) >= 3 /\ r.ci[1] # "lua" /\ r.ci[Len(r.ci)] # "lua"
  /\ \A j \in 2 .. Len(r.ci) - 1 : r.ci[j] = "lua"
Awake(t, cs) ==
  \A i \in 1 .. Len(cs) :
    LET r == t[cs[i].th]
    IN  /\ r.made /\ ~r.fresh
        /\ \/ r.status = "ok"
           \/ r.status = "yield" /\ i = Len(cs) /\ cs[i].k = "resume" /\ Suspended(r)
Resting(r) ==
  /\ r.fresh => r.made /\ r.status = "ok"
  /\ ~r.made => r.status = "ok"
  /\ r.status = "ok" => Len(r.ci) = 1 /\ r.ci[1] # "lua" /\ r.errfunc = None
  /\ r.status = "yield" => Suspended(r)
Rests(t, cs) == \A c \in Coroutines \ On(cs) : Resting(t[c])

Sized(r) == Len(r.ci) <= r.size /\ 2 <= r.size /\ r.size <= 2 * MaxCalls

Good(t, cs, lv) ==
  /\ lv \in Seq(Nat) /\ Len(lv) = Len(cs)
  /\ Stacked(cs) /\ Levels(t, cs, lv) /\ Saved(t, cs, lv) /\ Counted(t, cs)
  /\ Awake(t, cs) /\ Rests(t, cs)
  /\ \A th \in Thread : Sized(t[th])

(* An error is raised where something was called; how deep depends on it.     *)
Limits(x) ==
  /\ x.raised # "no" => Last(x.cs).k \in {"exec", "call"}
  /\ IF x.raised = "errerr" THEN T(x).ncc <= MaxCcalls + Spare ELSE T(x).ncc < MaxCcalls + Spare
Fits(x) ==
  /\ x \in World
  /\ \E lv \in Seq(Nat) : Good(x.t, x.cs, lv)
  /\ x.out = "running" => x.cs # <<>> /\ Limits(x)
  /\ x.out # "running" => x.cs = <<>> /\ x.raised = "no"

-----------------------------------------------------------------------------
(* Counting.                                                                  *)

(* One more activation counts one more or nothing.                            *)
LEMMA DepthStep ==
  ASSUME NEW cs, NEW m \in Nat
  PROVE  /\ Depth(cs, m) \in Nat /\ Depth(cs, 0) = 0
         /\ Depth(cs, m + 1) = Depth(cs, m) + (IF cs[m + 1].k \in {"call", "resume"} THEN 1 ELSE 0)
<1> DEFINE C(n) == {i \in 1 .. n : cs[i].k \in {"call", "resume"}}
<1>1. IsFiniteSet(C(m)) /\ Cardinality(C(m)) \in Nat
  <2>1. IsFiniteSet(1 .. m)
    BY FS_Interval
  <2>2. C(m) \subseteq 1 .. m
    OBVIOUS
  <2> QED BY <2>1, <2>2, FS_Subset, FS_CardinalityType
<1>2. Depth(cs, 0) = 0
  <2>1. C(0) = {}
    OBVIOUS
  <2> QED BY <2>1, FS_EmptySet DEF Depth
<1>3. CASE cs[m + 1].k \in {"call", "resume"}
  <2>1. C(m + 1) = C(m) \cup {m + 1} /\ m + 1 \notin C(m)
    BY <1>3
  <2>2. Cardinality(C(m + 1)) = Cardinality(C(m)) + 1
    <3> HIDE DEF C
    <3> QED BY <1>1, <2>1, FS_AddElement
  <2> QED BY <1>1, <1>2, <1>3, <2>2 DEF Depth
<1>4. CASE ~(cs[m + 1].k \in {"call", "resume"})
  <2>1. C(m + 1) = C(m)
    BY <1>4
  <2>2. Depth(cs, m) = Cardinality(C(m)) /\ Depth(cs, m + 1) = Cardinality(C(m + 1))
    BY DEF Depth
  <2> HIDE DEF C
  <2> QED BY <1>1, <1>2, <1>4, <2>1, <2>2
<1> QED BY <1>3, <1>4

(* The count depends on what is counted alone.                                *)
LEMMA DepthSame ==
  ASSUME NEW cs, NEW ds, NEW m \in Nat, \A i \in 1 .. m : cs[i].k = ds[i].k
  PROVE  Depth(cs, m) = Depth(ds, m)
<1>1. {i \in 1 .. m : cs[i].k \in {"call", "resume"}} = {i \in 1 .. m : ds[i].k \in {"call", "resume"}}
  OBVIOUS
<1> QED BY <1>1 DEF Depth

(* It grows, and strictly over a call.                                        *)
LEMMA DepthRises ==
  ASSUME NEW cs, NEW i \in Nat, NEW j \in Nat, i <= j
  PROVE  /\ Depth(cs, i) <= Depth(cs, j)
         /\ (\E m \in i + 1 .. j : cs[m].k \in {"call", "resume"}) => Depth(cs, i) < Depth(cs, j)
<1> DEFINE C(n) == {m \in 1 .. n : cs[m].k \in {"call", "resume"}}
<1>1. \A n \in Nat : IsFiniteSet(C(n))
  <2>1. \A n \in Nat : IsFiniteSet(1 .. n)
    BY FS_Interval
  <2>2. \A n \in Nat : C(n) \subseteq 1 .. n
    OBVIOUS
  <2> QED BY <2>1, <2>2, FS_Subset
<1>2. ASSUME NEW a \in Nat, NEW b \in Nat, a <= b PROVE Depth(cs, a) <= Depth(cs, b)
  <2>1. C(a) \subseteq C(b) /\ IsFiniteSet(C(b))
    BY <1>1, <1>2
  <2>2. Cardinality(C(a)) <= Cardinality(C(b))
    BY <2>1, FS_Subset
  <2> QED BY <2>2 DEF Depth
<1>3. ASSUME NEW m \in i + 1 .. j, cs[m].k \in {"call", "resume"} PROVE Depth(cs, i) < Depth(cs, j)
  <2>1. m - 1 \in Nat /\ m \in Nat /\ i <= m - 1 /\ m <= j /\ (m - 1) + 1 = m
    OBVIOUS
  <2>2. Depth(cs, i) <= Depth(cs, m - 1) /\ Depth(cs, m) <= Depth(cs, j)
    BY <1>2, <2>1
  <2>3. Depth(cs, m) = Depth(cs, m - 1) + 1
    BY <1>3, <2>1, DepthStep
  <2>4. Depth(cs, m - 1) \in Nat /\ Depth(cs, i) \in Nat /\ Depth(cs, j) \in Nat /\ Depth(cs, m) \in Nat
    BY <2>1, DepthStep
  <2> QED BY <2>2, <2>3, <2>4
<1> QED BY <1>2, <1>3

-----------------------------------------------------------------------------
(* The parts of a state.                                                      *)

(* Activations by kind.                                                       *)
LEMMA ActIs ==
  ASSUME NEW a \in Act
  PROVE  /\ a.k \in {"call", "handler", "resume", "exec", "pcall"} /\ a.th \in Thread
         /\ a.k = "exec" => a.n \in Nat \ {0}
         /\ a.k = "pcall" => a.ncc \in Nat /\ a.ci \in Nat /\ a.errfunc \in ErrFunc
         /\ Own(a) \in Nat /\ (a.k # "exec" => Own(a) = 0) /\ (a.k = "exec" => Own(a) = a.n)
BY DEF Act, Own

(* The innermost activation and its thread.                                   *)
LEMMA LastIs ==
  ASSUME NEW x \in World, x.cs # <<>>
  PROVE  /\ Len(x.cs) \in Nat \ {0} /\ Last(x.cs) = x.cs[Len(x.cs)] /\ Last(x.cs) \in Act
         /\ L(x) \in Thread /\ T(x) \in Rec /\ T(x) = x.t[L(x)] /\ L(x) = x.cs[Len(x.cs)].th
         /\ \A i \in 1 .. Len(x.cs) : x.cs[i] \in Act
<1>1. Len(x.cs) \in Nat \ {0} /\ \A i \in 1 .. Len(x.cs) : x.cs[i] \in Act
  BY DEF World
<1>2. \A a \in Act : a.th \in Thread
  BY DEF Act
<1> QED BY <1>1, <1>2 DEF Last, L, T, World

(* The fields of a thread.                                                    *)
LEMMA RecIs ==
  ASSUME NEW r \in Rec
  PROVE  /\ r.ci \in Seq(Frame) /\ Len(r.ci) \in Nat /\ r.size \in Nat /\ r.ncc \in Nat /\ r.baseCc \in Nat
         /\ r.status \in {"ok", "yield", "err"} /\ r.errfunc \in ErrFunc
         /\ r.fresh \in BOOLEAN /\ r.made \in BOOLEAN
BY DEF Rec

-----------------------------------------------------------------------------
(* What calls and returns do to the C stack.                                  *)

(* What a call or a return leaves of a thread.                                *)
Alike(r, q) == r.made = q.made /\ r.fresh = q.fresh /\ r.status = q.status /\ r.baseCc = q.baseCc

(* No protected call of a thread among the m undermost activations.           *)
Unprotected(cs, th, m) == \A j \in 1 .. m : cs[j].th = th => cs[j].k # "pcall"

(* The levels of a thread rise.                                               *)
LEMMA Below ==
  ASSUME NEW t, NEW cs \in Seq(Act), NEW lv, Good(t, cs, lv)
  PROVE  /\ \A i \in 1 .. Len(cs) : /\ lv[i] \in Nat /\ Own(cs[i]) \in Nat
                                    /\ Top(cs, lv, i) \in Nat /\ lv[i] <= Top(cs, lv, i)
         /\ \A i, m \in 1 .. Len(cs) : i <= m /\ cs[i].th = cs[m].th =>
              /\ lv[i] <= lv[m] /\ Top(cs, lv, i) <= Top(cs, lv, m)
              /\ i < m => Top(cs, lv, i) <= lv[m] /\ cs[i + 1].th = cs[m].th /\ cs[i + 1].k # "resume"
<1>1. \A i \in 1 .. Len(cs) : /\ lv[i] \in Nat /\ Own(cs[i]) \in Nat
                              /\ Top(cs, lv, i) \in Nat /\ lv[i] <= Top(cs, lv, i)
  <2> TAKE i \in 1 .. Len(cs)
  <2>1. lv[i] \in Nat /\ cs[i] \in Act
    BY DEF Good
  <2>2. Own(cs[i]) \in Nat
    BY <2>1, ActIs
  <2> QED BY <2>1, <2>2 DEF Top
<1>2. ASSUME NEW i \in 1 .. Len(cs), NEW m \in 1 .. Len(cs), i < m, cs[i].th = cs[m].th
      PROVE  Top(cs, lv, i) <= lv[m] /\ cs[i + 1].th = cs[m].th /\ cs[i + 1].k # "resume"
  <2>1. Top(cs, lv, i) <= lv[m]
    BY <1>2 DEF Good, Levels
  <2>2. i + 1 \in i + 1 .. m
    BY <1>2
  <2>3. cs[i + 1].th = cs[i].th /\ cs[i + 1].k # "resume"
    BY <1>2, <2>2 DEF Good, Stacked
  <2> QED BY <1>2, <2>1, <2>3
<1>3. ASSUME NEW i \in 1 .. Len(cs), NEW m \in 1 .. Len(cs), i <= m, cs[i].th = cs[m].th
      PROVE  lv[i] <= lv[m] /\ Top(cs, lv, i) <= Top(cs, lv, m)
  <2>1. CASE i = m
    BY <2>1, <1>1
  <2>2. CASE i < m
    <3>1. Top(cs, lv, i) <= lv[m]
      BY <1>2, <1>3, <2>2
    <3> QED BY <1>1, <3>1
  <2> QED BY <1>3, <2>1, <2>2
<1> QED BY <1>1, <1>2, <1>3

(* The calls above m return or are left, and the thread goes on in m.         *)
LEMMA CutKeeps ==
  ASSUME NEW t \in [Thread -> Rec], NEW cs \in Seq(Act), NEW lv, Good(t, cs, lv),
         NEW m \in 1 .. Len(cs), NEW l \in Thread, cs[m].th = l, t[l].status = "ok",
         \A i \in m + 1 .. Len(cs) : cs[i].th = l /\ cs[i].k # "resume",
         NEW r \in Rec, Alike(r, t[l]), Sized(r), Top(cs, lv, m) <= Len(r.ci),
         \A j \in 1 .. Top(cs, lv, m) : r.ci[j] = t[l].ci[j],
         \A j \in Top(cs, lv, m) + 1 .. Len(r.ci) : r.ci[j] # "lua",
         cs[m].k = "resume" => Len(r.ci) = 1,
         r.ncc = Depth(cs, m),
         Unprotected(cs, l, m) => r.errfunc = None
  PROVE  Good([t EXCEPT ![l] = r], SubSeq(cs, 1, m), SubSeq(lv, 1, m))
<1> DEFINE u == [t EXCEPT ![l] = r]
           ds == SubSeq(cs, 1, m)
           lw == SubSeq(lv, 1, m)
<1>1. /\ ds \in Seq(Act) /\ Len(ds) = m /\ lw \in Seq(Nat) /\ Len(lw) = m /\ m \in Nat \ {0} /\ Len(cs) \in Nat
      /\ \A i \in 1 .. m : ds[i] = cs[i] /\ lw[i] = lv[i]
  BY DEF Good
<1>2. /\ u[l] = r /\ \A th \in Thread \ {l} : u[th] = t[th]
      /\ \A i \in 1 .. Len(cs) : cs[i].th \in Thread
  <2>1. \A i \in 1 .. Len(cs) : cs[i] \in Act
    OBVIOUS
  <2> QED BY <2>1, ActIs
<1>3. /\ \A i \in 1 .. Len(cs) : lv[i] \in Nat /\ Top(cs, lv, i) \in Nat /\ lv[i] <= Top(cs, lv, i)
      /\ \A i \in 1 .. m : cs[i].th = l =>
           /\ lv[i] <= lv[m] /\ Top(cs, lv, i) <= Top(cs, lv, m)
           /\ i < m => Top(cs, lv, i) <= lv[m] /\ cs[i + 1].th = l /\ cs[i + 1].k # "resume"
  <2>1. \A i \in 1 .. Len(cs) : lv[i] \in Nat /\ Top(cs, lv, i) \in Nat /\ lv[i] <= Top(cs, lv, i)
    BY Below
  <2>2. ASSUME NEW i \in 1 .. m, cs[i].th = l
        PROVE  /\ lv[i] <= lv[m] /\ Top(cs, lv, i) <= Top(cs, lv, m)
               /\ i < m => Top(cs, lv, i) <= lv[m] /\ cs[i + 1].th = l /\ cs[i + 1].k # "resume"
    <3>1. i \in 1 .. Len(cs) /\ i <= m /\ cs[i].th = cs[m].th
      BY <1>1, <2>2
    <3> QED BY <3>1, Below
  <2> QED BY <2>1, <2>2
<1>4. \A i \in 1 .. m : Top(ds, lw, i) = Top(cs, lv, i)
  BY <1>1 DEF Top
<1>5. \A i \in 0 .. m : Depth(ds, i) = Depth(cs, i)
  <2> TAKE i \in 0 .. m
  <2>1. i \in Nat /\ \A j \in 1 .. i : ds[j].k = cs[j].k
    BY <1>1
  <2> QED BY <2>1, DepthSame
<1>6. On(ds) = On(cs)
  <2>1. On(ds) \subseteq On(cs)
    BY <1>1 DEF On
  <2>2. \A i \in 1 .. Len(cs) : \E j \in 1 .. m : cs[i].th = cs[j].th
    BY <1>1
  <2>3. On(cs) \subseteq On(ds)
    BY <1>1, <2>2 DEF On
  <2> QED BY <2>1, <2>3
<1> HIDE DEF u, ds, lw
<1>7. Stacked(ds)
  <2>1. ds[1].th = Main /\ ds[1].k \in {"pcall", "call"}
    <3>1. 1 \in 1 .. m /\ cs # <<>>
      BY <1>1
    <3> QED BY <1>1, <3>1 DEF Good, Stacked
  <2>2. \A i \in 1 .. Len(ds) - 1 : Follows(ds[i], ds[i + 1])
    <3> TAKE i \in 1 .. Len(ds) - 1
    <3>1. i \in 1 .. m /\ i + 1 \in 1 .. m /\ i \in 1 .. Len(cs) - 1
      BY <1>1
    <3>2. Follows(cs[i], cs[i + 1])
      BY <3>1 DEF Good, Stacked
    <3> QED BY <1>1, <3>1, <3>2
  <2>3. \A i, j \in 1 .. Len(ds) : i < j /\ ds[i].th = ds[j].th =>
          \A k \in i + 1 .. j : ds[k].th = ds[i].th /\ ds[k].k # "resume"
    <3> SUFFICES ASSUME NEW i \in 1 .. Len(ds), NEW j \in 1 .. Len(ds), i < j, ds[i].th = ds[j].th,
                        NEW k \in i + 1 .. j
                 PROVE  ds[k].th = ds[i].th /\ ds[k].k # "resume"
      OBVIOUS
    <3>1. i \in 1 .. Len(cs) /\ j \in 1 .. Len(cs) /\ k \in 1 .. m /\ i \in 1 .. m /\ j \in 1 .. m
      BY <1>1
    <3>2. ds[k] = cs[k] /\ ds[i] = cs[i] /\ ds[j] = cs[j]
      BY <1>1, <3>1
    <3>3. cs[i].th = cs[j].th
      BY <3>2
    <3>4. Stacked(cs)
      BY DEF Good
    <3>5. cs[k].th = cs[i].th /\ cs[k].k # "resume"
      BY <3>1, <3>3, <3>4 DEF Stacked
    <3> QED BY <3>2, <3>5
  <2> QED BY <2>1, <2>2, <2>3 DEF Stacked
<1>8. ASSUME NEW i \in 1 .. m PROVE Placed(u, ds, lw, i)
  <2>1. Placed(t, cs, lv, i)
    BY <1>1 DEF Good, Levels
  <2>2. CASE cs[i].th # l
    BY <1>1, <1>2, <1>4, <2>1, <2>2 DEF Placed
  <2>3. CASE cs[i].th = l
    <3>1. Top(cs, lv, i) <= Top(cs, lv, m) /\ lv[i] <= Top(cs, lv, i) /\ lv[i] \in Nat
          /\ Top(cs, lv, i) \in Nat /\ Top(cs, lv, m) \in Nat /\ Len(r.ci) \in Nat
      BY <1>1, <1>3, <2>3, RecIs
    <3>2. 1 <= lv[i] /\ Top(cs, lv, i) <= Len(r.ci)
      BY <2>1, <3>1 DEF Placed
    <3>3. \A j \in lv[i] + 1 .. Top(cs, lv, i) : r.ci[j] = "lua"
      <4> TAKE j \in lv[i] + 1 .. Top(cs, lv, i)
      <4>1. j \in 1 .. Top(cs, lv, m)
        BY <3>1
      <4> QED BY <2>1, <2>3, <4>1 DEF Placed
    <3>4. r.ci[1] = t[l].ci[1]
      <4>1. 1 \in 1 .. Top(cs, lv, m)
        BY <3>1, <3>2
      <4> QED BY <4>1
    <3>5. u[ds[i].th].ci = r.ci /\ lw[i] = lv[i] /\ Top(ds, lw, i) = Top(cs, lv, i) /\ ds[i] = cs[i]
      BY <1>1, <1>2, <1>4, <2>3
    <3>6. i = 1 \/ cs[i].k = "resume" => lv[i] = 1 /\ r.ci[1] # "lua"
      BY <2>1, <2>3, <3>4 DEF Placed
    <3> QED BY <3>2, <3>3, <3>5, <3>6 DEF Placed
  <2> QED BY <2>2, <2>3
<1>9. ASSUME NEW i \in 1 .. m PROVE Closes(u, ds, lw, i)
  <2> SUFFICES ASSUME Ends(ds, i), u[ds[i].th].status # "yield"
               PROVE  /\ \A j \in Top(ds, lw, i) + 1 .. Len(u[ds[i].th].ci) : u[ds[i].th].ci[j] # "lua"
                      /\ i < Len(ds) => Top(ds, lw, i) < Len(u[ds[i].th].ci)
                      /\ i = Len(ds) /\ ds[i].k = "resume" => Len(u[ds[i].th].ci) = 1
    BY DEF Closes
  <2>1. CASE i = m
    <3>1. ds[i] = cs[m] /\ u[ds[i].th] = r /\ Top(ds, lw, i) = Top(cs, lv, m)
      BY <1>1, <1>2, <1>4, <2>1
    <3> QED BY <1>1, <2>1, <3>1
  <2>2. CASE i # m
    <3>1. i + 1 \in 1 .. m /\ ds[i + 1] = cs[i + 1] /\ ds[i] = cs[i] /\ cs[i + 1].k = "resume"
      BY <1>1, <2>2 DEF Ends
    <3>2. cs[i].th # l
      BY <1>1, <1>3, <2>2, <3>1
    <3>3. Closes(t, cs, lv, i) /\ u[ds[i].th] = t[cs[i].th]
      <4>1. i \in 1 .. Len(cs)
        BY <1>1
      <4>2. Closes(t, cs, lv, i)
        BY <4>1 DEF Good, Levels
      <4> QED BY <1>2, <3>1, <3>2, <4>1, <4>2
    <3>4. i < Len(cs) /\ Top(ds, lw, i) = Top(cs, lv, i)
      BY <1>1, <1>4, <3>1
    <3> QED BY <1>1, <2>2, <3>1, <3>3, <3>4 DEF Closes, Ends
  <2> QED BY <2>1, <2>2
<1>10. ASSUME NEW i \in 1 .. m - 1 PROVE Nests(u, ds, lw, i)
  <2>1. /\ i \in 1 .. m /\ i + 1 \in 1 .. m /\ ds[i] = cs[i] /\ ds[i + 1] = cs[i + 1]
        /\ lw[i] = lv[i] /\ lw[i + 1] = lv[i + 1] /\ i \in 1 .. Len(cs) - 1 /\ i + 1 \in 1 .. Len(cs)
    BY <1>1
  <2>2. Nests(t, cs, lv, i)
    BY <2>1 DEF Good, Levels
  <2>3. CASE cs[i].th # l
    BY <1>2, <1>4, <2>1, <2>2, <2>3 DEF Nests
  <2>4. CASE cs[i].th = l /\ cs[i + 1].k # "resume"
    <3>1. cs[i + 1].th = l
      BY <2>1, <2>4 DEF Good, Stacked, Follows
    <3>2. lv[i + 1] <= Top(cs, lv, m) /\ lv[i + 1] \in Nat /\ Top(cs, lv, i) \in Nat /\ Top(cs, lv, m) \in Nat
      BY <1>1, <1>3, <2>1, <3>1
    <3>3. \A j \in Top(cs, lv, i) + 1 .. lv[i + 1] : r.ci[j] = t[l].ci[j]
      BY <3>2
    <3> QED BY <1>2, <1>4, <2>1, <2>2, <2>4, <3>3 DEF Nests
  <2>5. CASE cs[i + 1].k = "resume"
    BY <2>1, <2>5 DEF Nests
  <2> QED BY <2>3, <2>4, <2>5
<1>11. Levels(u, ds, lw)
  <2>1. \A i, j \in 1 .. Len(ds) : i < j /\ ds[i].th = ds[j].th => Top(ds, lw, i) <= lw[j]
    <3> SUFFICES ASSUME NEW i \in 1 .. m, NEW j \in 1 .. m, i < j, ds[i].th = ds[j].th
                 PROVE  Top(ds, lw, i) <= lw[j]
      BY <1>1
    <3>1. i \in 1 .. Len(cs) /\ j \in 1 .. Len(cs) /\ cs[i].th = cs[j].th
      BY <1>1
    <3>2. Top(cs, lv, i) <= lv[j]
      BY <3>1 DEF Good, Levels
    <3> QED BY <1>1, <1>4, <3>2
  <2> QED BY <1>1, <1>8, <1>9, <1>10, <2>1 DEF Levels
<1>12. Saved(u, ds, lw)
  <2>1. ASSUME NEW i \in 1 .. Len(ds) PROVE Saves(ds, lw, i)
    <3>1. i \in 1 .. m /\ i \in 1 .. Len(cs) /\ ds[i] = cs[i] /\ lw[i] = lv[i] /\ Depth(ds, i) = Depth(cs, i)
      BY <1>1, <1>5
    <3>2. \A j \in 1 .. i - 1 : ds[j] = cs[j]
      BY <1>1
    <3>3. Saves(cs, lv, i)
      BY <3>1 DEF Good, Saved
    <3> QED BY <3>1, <3>2, <3>3 DEF Saves
  <2>2. ASSUME NEW th \in On(ds), \A j \in 1 .. Len(ds) : ds[j].th = th => ds[j].k # "pcall"
        PROVE  u[th].errfunc = None
    <3>1. Unprotected(cs, th, m)
      BY <1>1, <2>2 DEF Unprotected
    <3>2. CASE th = l
      BY <1>2, <3>1, <3>2
    <3>3. CASE th # l
      <4>1. \A j \in 1 .. Len(cs) : cs[j].th = th => cs[j].k # "pcall"
        <5> TAKE j \in 1 .. Len(cs)
        <5>1. CASE j \in 1 .. m
          BY <3>1, <5>1 DEF Unprotected
        <5>2. CASE j \in m + 1 .. Len(cs)
          BY <3>3, <5>2
        <5> QED BY <1>1, <5>1, <5>2
      <4>2. th \in On(cs) /\ th \in Thread
        BY <1>2, <1>6 DEF On
      <4>3. t[th].errfunc = None
        BY <4>1, <4>2 DEF Good, Saved
      <4> QED BY <1>2, <3>3, <4>2, <4>3
    <3> QED BY <3>2, <3>3
  <2> QED BY <2>1, <2>2 DEF Saved
<1>13. Counted(u, ds)
  <2>1. ASSUME NEW i \in 1 .. Len(ds), Ends(ds, i) PROVE u[ds[i].th].ncc = Depth(ds, i)
    <3>1. CASE i = m
      BY <1>1, <1>2, <1>5, <3>1
    <3>2. CASE i # m
      <4>1. i \in 1 .. m /\ i + 1 \in 1 .. m /\ ds[i + 1] = cs[i + 1] /\ ds[i] = cs[i] /\ cs[i + 1].k = "resume"
        BY <1>1, <2>1, <3>2 DEF Ends
      <4>2. cs[i].th # l /\ Ends(cs, i) /\ i \in 1 .. Len(cs)
        BY <1>1, <1>3, <3>2, <4>1 DEF Ends
      <4>3. t[cs[i].th].ncc = Depth(cs, i)
        BY <4>2 DEF Good, Counted
      <4> QED BY <1>2, <1>5, <4>1, <4>2, <4>3
    <3> QED BY <3>1, <3>2
  <2>2. ASSUME NEW i \in 1 .. Len(ds), ds[i].k = "resume"
        PROVE  u[ds[i].th].baseCc = Depth(ds, i) /\ Depth(ds, i - 1) < MaxCcalls
    <3>1. i \in 1 .. m /\ i \in 1 .. Len(cs) /\ ds[i] = cs[i] /\ i \in 0 .. m /\ i - 1 \in 0 .. m
      BY <1>1
    <3>2. t[cs[i].th].baseCc = Depth(cs, i) /\ Depth(cs, i - 1) < MaxCcalls
      BY <2>2, <3>1 DEF Good, Counted
    <3>3. u[cs[i].th].baseCc = t[cs[i].th].baseCc
      BY <1>2, <3>1 DEF Alike
    <3> QED BY <1>5, <3>1, <3>2, <3>3
  <2>3. u[Main].baseCc = 0
    <3>1. Main \in Thread
      BY DEF Thread
    <3> QED BY <1>2, <3>1 DEF Good, Counted, Alike
  <2> QED BY <2>1, <2>2, <2>3 DEF Counted
<1>14. Awake(u, ds)
  <2> SUFFICES ASSUME NEW i \in 1 .. m
               PROVE  /\ u[ds[i].th].made /\ ~u[ds[i].th].fresh
                      /\ u[ds[i].th].status = "ok"
    BY <1>1 DEF Awake
  <2>1. i \in 1 .. Len(cs) /\ ds[i] = cs[i] /\ m \in 1 .. Len(cs)
    BY <1>1
  <2>2. CASE cs[i].th = l
    <3>1. t[l].made /\ ~t[l].fresh
      BY <2>1, <2>2 DEF Good, Awake
    <3> QED BY <1>2, <2>1, <2>2, <3>1 DEF Alike
  <2>3. CASE cs[i].th # l
    <3>1. i < Len(cs)
      BY <1>1, <2>1, <2>3
    <3> QED BY <1>2, <2>1, <2>3, <3>1 DEF Good, Awake
  <2> QED BY <2>2, <2>3
<1>15. Rests(u, ds)
  <2>1. l \in On(cs)
    BY DEF On
  <2>2. Coroutines \subseteq Thread
    BY DEF Thread
  <2> QED BY <1>2, <1>6, <2>1, <2>2 DEF Good, Rests
<1>16. \A th \in Thread : Sized(u[th])
  BY <1>2 DEF Good
<1> QED BY <1>1, <1>7, <1>11, <1>12, <1>13, <1>14, <1>15, <1>16 DEF Good, u, ds, lw

(* How the frames of a thread lie after a call: those up to b as they were,   *)
(* C functions, and above v those of the Lua functions called, up to e.       *)
Laid(ci, old, b, v, e) ==
  /\ 1 <= v /\ b <= v /\ e <= Len(ci)
  /\ \A j \in 1 .. b : ci[j] = old[j]
  /\ \A j \in b + 1 .. v : ci[j] # "lua"
  /\ \A j \in v + 1 .. e : ci[j] = "lua"
  /\ \A j \in e + 1 .. Len(ci) : ci[j] # "lua"

(* What luaD_pcall saves, at depth d and level v.                             *)
Keeps(a, d, v, first) ==
  a.k = "pcall" => a.ci = v /\ a.ncc = d /\ a.ncc < MaxCcalls + Spare /\ (first => a.errfunc = None)

(* A thread on the C stack calls: the activation a at level v.                *)
LEMMA PushKeeps ==
  ASSUME NEW t \in [Thread -> Rec], NEW cs \in Seq(Act), NEW lv, Good(t, cs, lv),
         NEW n \in Nat \ {0}, n = Len(cs), NEW l \in Thread, cs[n].th = l, t[l].status = "ok",
         NEW a \in Act, a.th = l, <<cs[n].k, a.k>> \in Nested, NEW v \in Nat,
         NEW r \in Rec, Alike(r, t[l]), Sized(r),
         Laid(r.ci, t[l].ci, Top(cs, lv, n), v, v + Own(a)),
         cs[n].k = "resume" => v = 1,
         a.k = "pcall" => Top(cs, lv, n) < v,
         Keeps(a, Depth(cs, n), v, Unprotected(cs, l, n)),
         r.ncc = Depth(cs, n) + (IF a.k = "call" THEN 1 ELSE 0),
         a.k # "pcall" /\ Unprotected(cs, l, n) => r.errfunc = None
  PROVE  Good([t EXCEPT ![l] = r], Append(cs, a), Append(lv, v))
<1> DEFINE u == [t EXCEPT ![l] = r]
           ds == Append(cs, a)
           lw == Append(lv, v)
<1>1. /\ ds \in Seq(Act) /\ Len(ds) = n + 1 /\ lw \in Seq(Nat) /\ Len(lw) = n + 1 /\ n \in Nat \ {0}
      /\ \A i \in 1 .. n : ds[i] = cs[i] /\ lw[i] = lv[i]
      /\ ds[n + 1] = a /\ lw[n + 1] = v /\ Len(cs) = n
  BY DEF Good
<1>2. /\ u[l] = r /\ \A th \in Thread \ {l} : u[th] = t[th]
      /\ \A i \in 1 .. n : cs[i].th \in Thread
  <2>1. \A i \in 1 .. n : cs[i] \in Act
    OBVIOUS
  <2> QED BY <2>1, ActIs
<1> HIDE DEF u, ds, lw
<1>3. /\ \A i \in 1 .. n : lv[i] \in Nat /\ Top(cs, lv, i) \in Nat /\ lv[i] <= Top(cs, lv, i)
      /\ \A i \in 1 .. n : cs[i].th = l =>
           /\ lv[i] <= lv[n] /\ Top(cs, lv, i) <= Top(cs, lv, n)
           /\ i < n => Top(cs, lv, i) <= lv[n] /\ cs[i + 1].th = l /\ cs[i + 1].k # "resume"
  <2>1. \A i \in 1 .. n : lv[i] \in Nat /\ Top(cs, lv, i) \in Nat /\ lv[i] <= Top(cs, lv, i)
    BY Below
  <2>2. ASSUME NEW i \in 1 .. n, cs[i].th = l
        PROVE  /\ lv[i] <= lv[n] /\ Top(cs, lv, i) <= Top(cs, lv, n)
               /\ i < n => Top(cs, lv, i) <= lv[n] /\ cs[i + 1].th = l /\ cs[i + 1].k # "resume"
    <3>1. i \in 1 .. Len(cs) /\ n \in 1 .. Len(cs) /\ i <= n /\ cs[i].th = cs[n].th
      BY <1>1, <2>2
    <3> QED BY <3>1, Below
  <2> QED BY <2>1, <2>2
<1>4. /\ \A i \in 1 .. n : Top(ds, lw, i) = Top(cs, lv, i)
      /\ Top(ds, lw, n + 1) = v + Own(a) /\ Own(a) \in Nat
  BY <1>1, ActIs DEF Top
<1>5. \A i \in 0 .. n : Depth(ds, i) = Depth(cs, i)
  <2> TAKE i \in 0 .. n
  <2>1. i \in Nat /\ \A j \in 1 .. i : ds[j].k = cs[j].k
    BY <1>1
  <2> QED BY <2>1, DepthSame
<1>6. a.k # "resume" /\ a.k \in {"exec", "pcall", "call", "handler"}
  BY DEF Nested
<1>61. Depth(ds, n + 1) = r.ncc
  <2>1. Depth(ds, n + 1) = Depth(ds, n) + (IF a.k \in {"call", "resume"} THEN 1 ELSE 0)
    BY <1>1, DepthStep
  <2>2. n \in 0 .. n
    BY <1>1
  <2> QED BY <1>5, <1>6, <2>1, <2>2
<1>60. n + 1 \in 1 .. n + 1 /\ \A i \in 1 .. n + 1 : i # n + 1 => i \in 1 .. n
  OBVIOUS
<1>62. On(ds) = On(cs)
  <2>1. On(cs) \subseteq On(ds)
    BY <1>1 DEF On
  <2>2. \A i \in 1 .. n + 1 : \E j \in 1 .. n : ds[i].th = cs[j].th
    <3> TAKE i \in 1 .. n + 1
    <3>1. CASE i = n + 1
      <4>1. n \in 1 .. n /\ ds[i].th = cs[n].th
        BY <1>1, <3>1
      <4> QED BY <4>1
    <3>2. CASE i # n + 1
      BY <1>1, <1>60, <3>2
    <3> QED BY <3>1, <3>2
  <2>3. ASSUME NEW c \in On(ds) PROVE c \in On(cs)
    <3>1. PICK i \in 1 .. n + 1 : c = ds[i].th
      BY <1>1 DEF On
    <3>2. PICK j \in 1 .. n : ds[i].th = cs[j].th
      BY <2>2
    <3> QED BY <1>1, <3>1, <3>2 DEF On
  <2> QED BY <2>1, <2>3
<1>63. \A i \in 1 .. n : Ends(ds, i) => i < n /\ Ends(cs, i) /\ cs[i].th # l
  <2> SUFFICES ASSUME NEW i \in 1 .. n, Ends(ds, i) PROVE i < n /\ Ends(cs, i) /\ cs[i].th # l
    OBVIOUS
  <2>1. ds[i + 1].k = "resume"
    BY <1>1 DEF Ends
  <2>2. i # n
    BY <1>1, <1>6, <2>1
  <2>3. i + 1 \in 1 .. n
    BY <1>1, <2>2
  <2>4. cs[i + 1].k = "resume"
    BY <1>1, <2>1, <2>3
  <2> QED BY <1>3, <2>2, <2>3, <2>4 DEF Ends
<1>7. Stacked(ds)
  <2>1. ds[1].th = Main /\ ds[1].k \in {"pcall", "call"}
    <3>1. 1 \in 1 .. n /\ cs # <<>>
      BY <1>1
    <3> QED BY <1>1, <3>1 DEF Good, Stacked
  <2>2. \A i \in 1 .. Len(ds) - 1 : Follows(ds[i], ds[i + 1])
    <3> TAKE i \in 1 .. Len(ds) - 1
    <3>1. CASE i = n
      <4>1. n \in 1 .. n
        BY <1>1
      <4>2. ds[i] = cs[n] /\ ds[i + 1] = a
        BY <1>1, <3>1, <4>1
      <4> QED BY <4>2 DEF Follows
    <3>2. CASE i # n
      <4>1. i \in 1 .. n /\ i + 1 \in 1 .. n /\ i \in 1 .. Len(cs) - 1
        BY <1>1, <3>2
      <4>2. Follows(cs[i], cs[i + 1])
        BY <4>1 DEF Good, Stacked
      <4> QED BY <1>1, <4>1, <4>2
    <3> QED BY <3>1, <3>2
  <2>3. \A i, j \in 1 .. Len(ds) : i < j /\ ds[i].th = ds[j].th =>
          \A k \in i + 1 .. j : ds[k].th = ds[i].th /\ ds[k].k # "resume"
    <3> SUFFICES ASSUME NEW i \in 1 .. n + 1, NEW j \in 1 .. n + 1, i < j, ds[i].th = ds[j].th,
                        NEW k \in i + 1 .. j
                 PROVE  ds[k].th = ds[i].th /\ ds[k].k # "resume"
      BY <1>1
    <3>1. CASE k = n + 1
      <4>1. j = n + 1 /\ ds[k] = a /\ ds[i].th = l
        BY <1>1, <3>1
      <4> QED BY <1>6, <4>1
    <3>2. CASE k # n + 1
      <4>0. i \in 1 .. n /\ k \in 1 .. n /\ i < n
        BY <3>2
      <4>1. i \in 1 .. n /\ k \in 1 .. n /\ ds[i] = cs[i] /\ ds[k] = cs[k] /\ i < n
        BY <1>1, <4>0
      <4>2. CASE j = n + 1
        <5>1. cs[i].th = cs[n].th /\ i \in 1 .. Len(cs) /\ n \in 1 .. Len(cs) /\ k \in i + 1 .. n
          BY <1>1, <4>1, <4>2
        <5>2. cs[k].th = cs[i].th /\ cs[k].k # "resume"
          BY <4>1, <5>1 DEF Good, Stacked
        <5> QED BY <4>1, <5>2
      <4>3. CASE j # n + 1
        <5>1. j \in 1 .. n
          BY <1>60, <4>3
        <5>3. i \in 1 .. Len(cs) /\ j \in 1 .. Len(cs) /\ cs[i].th = cs[j].th
          BY <1>1, <4>1, <5>1
        <5>2. cs[k].th = cs[i].th /\ cs[k].k # "resume"
          BY <5>3 DEF Good, Stacked
        <5> QED BY <4>1, <5>2
      <4> QED BY <4>2, <4>3
    <3> QED BY <3>1, <3>2
  <2> QED BY <2>1, <2>2, <2>3 DEF Stacked
<1>8. ASSUME NEW i \in 1 .. n + 1 PROVE Placed(u, ds, lw, i)
  <2>1. CASE i = n + 1
    <3>1. u[ds[i].th].ci = r.ci /\ lw[i] = v /\ Top(ds, lw, i) = v + Own(a) /\ ds[i].k # "resume" /\ i # 1
      BY <1>1, <1>2, <1>4, <1>6, <2>1
    <3> QED BY <3>1 DEF Placed, Laid
  <2>2. CASE i # n + 1
    <3>1. i \in 1 .. n /\ Placed(t, cs, lv, i) /\ ds[i] = cs[i] /\ lw[i] = lv[i] /\ Top(ds, lw, i) = Top(cs, lv, i)
      <4>1. i \in 1 .. n
        BY <1>1, <2>2
      <4> QED BY <1>1, <1>4, <4>1 DEF Good, Levels
    <3>2. CASE cs[i].th # l
      BY <1>2, <3>1, <3>2 DEF Placed
    <3>3. CASE cs[i].th = l
      <4>1. /\ Top(cs, lv, i) <= Top(cs, lv, n) /\ lv[i] <= Top(cs, lv, i) /\ lv[i] \in Nat
            /\ Top(cs, lv, i) \in Nat /\ Top(cs, lv, n) \in Nat /\ Len(r.ci) \in Nat
        <5>1. n \in 1 .. n
          BY <1>1
        <5> QED BY <1>3, <3>1, <3>3, <5>1, RecIs
      <4>2. 1 <= lv[i] /\ Top(cs, lv, i) <= Len(r.ci)
        BY <1>4, <3>1, <4>1 DEF Placed, Laid
      <4>3. \A j \in lv[i] + 1 .. Top(cs, lv, i) : r.ci[j] = "lua"
        <5> TAKE j \in lv[i] + 1 .. Top(cs, lv, i)
        <5>1. j \in 1 .. Top(cs, lv, n)
          BY <4>1
        <5> QED BY <3>1, <3>3, <5>1 DEF Placed, Laid
      <4>4. r.ci[1] = t[l].ci[1]
        <5>1. 1 \in 1 .. Top(cs, lv, n)
          BY <4>1, <4>2
        <5> QED BY <5>1 DEF Laid
      <4>5. u[ds[i].th].ci = r.ci
        BY <1>2, <3>1, <3>3
      <4>6. i = 1 \/ cs[i].k = "resume" => lv[i] = 1 /\ r.ci[1] # "lua"
        BY <3>1, <3>3, <4>4 DEF Placed
      <4> QED BY <3>1, <4>2, <4>3, <4>5, <4>6 DEF Placed
    <3> QED BY <3>2, <3>3
  <2> QED BY <2>1, <2>2
<1>9. ASSUME NEW i \in 1 .. n + 1 PROVE Closes(u, ds, lw, i)
  <2>1. CASE i = n + 1
    <3>1. u[ds[i].th] = r /\ Top(ds, lw, i) = v + Own(a) /\ ds[i].k # "resume" /\ ~(i < Len(ds))
      BY <1>1, <1>2, <1>4, <1>6, <2>1
    <3> QED BY <3>1 DEF Closes, Laid
  <2>2. CASE i # n + 1 /\ Ends(ds, i)
    <3>1. i \in 1 .. n /\ i \in 1 .. Len(cs)
      BY <1>1, <2>2
    <3>2. i < n /\ Ends(cs, i) /\ cs[i].th # l
      BY <1>63, <2>2, <3>1
    <3>3. Closes(t, cs, lv, i)
      BY <3>1 DEF Good, Levels
    <3>4. u[ds[i].th] = t[cs[i].th] /\ ds[i] = cs[i] /\ Top(ds, lw, i) = Top(cs, lv, i) /\ i < Len(cs) /\ i # Len(ds)
      BY <1>1, <1>2, <1>4, <3>1, <3>2
    <3> QED BY <3>2, <3>3, <3>4 DEF Closes
  <2>3. CASE ~Ends(ds, i)
    BY <2>3 DEF Closes
  <2> QED BY <2>1, <2>2, <2>3
<1>10. ASSUME NEW i \in 1 .. n PROVE Nests(u, ds, lw, i)
  <2>1. CASE i = n
    <3>1. n \in 1 .. n
      BY <1>1
    <3>2. /\ u[ds[i].th].ci = r.ci /\ Top(ds, lw, i) = Top(cs, lv, n) /\ lw[i + 1] = v /\ ds[i] = cs[n]
          /\ ds[i + 1] = a
      BY <1>1, <1>2, <1>4, <2>1, <3>1
    <3> QED BY <3>2 DEF Nests, Laid
  <2>2. CASE i # n
    <3>1. /\ i \in 1 .. n /\ i + 1 \in 1 .. n /\ ds[i] = cs[i] /\ ds[i + 1] = cs[i + 1]
          /\ lw[i] = lv[i] /\ lw[i + 1] = lv[i + 1] /\ i \in 1 .. Len(cs) - 1 /\ i + 1 \in 1 .. Len(cs)
      BY <1>1, <2>2
    <3>2. Nests(t, cs, lv, i)
      BY <3>1 DEF Good, Levels
    <3>3. CASE cs[i].th # l
      BY <1>2, <1>4, <3>1, <3>2, <3>3 DEF Nests
    <3>4. CASE cs[i].th = l /\ cs[i + 1].k # "resume"
      <4>1. cs[i + 1].th = l
        BY <3>1, <3>4 DEF Good, Stacked, Follows
      <4>2. lv[i + 1] <= Top(cs, lv, n) /\ lv[i + 1] \in Nat /\ Top(cs, lv, i) \in Nat /\ Top(cs, lv, n) \in Nat
        <5>1. n \in 1 .. n
          BY <1>1
        <5>2. lv[i + 1] <= lv[n] /\ lv[n] <= Top(cs, lv, n) /\ lv[n] \in Nat
          BY <1>3, <3>1, <4>1, <5>1
        <5> QED BY <1>3, <3>1, <5>1, <5>2
      <4>3. \A j \in Top(cs, lv, i) + 1 .. lv[i + 1] : r.ci[j] = t[l].ci[j]
        BY <4>2 DEF Laid
      <4>4. u[ds[i].th].ci = r.ci /\ Top(ds, lw, i) = Top(cs, lv, i)
        BY <1>2, <1>4, <3>1, <3>4
      <4> QED BY <3>1, <3>2, <3>4, <4>3, <4>4 DEF Nests
    <3>5. CASE cs[i + 1].k = "resume"
      BY <3>1, <3>5 DEF Nests
    <3> QED BY <3>3, <3>4, <3>5
  <2> QED BY <2>1, <2>2
<1>11. Levels(u, ds, lw)
  <2>1. \A i, j \in 1 .. Len(ds) : i < j /\ ds[i].th = ds[j].th => Top(ds, lw, i) <= lw[j]
    <3> SUFFICES ASSUME NEW i \in 1 .. n + 1, NEW j \in 1 .. n + 1, i < j, ds[i].th = ds[j].th
                 PROVE  Top(ds, lw, i) <= lw[j]
      BY <1>1
    <3>1. i \in 1 .. n /\ ds[i] = cs[i] /\ Top(ds, lw, i) = Top(cs, lv, i)
      BY <1>1, <1>4
    <3>2. CASE j = n + 1
      <4>1. cs[i].th = l /\ n \in 1 .. n /\ lw[j] = v
        BY <1>1, <3>1, <3>2
      <4>2. Top(cs, lv, i) <= Top(cs, lv, n) /\ Top(cs, lv, i) \in Nat /\ Top(cs, lv, n) \in Nat
        BY <1>3, <3>1, <4>1
      <4> QED BY <3>1, <4>1, <4>2 DEF Laid
    <3>3. CASE j # n + 1
      <4>0. j \in 1 .. n
        BY <1>60, <3>3
      <4>1. i \in 1 .. Len(cs) /\ j \in 1 .. Len(cs) /\ cs[i].th = cs[j].th /\ lw[j] = lv[j]
        BY <1>1, <3>1, <4>0
      <4>2. Top(cs, lv, i) <= lv[j]
        BY <4>1 DEF Good, Levels
      <4> QED BY <3>1, <4>1, <4>2
    <3> QED BY <3>2, <3>3
  <2> QED BY <1>1, <1>8, <1>9, <1>10, <2>1 DEF Levels
<1>12. Saved(u, ds, lw)
  <2>1. ASSUME NEW i \in 1 .. Len(ds) PROVE Saves(ds, lw, i)
    <3>1. CASE i = n + 1
      <4>1. ASSUME a.k = "pcall", \A j \in 1 .. i - 1 : ds[j].th = ds[i].th => ds[j].k # "pcall"
            PROVE  a.errfunc = None
        <5>1. Unprotected(cs, l, n)
          BY <1>1, <3>1, <4>1 DEF Unprotected
        <5> QED BY <4>1, <5>1 DEF Keeps
      <4>2. a.k = "pcall" => Depth(ds, i) = a.ncc /\ a.ci = v /\ a.ncc < MaxCcalls + Spare
        <5>1. Depth(cs, n) \in Nat
          BY <1>1, DepthStep
        <5> QED BY <1>61, <3>1, <5>1 DEF Keeps
      <4>3. ds[i] = a /\ lw[i] = v
        BY <1>1, <3>1
      <4> QED BY <4>1, <4>2, <4>3 DEF Saves
    <3>2. CASE i # n + 1
      <4>1. i \in 1 .. n /\ i \in 1 .. Len(cs) /\ i \in 0 .. n
        BY <1>1, <3>2
      <4>2. ds[i] = cs[i] /\ lw[i] = lv[i] /\ Depth(ds, i) = Depth(cs, i) /\ \A j \in 1 .. i - 1 : ds[j] = cs[j]
        BY <1>1, <1>5, <4>1
      <4>3. Saves(cs, lv, i)
        BY <4>1 DEF Good, Saved
      <4> QED BY <4>2, <4>3 DEF Saves
    <3> QED BY <3>1, <3>2
  <2>2. ASSUME NEW th \in On(ds), \A j \in 1 .. Len(ds) : ds[j].th = th => ds[j].k # "pcall"
        PROVE  u[th].errfunc = None
    <3>1. Unprotected(cs, th, n)
      BY <1>1, <2>2 DEF Unprotected
    <3>2. CASE th = l
      <4>1. n + 1 \in 1 .. Len(ds) /\ ds[n + 1] = a
        BY <1>1
      <4>2. a.k # "pcall"
        BY <2>2, <3>2, <4>1
      <4> QED BY <1>2, <3>1, <3>2, <4>2
    <3>3. CASE th # l
      <4>1. \A j \in 1 .. Len(cs) : cs[j].th = th => cs[j].k # "pcall"
        BY <1>1, <3>1 DEF Unprotected
      <4>2. th \in On(cs) /\ th \in Thread
        BY <1>1, <1>2, <1>62 DEF On
      <4>3. t[th].errfunc = None
        BY <4>1, <4>2 DEF Good, Saved
      <4> QED BY <1>2, <3>3, <4>2, <4>3
    <3> QED BY <3>2, <3>3
  <2> QED BY <2>1, <2>2 DEF Saved
<1>13. Counted(u, ds)
  <2>1. ASSUME NEW i \in 1 .. Len(ds), Ends(ds, i) PROVE u[ds[i].th].ncc = Depth(ds, i)
    <3>1. CASE i = n + 1
      BY <1>1, <1>2, <1>61, <3>1
    <3>2. CASE i # n + 1
      <4>1. i \in 1 .. n /\ i \in 1 .. Len(cs) /\ i \in 0 .. n
        BY <1>1, <3>2
      <4>2. i < n /\ Ends(cs, i) /\ cs[i].th # l
        BY <1>63, <2>1, <4>1
      <4>3. t[cs[i].th].ncc = Depth(cs, i)
        BY <4>1, <4>2 DEF Good, Counted
      <4> QED BY <1>1, <1>2, <1>5, <4>1, <4>2, <4>3
    <3> QED BY <3>1, <3>2
  <2>2. ASSUME NEW i \in 1 .. Len(ds), ds[i].k = "resume"
        PROVE  u[ds[i].th].baseCc = Depth(ds, i) /\ Depth(ds, i - 1) < MaxCcalls
    <3>1. i # n + 1
      BY <1>1, <1>6, <2>2
    <3>2. i \in 1 .. n /\ i \in 1 .. Len(cs) /\ ds[i] = cs[i] /\ i \in 0 .. n /\ i - 1 \in 0 .. n
      BY <1>1, <3>1
    <3>3. t[cs[i].th].baseCc = Depth(cs, i) /\ Depth(cs, i - 1) < MaxCcalls
      BY <2>2, <3>2 DEF Good, Counted
    <3>4. u[cs[i].th].baseCc = t[cs[i].th].baseCc
      BY <1>2, <3>2 DEF Alike
    <3> QED BY <1>5, <3>2, <3>3, <3>4
  <2>3. u[Main].baseCc = 0
    <3>1. Main \in Thread
      BY DEF Thread
    <3> QED BY <1>2, <3>1 DEF Good, Counted, Alike
  <2> QED BY <2>1, <2>2, <2>3 DEF Counted
<1>14. Awake(u, ds)
  <2> SUFFICES ASSUME NEW i \in 1 .. n + 1
               PROVE  /\ u[ds[i].th].made /\ ~u[ds[i].th].fresh
                      /\ u[ds[i].th].status = "ok"
    BY <1>1 DEF Awake
  <2>1. r.made /\ ~r.fresh /\ r.status = "ok"
    <3>1. n \in 1 .. Len(cs)
      BY <1>1
    <3>2. t[l].made /\ ~t[l].fresh
      BY <3>1 DEF Good, Awake
    <3> QED BY <3>2 DEF Alike
  <2>2. CASE ds[i].th = l
    BY <1>2, <2>1, <2>2
  <2>3. CASE ds[i].th # l
    <3>1. i \in 1 .. Len(cs) /\ i \in 1 .. n /\ i < Len(cs) /\ ds[i] = cs[i]
      BY <1>1, <2>3
    <3> QED BY <1>2, <2>3, <3>1 DEF Good, Awake
  <2> QED BY <2>2, <2>3
<1>15. Rests(u, ds)
  <2>1. l \in On(cs)
    BY <1>1 DEF On
  <2>2. Coroutines \subseteq Thread
    BY DEF Thread
  <2> QED BY <1>2, <1>62, <2>1, <2>2 DEF Good, Rests
<1>16. \A th \in Thread : Sized(u[th])
  BY <1>2 DEF Good
<1> QED BY <1>1, <1>7, <1>11, <1>12, <1>13, <1>14, <1>15, <1>16 DEF Good, u, ds, lw

(* A coroutine that was not on the C stack is resumed.                        *)
LEMMA ResumeKeeps ==
  ASSUME NEW t \in [Thread -> Rec], NEW cs \in Seq(Act), NEW lv, Good(t, cs, lv),
         NEW n \in Nat \ {0}, n = Len(cs), cs[n].k \in {"exec", "call"},
         Top(cs, lv, n) < Len(t[cs[n].th].ci), Depth(cs, n) < MaxCcalls,
         NEW c \in Coroutines, c \notin On(cs),
         NEW r \in Rec, Sized(r), r.made, ~r.fresh, r.status = "ok", Len(r.ci) = 1, r.ci[1] # "lua",
         r.errfunc = None, r.ncc = Depth(cs, n) + 1, r.baseCc = r.ncc,
         NEW a \in Act, a.k = "resume", a.th = c
  PROVE  Good([t EXCEPT ![c] = r], Append(cs, a), Append(lv, 1))
<1> DEFINE u == [t EXCEPT ![c] = r]
           ds == Append(cs, a)
           lw == Append(lv, 1)
<1>1. /\ ds \in Seq(Act) /\ Len(ds) = n + 1 /\ lw \in Seq(Nat) /\ Len(lw) = n + 1
      /\ \A i \in 1 .. n : ds[i] = cs[i] /\ lw[i] = lv[i]
      /\ ds[n + 1] = a /\ lw[n + 1] = 1 /\ Len(cs) = n
  BY DEF Good
<1>2. u[c] = r /\ \A th \in Thread \ {c} : u[th] = t[th]
  <2>1. c \in Thread
    BY DEF Thread
  <2> QED BY <2>1
<1> HIDE DEF u, ds, lw
<1>3. \A i \in 1 .. n : cs[i] \in Act /\ cs[i].th \in Thread \ {c} /\ cs[i].th \in On(cs) /\ ds[i].th = cs[i].th
  <2> TAKE i \in 1 .. n
  <2>1. cs[i] \in Act
    OBVIOUS
  <2>3. ds[i] = cs[i]
    BY <1>1
  <2>2. cs[i].th \in On(cs)
    BY DEF On
  <2> QED BY <2>1, <2>2, <2>3, ActIs
<1>4. n + 1 \in 1 .. n + 1 /\ n \in 0 .. n /\ \A i \in 1 .. n + 1 : i # n + 1 => i \in 1 .. n
  OBVIOUS
<1>5. /\ \A i \in 1 .. n : Top(ds, lw, i) = Top(cs, lv, i)
      /\ Top(ds, lw, n + 1) = 1
  BY <1>1, ActIs DEF Top
<1>6. \A i \in 0 .. n : Depth(ds, i) = Depth(cs, i)
  <2> TAKE i \in 0 .. n
  <2>1. i \in Nat /\ \A j \in 1 .. i : ds[j].k = cs[j].k
    BY <1>1
  <2> QED BY <2>1, DepthSame
<1>7. Depth(ds, n + 1) = Depth(cs, n) + 1
  <2>1. Depth(ds, n + 1) = Depth(ds, n) + (IF a.k \in {"call", "resume"} THEN 1 ELSE 0)
    BY <1>1, DepthStep
  <2> QED BY <1>4, <1>6, <2>1
<1>8. On(ds) = On(cs) \cup {c}
  <2>1. On(cs) \subseteq On(ds)
    BY <1>1 DEF On
  <2>2. c \in On(ds)
    BY <1>1, <1>4 DEF On
  <2>3. \A i \in 1 .. n + 1 : ds[i].th \in On(cs) \cup {c}
    <3> TAKE i \in 1 .. n + 1
    <3>1. CASE i = n + 1
      BY <1>1, <3>1
    <3>2. CASE i # n + 1
      BY <1>3, <1>4, <3>2
    <3> QED BY <3>1, <3>2
  <2>4. On(ds) \subseteq On(cs) \cup {c}
    BY <1>1, <2>3 DEF On
  <2> QED BY <2>1, <2>2, <2>4
<1>9. \A i \in 1 .. n : Ends(ds, i) => Ends(cs, i)
  <2> SUFFICES ASSUME NEW i \in 1 .. n, i # n, Ends(ds, i) PROVE Ends(cs, i)
    BY <1>1 DEF Ends
  <2>1. i + 1 \in 1 .. n
    OBVIOUS
  <2> QED BY <1>1, <2>1 DEF Ends
<1>10. Stacked(ds)
  <2>1. ds[1].th = Main /\ ds[1].k \in {"pcall", "call"}
    <3>1. 1 \in 1 .. n /\ cs # <<>>
      BY <1>1
    <3> QED BY <1>1, <3>1 DEF Good, Stacked
  <2>2. \A i \in 1 .. Len(ds) - 1 : Follows(ds[i], ds[i + 1])
    <3> TAKE i \in 1 .. Len(ds) - 1
    <3>1. CASE i = n
      <4>1. n \in 1 .. n
        OBVIOUS
      <4>2. ds[i] = cs[n] /\ ds[i + 1] = a
        BY <1>1, <3>1, <4>1
      <4> QED BY <4>2 DEF Follows
    <3>2. CASE i # n
      <4>1. i \in 1 .. n /\ i + 1 \in 1 .. n /\ i \in 1 .. Len(cs) - 1
        BY <1>1, <3>2
      <4>2. Follows(cs[i], cs[i + 1])
        BY <4>1 DEF Good, Stacked
      <4> QED BY <1>1, <4>1, <4>2
    <3> QED BY <3>1, <3>2
  <2>3. \A i, j \in 1 .. Len(ds) : i < j /\ ds[i].th = ds[j].th =>
          \A k \in i + 1 .. j : ds[k].th = ds[i].th /\ ds[k].k # "resume"
    <3> SUFFICES ASSUME NEW i \in 1 .. n + 1, NEW j \in 1 .. n + 1, i < j, ds[i].th = ds[j].th,
                        NEW k \in i + 1 .. j
                 PROVE  ds[k].th = ds[i].th /\ ds[k].k # "resume"
      BY <1>1
    <3>1. i \in 1 .. n
      OBVIOUS
    <3>2. j # n + 1
      BY <1>1, <1>3, <3>1
    <3>3. j \in 1 .. n /\ k \in 1 .. n
      BY <1>4, <3>1, <3>2
    <3>4. i \in 1 .. Len(cs) /\ j \in 1 .. Len(cs) /\ cs[i].th = cs[j].th
      BY <1>1, <1>3, <3>1, <3>3
    <3>5. cs[k].th = cs[i].th /\ cs[k].k # "resume"
      BY <3>4 DEF Good, Stacked
    <3> QED BY <1>1, <3>1, <3>3, <3>5
  <2> QED BY <2>1, <2>2, <2>3 DEF Stacked
<1>11. ASSUME NEW i \in 1 .. n + 1 PROVE Placed(u, ds, lw, i) /\ Closes(u, ds, lw, i)
  <2>1. CASE i = n + 1
    <3>1. u[ds[i].th] = r /\ lw[i] = 1 /\ Top(ds, lw, i) = 1
      BY <1>1, <1>2, <1>5, <2>1
    <3>2. Len(ds) = i
      BY <1>1, <2>1
    <3> QED BY <3>1, <3>2 DEF Placed, Closes
  <2>2. CASE i # n + 1
    <3>1. i \in 1 .. n /\ i \in 1 .. Len(cs)
      BY <1>1, <1>4, <2>2
    <3>2. /\ Placed(t, cs, lv, i) /\ Closes(t, cs, lv, i)
          /\ ds[i] = cs[i] /\ lw[i] = lv[i] /\ Top(ds, lw, i) = Top(cs, lv, i) /\ u[ds[i].th] = t[cs[i].th]
      BY <1>1, <1>2, <1>3, <1>5, <3>1 DEF Good, Levels
    <3>3. Placed(u, ds, lw, i)
      BY <3>2 DEF Placed
    <3>4. CASE i = n
      <4>1. i # Len(ds)
        BY <1>1, <2>2
      <4>2. Ends(cs, i)
        BY <1>1, <3>4 DEF Ends
      <4>3. Top(cs, lv, i) < Len(t[cs[i].th].ci)
        BY <3>4
      <4> QED BY <3>2, <3>3, <4>1, <4>2, <4>3 DEF Closes
    <3>5. CASE i # n
      <4>1. i # Len(ds) /\ i < Len(cs)
        BY <1>1, <2>2, <3>1, <3>5
      <4>2. Ends(ds, i) => Ends(cs, i)
        BY <1>9, <3>1
      <4> QED BY <3>2, <3>3, <4>1, <4>2 DEF Closes
    <3> QED BY <3>4, <3>5
  <2> QED BY <2>1, <2>2
<1>12. ASSUME NEW i \in 1 .. n PROVE Nests(u, ds, lw, i)
  <2>1. CASE i = n
    BY <1>1, <2>1 DEF Nests
  <2>2. CASE i # n
    <3>1. i + 1 \in 1 .. n /\ i \in 1 .. Len(cs) - 1
      BY <1>1, <2>2
    <3>2. /\ ds[i] = cs[i] /\ ds[i + 1] = cs[i + 1] /\ lw[i + 1] = lv[i + 1]
          /\ Top(ds, lw, i) = Top(cs, lv, i) /\ u[ds[i].th] = t[cs[i].th]
      BY <1>1, <1>2, <1>3, <1>5, <3>1
    <3>3. Nests(t, cs, lv, i)
      BY <3>1 DEF Good, Levels
    <3> QED BY <3>2, <3>3 DEF Nests
  <2> QED BY <2>1, <2>2
<1>13. Levels(u, ds, lw)
  <2>1. \A i, j \in 1 .. Len(ds) : i < j /\ ds[i].th = ds[j].th => Top(ds, lw, i) <= lw[j]
    <3> SUFFICES ASSUME NEW i \in 1 .. n + 1, NEW j \in 1 .. n + 1, i < j, ds[i].th = ds[j].th
                 PROVE  Top(ds, lw, i) <= lw[j]
      BY <1>1
    <3>1. i \in 1 .. n
      OBVIOUS
    <3>2. j # n + 1
      BY <1>1, <1>3, <3>1
    <3>3. j \in 1 .. n
      BY <1>4, <3>2
    <3>4. i \in 1 .. Len(cs) /\ j \in 1 .. Len(cs) /\ cs[i].th = cs[j].th
      BY <1>1, <1>3, <3>1, <3>3
    <3>5. Top(cs, lv, i) <= lv[j]
      BY <3>4 DEF Good, Levels
    <3> QED BY <1>1, <1>5, <3>1, <3>3, <3>5
  <2> QED BY <1>1, <1>11, <1>12, <2>1 DEF Levels
<1>14. Saved(u, ds, lw)
  <2>1. ASSUME NEW i \in 1 .. Len(ds) PROVE Saves(ds, lw, i)
    <3>1. CASE i = n + 1
      BY <1>1, <3>1 DEF Saves
    <3>2. CASE i # n + 1
      <4>1. i \in 1 .. n /\ i \in 1 .. Len(cs) /\ i \in 0 .. n
        BY <1>1, <1>4, <3>2
      <4>2. ds[i] = cs[i] /\ lw[i] = lv[i] /\ Depth(ds, i) = Depth(cs, i) /\ \A j \in 1 .. i - 1 : ds[j] = cs[j]
        BY <1>1, <1>6, <4>1
      <4>3. Saves(cs, lv, i)
        BY <4>1 DEF Good, Saved
      <4> QED BY <4>2, <4>3 DEF Saves
    <3> QED BY <3>1, <3>2
  <2>2. ASSUME NEW th \in On(ds), \A j \in 1 .. Len(ds) : ds[j].th = th => ds[j].k # "pcall"
        PROVE  u[th].errfunc = None
    <3>1. CASE th = c
      BY <1>2, <3>1
    <3>2. CASE th # c
      <4>1. th \in On(cs) /\ th \in Thread
        BY <1>1, <1>3, <1>8, <3>2 DEF On
      <4>2. \A j \in 1 .. Len(cs) : cs[j].th = th => cs[j].k # "pcall"
        BY <1>1, <2>2
      <4>3. t[th].errfunc = None
        BY <4>1, <4>2 DEF Good, Saved
      <4> QED BY <1>2, <3>2, <4>1, <4>3
    <3> QED BY <3>1, <3>2
  <2> QED BY <2>1, <2>2 DEF Saved
<1>15. Counted(u, ds)
  <2>1. ASSUME NEW i \in 1 .. Len(ds)
        PROVE  /\ Ends(ds, i) => u[ds[i].th].ncc = Depth(ds, i)
               /\ ds[i].k = "resume" => u[ds[i].th].baseCc = Depth(ds, i) /\ Depth(ds, i - 1) < MaxCcalls
    <3>1. CASE i = n + 1
      <4>1. u[ds[i].th] = r /\ i - 1 = n /\ Depth(ds, n) = Depth(cs, n)
        BY <1>1, <1>2, <1>4, <1>6, <3>1
      <4> QED BY <1>7, <3>1, <4>1
    <3>2. CASE i # n + 1
      <4>1. i \in 1 .. n /\ i \in 1 .. Len(cs) /\ i \in 0 .. n /\ i - 1 \in 0 .. n
        BY <1>1, <1>4, <3>2
      <4>2. u[ds[i].th] = t[cs[i].th] /\ ds[i] = cs[i] /\ (Ends(ds, i) => Ends(cs, i))
        BY <1>1, <1>2, <1>3, <1>9, <4>1
      <4>3. Depth(ds, i) = Depth(cs, i) /\ Depth(ds, i - 1) = Depth(cs, i - 1)
        BY <1>6, <4>1
      <4>4. /\ Ends(cs, i) => t[cs[i].th].ncc = Depth(cs, i)
            /\ cs[i].k = "resume" => t[cs[i].th].baseCc = Depth(cs, i) /\ Depth(cs, i - 1) < MaxCcalls
        BY <4>1 DEF Good, Counted
      <4> QED BY <4>2, <4>3, <4>4
    <3> QED BY <3>1, <3>2
  <2>2. u[Main].baseCc = 0
    <3>1. Main \in Thread \ {c}
      BY CallsAssumption DEF Thread
    <3> QED BY <1>2, <3>1 DEF Good, Counted
  <2> QED BY <2>1, <2>2 DEF Counted
<1>16. Awake(u, ds)
  <2> SUFFICES ASSUME NEW i \in 1 .. n + 1
               PROVE  /\ u[ds[i].th].made /\ ~u[ds[i].th].fresh
                      /\ u[ds[i].th].status = "ok"
    BY <1>1 DEF Awake
  <2>1. CASE i = n + 1
    BY <1>1, <1>2, <2>1
  <2>2. CASE i # n + 1
    <3>1. i \in 1 .. n /\ i \in 1 .. Len(cs) /\ (i = Len(cs) => cs[i].k # "resume")
      BY <1>1, <1>4, <2>2
    <3>2. u[ds[i].th] = t[cs[i].th]
      BY <1>1, <1>2, <1>3, <3>1
    <3>3. t[cs[i].th].made /\ ~t[cs[i].th].fresh /\ t[cs[i].th].status = "ok"
      BY <3>1 DEF Good, Awake
    <3> QED BY <3>2, <3>3
  <2> QED BY <2>1, <2>2
<1>17. Rests(u, ds)
  <2>1. Coroutines \subseteq Thread
    BY DEF Thread
  <2> QED BY <1>2, <1>8, <2>1 DEF Good, Rests
<1>18. \A th \in Thread : Sized(u[th])
  BY <1>2 DEF Good
<1> QED BY <1>1, <1>10, <1>13, <1>14, <1>15, <1>16, <1>17, <1>18 DEF Good, u, ds, lw

(* Who resumed a coroutine waits in a C function, and the coroutine is        *)
(* nowhere below.                                                             *)
LEMMA Resumer ==
  ASSUME NEW t \in [Thread -> Rec], NEW cs \in Seq(Act), NEW lv, Good(t, cs, lv),
         NEW m \in 1 .. Len(cs), cs[m].k = "resume"
  PROVE  /\ cs[m].th \in Coroutines /\ m - 1 \in 1 .. Len(cs) /\ cs[m - 1].k \in {"exec", "call"}
         /\ Top(cs, lv, m - 1) < Len(t[cs[m - 1].th].ci) /\ t[cs[m - 1].th].status = "ok"
         /\ \A i \in 1 .. m - 1 : cs[i].th # cs[m].th
<1>1. Len(cs) \in Nat \ {0} /\ cs # <<>> /\ m \in Nat
  OBVIOUS
<1>2. m # 1
  BY <1>1 DEF Good, Stacked
<1>3. m - 1 \in 1 .. Len(cs) - 1 /\ (m - 1) + 1 = m /\ m - 1 \in 1 .. Len(cs) /\ m - 1 < Len(cs)
  BY <1>1, <1>2
<1>4. Follows(cs[m - 1], cs[m])
  BY <1>3 DEF Good, Stacked
<1>5. cs[m].th \in Coroutines /\ cs[m - 1].k \in {"exec", "call"}
  BY <1>4 DEF Follows, Nested
<1>6. Ends(cs, m - 1)
  BY <1>3 DEF Ends
<1>7. t[cs[m - 1].th].status = "ok"
  BY <1>3, <1>5 DEF Good, Awake
<1>8. Closes(t, cs, lv, m - 1)
  BY <1>3 DEF Good, Levels
<1>9. Top(cs, lv, m - 1) < Len(t[cs[m - 1].th].ci)
  BY <1>3, <1>6, <1>7, <1>8 DEF Closes
<1>10. ASSUME NEW i \in 1 .. m - 1, cs[i].th = cs[m].th PROVE FALSE
  <2>1. i \in 1 .. Len(cs) /\ i < m /\ m \in i + 1 .. m
    BY <1>3
  <2> QED BY <1>10, <2>1 DEF Good, Stacked
<1> QED BY <1>3, <1>5, <1>7, <1>9, <1>10

(* A coroutine leaves the C stack, with all it called.                        *)
LEMMA LeaveKeeps ==
  ASSUME NEW t \in [Thread -> Rec], NEW cs \in Seq(Act), NEW lv, Good(t, cs, lv),
         NEW m \in 1 .. Len(cs), NEW c, cs[m].k = "resume", cs[m].th = c,
         \A i \in m + 1 .. Len(cs) : cs[i].th = c /\ cs[i].k # "resume",
         NEW r \in Rec, Sized(r), Resting(r)
  PROVE  Good([t EXCEPT ![c] = r], SubSeq(cs, 1, m - 1), SubSeq(lv, 1, m - 1))
<1> DEFINE u == [t EXCEPT ![c] = r]
           ds == SubSeq(cs, 1, m - 1)
           lw == SubSeq(lv, 1, m - 1)
<1>0. /\ c \in Coroutines /\ m - 1 \in 1 .. Len(cs) /\ cs[m - 1].k \in {"exec", "call"}
      /\ Top(cs, lv, m - 1) < Len(t[cs[m - 1].th].ci) /\ t[cs[m - 1].th].status = "ok"
      /\ \A i \in 1 .. m - 1 : cs[i].th # c
  BY Resumer
<1> DEFINE n == m - 1
<1>1. /\ ds \in Seq(Act) /\ Len(ds) = n /\ lw \in Seq(Nat) /\ Len(lw) = n /\ n \in Nat \ {0} /\ Len(cs) \in Nat
      /\ \A i \in 1 .. n : ds[i] = cs[i] /\ lw[i] = lv[i]
      /\ m = n + 1
  BY <1>0 DEF Good
<1>2. u[c] = r /\ c \in Thread /\ \A th \in Thread \ {c} : u[th] = t[th]
  <2>1. c \in Thread
    BY <1>0 DEF Thread
  <2> QED BY <2>1
<1>21. n <= Len(cs) /\ n < Len(cs) /\ cs[n].k \in {"exec", "call"} /\ \A i \in 1 .. n : cs[i].th # c
  BY <1>0
<1> HIDE DEF u, ds, lw, n
<1>3. \A i \in 1 .. n : /\ cs[i].th \in Thread \ {c} /\ ds[i] = cs[i] /\ i \in 1 .. Len(cs)
                        /\ u[ds[i].th] = t[cs[i].th]
  <2> TAKE i \in 1 .. n
  <2>0. ds[i] = cs[i]
    BY <1>1
  <2>3. i \in 1 .. Len(cs)
    <3>1. n <= Len(cs) /\ n \in Nat /\ Len(cs) \in Nat
      BY <1>1, <1>21
    <3> QED BY <3>1
  <2>1. i \in 1 .. Len(cs) /\ ds[i] = cs[i] /\ cs[i] \in Act
    BY <2>0, <2>3
  <2>2. cs[i].th # c
    BY <1>1, <1>21
  <2> QED BY <1>2, <2>1, <2>2, ActIs
<1>5. \A i \in 1 .. n : Top(ds, lw, i) = Top(cs, lv, i)
  BY <1>1 DEF Top
<1>6. \A i \in 0 .. n : Depth(ds, i) = Depth(cs, i)
  <2> TAKE i \in 0 .. n
  <2>1. i \in Nat /\ \A j \in 1 .. i : ds[j].k = cs[j].k
    BY <1>1
  <2> QED BY <2>1, DepthSame
<1>8. /\ On(ds) \subseteq On(cs) /\ c \notin On(ds)
      /\ \A th \in On(cs) : th \in On(ds) \/ th = c
  <2>1. ASSUME NEW th \in On(ds) PROVE th \in On(cs) /\ th # c
    <3>1. PICK i \in 1 .. n : th = ds[i].th
      BY <1>1 DEF On
    <3>2. i \in 1 .. Len(cs) /\ th = cs[i].th /\ cs[i].th # c
      BY <1>3, <3>1
    <3> QED BY <3>2 DEF On
  <2>2. ASSUME NEW i \in 1 .. Len(cs) PROVE cs[i].th \in On(ds) \/ cs[i].th = c
    <3>1. CASE i \in 1 .. n
      <4>1. ds[i].th \in On(ds)
        BY <1>1, <3>1 DEF On
      <4> QED BY <1>1, <3>1, <4>1
    <3>2. CASE i = m
      BY <3>2
    <3>3. CASE i \in m + 1 .. Len(cs)
      BY <3>3
    <3> QED BY <1>1, <3>1, <3>2, <3>3
  <2> QED BY <2>1, <2>2 DEF On
<1>9. \A i \in 1 .. n : Ends(ds, i) => Ends(cs, i)
  <2> SUFFICES ASSUME NEW i \in 1 .. n, Ends(ds, i) PROVE Ends(cs, i)
    OBVIOUS
  <2>1. CASE i = n
    BY <1>1, <2>1 DEF Ends
  <2>2. CASE i # n
    <3>1. i + 1 \in 1 .. n
      BY <1>1, <2>2
    <3> QED BY <1>1, <2>2, <3>1 DEF Ends
  <2> QED BY <2>1, <2>2
<1>10. Stacked(ds)
  <2>1. ds[1].th = Main /\ ds[1].k \in {"pcall", "call"}
    <3>1. 1 \in 1 .. n /\ cs # <<>>
      BY <1>1
    <3> QED BY <1>1, <3>1 DEF Good, Stacked
  <2>2. \A i \in 1 .. Len(ds) - 1 : Follows(ds[i], ds[i + 1])
    <3> TAKE i \in 1 .. Len(ds) - 1
    <3>1. i \in 1 .. n /\ i + 1 \in 1 .. n /\ i \in 1 .. Len(cs) - 1
      BY <1>1, <1>21
    <3>2. Follows(cs[i], cs[i + 1])
      BY <3>1 DEF Good, Stacked
    <3> QED BY <1>1, <3>1, <3>2
  <2>3. \A i, j \in 1 .. Len(ds) : i < j /\ ds[i].th = ds[j].th =>
          \A k \in i + 1 .. j : ds[k].th = ds[i].th /\ ds[k].k # "resume"
    <3> SUFFICES ASSUME NEW i \in 1 .. n, NEW j \in 1 .. n, i < j, ds[i].th = ds[j].th,
                        NEW k \in i + 1 .. j
                 PROVE  ds[k].th = ds[i].th /\ ds[k].k # "resume"
      BY <1>1
    <3>1. i \in 1 .. Len(cs) /\ j \in 1 .. Len(cs) /\ k \in 1 .. n /\ cs[i].th = cs[j].th
      BY <1>1, <1>3
    <3>2. cs[k].th = cs[i].th /\ cs[k].k # "resume"
      BY <3>1 DEF Good, Stacked
    <3> QED BY <1>1, <3>1, <3>2
  <2> QED BY <2>1, <2>2, <2>3 DEF Stacked
<1>11. ASSUME NEW i \in 1 .. n PROVE Placed(u, ds, lw, i) /\ Closes(u, ds, lw, i)
  <2>1. i \in 1 .. Len(cs) /\ ds[i] = cs[i] /\ u[ds[i].th] = t[cs[i].th]
    BY <1>3
  <2>2. Placed(t, cs, lv, i) /\ Closes(t, cs, lv, i)
    BY <2>1 DEF Good, Levels
  <2>3. Placed(u, ds, lw, i)
    BY <1>1, <1>5, <2>1, <2>2 DEF Placed
  <2>4. Ends(ds, i) => Ends(cs, i)
    BY <1>9
  <2>5. i < Len(cs) /\ (i = n => ds[i].k # "resume")
    BY <1>1, <1>21
  <2> QED BY <1>1, <1>5, <2>1, <2>2, <2>3, <2>4, <2>5 DEF Closes
<1>12. ASSUME NEW i \in 1 .. n - 1 PROVE Nests(u, ds, lw, i)
  <2>1. i \in 1 .. n /\ i + 1 \in 1 .. n /\ i \in 1 .. Len(cs) - 1
    BY <1>1, <1>21
  <2>2. /\ ds[i] = cs[i] /\ ds[i + 1] = cs[i + 1] /\ lw[i + 1] = lv[i + 1]
        /\ Top(ds, lw, i) = Top(cs, lv, i) /\ u[ds[i].th] = t[cs[i].th]
    BY <1>1, <1>3, <1>5, <2>1
  <2>3. Nests(t, cs, lv, i)
    BY <2>1 DEF Good, Levels
  <2> QED BY <2>2, <2>3 DEF Nests
<1>13. Levels(u, ds, lw)
  <2>1. \A i, j \in 1 .. Len(ds) : i < j /\ ds[i].th = ds[j].th => Top(ds, lw, i) <= lw[j]
    <3> SUFFICES ASSUME NEW i \in 1 .. n, NEW j \in 1 .. n, i < j, ds[i].th = ds[j].th
                 PROVE  Top(ds, lw, i) <= lw[j]
      BY <1>1
    <3>1. i \in 1 .. Len(cs) /\ j \in 1 .. Len(cs) /\ cs[i].th = cs[j].th
      BY <1>1, <1>3
    <3>2. Top(cs, lv, i) <= lv[j]
      BY <3>1 DEF Good, Levels
    <3> QED BY <1>1, <1>5, <3>2
  <2> QED BY <1>1, <1>11, <1>12, <2>1 DEF Levels
<1>14. Saved(u, ds, lw)
  <2>1. ASSUME NEW i \in 1 .. Len(ds) PROVE Saves(ds, lw, i)
    <3>1. i \in 1 .. n /\ i \in 1 .. Len(cs) /\ i \in 0 .. n
      BY <1>1, <1>21
    <3>2. ds[i] = cs[i] /\ lw[i] = lv[i] /\ Depth(ds, i) = Depth(cs, i) /\ \A j \in 1 .. i - 1 : ds[j] = cs[j]
      BY <1>1, <1>6, <3>1
    <3>3. Saves(cs, lv, i)
      BY <3>1 DEF Good, Saved
    <3> QED BY <3>2, <3>3 DEF Saves
  <2>2. ASSUME NEW th \in On(ds), \A j \in 1 .. Len(ds) : ds[j].th = th => ds[j].k # "pcall"
        PROVE  u[th].errfunc = None
    <3>1. th \in On(cs) /\ th # c /\ th \in Thread
      BY <1>1, <1>3, <1>8 DEF On
    <3>2. ASSUME NEW j \in 1 .. Len(cs), cs[j].th = th PROVE cs[j].k # "pcall"
      <4>1. j \in 1 .. n
        <5>1. j \notin m + 1 .. Len(cs) /\ j # m
          BY <3>1, <3>2
        <5> QED BY <1>1, <5>1
      <4> QED BY <1>1, <2>2, <3>2, <4>1
    <3>3. t[th].errfunc = None
      BY <3>1, <3>2 DEF Good, Saved
    <3> QED BY <1>2, <3>1, <3>3
  <2> QED BY <2>1, <2>2 DEF Saved
<1>15. Counted(u, ds)
  <2>1. ASSUME NEW i \in 1 .. Len(ds)
        PROVE  /\ Ends(ds, i) => u[ds[i].th].ncc = Depth(ds, i)
               /\ ds[i].k = "resume" => u[ds[i].th].baseCc = Depth(ds, i) /\ Depth(ds, i - 1) < MaxCcalls
    <3>1. i \in 1 .. n /\ i \in 1 .. Len(cs) /\ i \in 0 .. n /\ i - 1 \in 0 .. n
      BY <1>1, <1>21
    <3>2. u[ds[i].th] = t[cs[i].th] /\ ds[i] = cs[i] /\ (Ends(ds, i) => Ends(cs, i))
      BY <1>3, <1>9, <3>1
    <3>3. Depth(ds, i) = Depth(cs, i) /\ Depth(ds, i - 1) = Depth(cs, i - 1)
      BY <1>6, <3>1
    <3>4. /\ Ends(cs, i) => t[cs[i].th].ncc = Depth(cs, i)
          /\ cs[i].k = "resume" => t[cs[i].th].baseCc = Depth(cs, i) /\ Depth(cs, i - 1) < MaxCcalls
      BY <3>1 DEF Good, Counted
    <3> QED BY <3>2, <3>3, <3>4
  <2>2. u[Main].baseCc = 0
    <3>1. Main \in Thread \ {c}
      BY <1>0, CallsAssumption DEF Thread
    <3> QED BY <1>2, <3>1 DEF Good, Counted
  <2> QED BY <2>1, <2>2 DEF Counted
<1>16. Awake(u, ds)
  <2> SUFFICES ASSUME NEW i \in 1 .. n
               PROVE  /\ u[ds[i].th].made /\ ~u[ds[i].th].fresh
                      /\ u[ds[i].th].status = "ok"
    BY <1>1 DEF Awake
  <2>1. i \in 1 .. Len(cs) /\ i # Len(cs)
    BY <1>1, <1>21
  <2>2. t[cs[i].th].made /\ ~t[cs[i].th].fresh /\ t[cs[i].th].status = "ok"
    BY <2>1 DEF Good, Awake
  <2> QED BY <1>3, <2>2
<1>17. Rests(u, ds)
  <2>1. Coroutines \subseteq Thread
    BY DEF Thread
  <2> QED BY <1>2, <1>8, <2>1 DEF Good, Rests
<1>18. \A th \in Thread : Sized(u[th])
  BY <1>2 DEF Good
<1> QED BY <1>1, <1>10, <1>13, <1>14, <1>15, <1>16, <1>17, <1>18 DEF Good, u, ds, lw, n

(* A coroutine that has just been resumed yields.                             *)
LEMMA YieldKeeps ==
  ASSUME NEW t \in [Thread -> Rec], NEW cs \in Seq(Act), NEW lv, Good(t, cs, lv),
         NEW n \in Nat \ {0}, n = Len(cs), NEW l, cs[n].k = "resume", cs[n].th = l,
         NEW r \in Rec, Sized(r), Suspended(r), r.status = "yield", r.ncc = t[l].ncc, r.baseCc = t[l].baseCc
  PROVE  Good([t EXCEPT ![l] = r], cs, lv)
<1> DEFINE u == [t EXCEPT ![l] = r]
<1>1. l \in Coroutines /\ n \in 1 .. Len(cs) /\ \A i \in 1 .. n - 1 : cs[i].th # l
  <2>1. n \in 1 .. Len(cs)
    OBVIOUS
  <2>2. cs[n].th \in Coroutines /\ \A i \in 1 .. n - 1 : cs[i].th # cs[n].th
    BY <2>1, Resumer
  <2> QED BY <2>1, <2>2
<1>2. l \in Thread /\ u[l] = r /\ \A th \in Thread \ {l} : u[th] = t[th]
  <2>1. l \in Thread
    BY <1>1 DEF Thread
  <2> QED BY <2>1
<1> HIDE DEF u
<1>3. \A i \in 1 .. n : i # n => cs[i].th \in Thread \ {l} /\ u[cs[i].th] = t[cs[i].th]
  <2> SUFFICES ASSUME NEW i \in 1 .. n, i # n PROVE cs[i].th \in Thread \ {l} /\ u[cs[i].th] = t[cs[i].th]
    OBVIOUS
  <2>1. cs[i] \in Act /\ i \in 1 .. n - 1
    OBVIOUS
  <2>2. cs[i].th \in Thread
    BY <2>1, ActIs
  <2> QED BY <1>1, <1>2, <2>1, <2>2
<1>4. cs[n].th = l /\ l \in On(cs) /\ Own(cs[n]) = 0
  <2>1. cs[n] \in Act
    OBVIOUS
  <2> QED BY <1>1, <2>1, ActIs DEF On
<1>5. ASSUME NEW i \in 1 .. n PROVE Placed(u, cs, lv, i) /\ Closes(u, cs, lv, i)
  <2>1. Placed(t, cs, lv, i) /\ Closes(t, cs, lv, i)
    BY DEF Good, Levels
  <2>2. CASE i = n
    <3>1. lv[n] = 1 /\ Top(cs, lv, n) = 1
      BY <1>4, <2>1, <2>2 DEF Placed, Top
    <3> QED BY <1>2, <1>4, <2>2, <3>1 DEF Placed, Closes, Suspended
  <2>3. CASE i # n
    BY <1>3, <2>1, <2>3 DEF Placed, Closes
  <2> QED BY <2>2, <2>3
<1>6. ASSUME NEW i \in 1 .. n - 1 PROVE Nests(u, cs, lv, i)
  <2>1. i \in 1 .. n /\ i # n
    OBVIOUS
  <2>2. Nests(t, cs, lv, i)
    BY DEF Good, Levels
  <2> QED BY <1>3, <2>1, <2>2 DEF Nests
<1>7. Levels(u, cs, lv)
  <2>1. \A i, j \in 1 .. Len(cs) : i < j /\ cs[i].th = cs[j].th => Top(cs, lv, i) <= lv[j]
    BY DEF Good, Levels
  <2> QED BY <1>5, <1>6, <2>1 DEF Levels
<1>8. Saved(u, cs, lv)
  <2>1. ASSUME NEW th \in On(cs), \A j \in 1 .. Len(cs) : cs[j].th = th => cs[j].k # "pcall"
        PROVE  u[th].errfunc = None
    <3>1. CASE th = l
      BY <1>2, <3>1 DEF Suspended
    <3>2. CASE th # l
      <4>1. th \in Thread
        BY <1>2, <1>3 DEF On
      <4>2. t[th].errfunc = None
        BY <2>1 DEF Good, Saved
      <4> QED BY <1>2, <3>2, <4>1, <4>2
    <3> QED BY <3>1, <3>2
  <2> QED BY <2>1 DEF Saved, Good
<1>9. Counted(u, cs)
  <2>1. ASSUME NEW i \in 1 .. Len(cs)
        PROVE  /\ Ends(cs, i) => u[cs[i].th].ncc = Depth(cs, i)
               /\ cs[i].k = "resume" => u[cs[i].th].baseCc = Depth(cs, i) /\ Depth(cs, i - 1) < MaxCcalls
    <3>1. u[cs[i].th].ncc = t[cs[i].th].ncc /\ u[cs[i].th].baseCc = t[cs[i].th].baseCc
      BY <1>2, <1>3, <1>4
    <3>2. /\ Ends(cs, i) => t[cs[i].th].ncc = Depth(cs, i)
          /\ cs[i].k = "resume" => t[cs[i].th].baseCc = Depth(cs, i) /\ Depth(cs, i - 1) < MaxCcalls
      BY DEF Good, Counted
    <3> QED BY <3>1, <3>2
  <2>2. u[Main].baseCc = 0
    <3>1. Main \in Thread \ {l}
      BY <1>1, CallsAssumption DEF Thread
    <3> QED BY <1>2, <3>1 DEF Good, Counted
  <2> QED BY <2>1, <2>2 DEF Counted
<1>10. Awake(u, cs)
  <2> SUFFICES ASSUME NEW i \in 1 .. n
               PROVE  LET q == u[cs[i].th]
                      IN  /\ q.made /\ ~q.fresh
                          /\ \/ q.status = "ok"
                             \/ q.status = "yield" /\ i = Len(cs) /\ cs[i].k = "resume" /\ Suspended(q)
    BY DEF Awake
  <2>1. CASE i = n
    BY <1>2, <1>4, <2>1 DEF Suspended
  <2>2. CASE i # n
    <3>1. t[cs[i].th].made /\ ~t[cs[i].th].fresh /\ t[cs[i].th].status = "ok"
      BY <2>2 DEF Good, Awake
    <3> QED BY <1>3, <2>2, <3>1
  <2> QED BY <2>1, <2>2
<1>11. Rests(u, cs)
  <2>1. Coroutines \subseteq Thread
    BY DEF Thread
  <2> QED BY <1>2, <1>4, <2>1 DEF Good, Rests
<1>12. \A th \in Thread : Sized(u[th])
  BY <1>2 DEF Good
<1> QED BY <1>7, <1>8, <1>9, <1>10, <1>11, <1>12 DEF Good, u

(* A coroutine that is not on the C stack changes.                            *)
LEMMA IdleKeeps ==
  ASSUME NEW t \in [Thread -> Rec], NEW cs \in Seq(Act), NEW lv, Good(t, cs, lv),
         NEW c \in Coroutines, c \notin On(cs), NEW r \in Rec, Sized(r), Resting(r)
  PROVE  Good([t EXCEPT ![c] = r], cs, lv)
<1> DEFINE u == [t EXCEPT ![c] = r]
<1>1. c \in Thread /\ u[c] = r /\ \A th \in Thread \ {c} : u[th] = t[th]
  <2>1. c \in Thread
    BY DEF Thread
  <2> QED BY <2>1
<1> HIDE DEF u
<1>2. \A i \in 1 .. Len(cs) : u[cs[i].th] = t[cs[i].th]
  <2> TAKE i \in 1 .. Len(cs)
  <2>1. cs[i] \in Act /\ cs[i].th \in On(cs)
    BY DEF On
  <2>2. cs[i].th \in Thread /\ cs[i].th # c
    BY <2>1, ActIs
  <2> QED BY <1>1, <2>2
<1>3. \A i \in 1 .. Len(cs) : Placed(u, cs, lv, i) /\ Closes(u, cs, lv, i)
  <2> TAKE i \in 1 .. Len(cs)
  <2>1. Placed(t, cs, lv, i) /\ Closes(t, cs, lv, i)
    BY DEF Good, Levels
  <2> QED BY <1>2, <2>1 DEF Placed, Closes
<1>4. \A i \in 1 .. Len(cs) - 1 : Nests(u, cs, lv, i)
  <2> TAKE i \in 1 .. Len(cs) - 1
  <2>1. Nests(t, cs, lv, i) /\ i \in 1 .. Len(cs)
    BY DEF Good, Levels
  <2> QED BY <1>2, <2>1 DEF Nests
<1>5. Levels(u, cs, lv)
  BY <1>3, <1>4 DEF Levels, Good
<1>6. Saved(u, cs, lv)
  <2>1. \A th \in On(cs) : u[th] = t[th]
    BY <1>2 DEF On
  <2> QED BY <2>1 DEF Saved, Good
<1>7. Counted(u, cs)
  <2>1. Main \in Thread \ {c}
    BY CallsAssumption DEF Thread
  <2>2. u[Main].baseCc = 0
    BY <1>1, <2>1 DEF Good, Counted
  <2> QED BY <1>2, <2>2 DEF Counted, Good
<1>8. Awake(u, cs)
  BY <1>2 DEF Awake, Good
<1>9. Rests(u, cs)
  <2>1. Coroutines \subseteq Thread
    BY DEF Thread
  <2> QED BY <1>1, <2>1 DEF Good, Rests
<1>10. \A th \in Thread : Sized(u[th])
  BY <1>1 DEF Good
<1> QED BY <1>5, <1>6, <1>7, <1>8, <1>9, <1>10 DEF Good, u

(* The host's call is over.                                                   *)
LEMMA EndKeeps ==
  ASSUME NEW t \in [Thread -> Rec], NEW cs \in Seq(Act), NEW lv, Good(t, cs, lv),
         cs # <<>>, cs[Len(cs)].th = Main,
         NEW r \in Rec, Sized(r), r.baseCc = 0
  PROVE  Good([t EXCEPT ![Main] = r], <<>>, <<>>)
<1> DEFINE u == [t EXCEPT ![Main] = r]
<1>1. Main \in Thread /\ u[Main] = r /\ \A th \in Thread \ {Main} : u[th] = t[th]
  <2>1. Main \in Thread
    BY DEF Thread
  <2> QED BY <2>1
<1> HIDE DEF u
<1>2. \A i \in 1 .. Len(cs) : cs[i].th = Main
  <2> TAKE i \in 1 .. Len(cs)
  <2>1. 1 \in 1 .. Len(cs) /\ Len(cs) \in 1 .. Len(cs) /\ cs[1].th = Main
    BY DEF Good, Stacked
  <2>2. CASE i = 1
    BY <2>1, <2>2
  <2>3. CASE i # 1
    <3>1. 1 < Len(cs) /\ i \in 1 + 1 .. Len(cs) /\ cs[1].th = cs[Len(cs)].th
      BY <2>1, <2>3
    <3> QED BY <2>1, <3>1 DEF Good, Stacked
  <2> QED BY <2>2, <2>3
<1>3. \A c \in Coroutines : c \notin On(cs) /\ u[c] = t[c]
  BY <1>1, <1>2, CallsAssumption DEF On, Thread
<1>4. Rests(u, <<>>)
  BY <1>3 DEF Rests, Good
<1>5. Stacked(<<>>) /\ Levels(u, <<>>, <<>>) /\ Awake(u, <<>>) /\ Counted(u, <<>>)
  BY <1>1 DEF Stacked, Levels, Awake, Counted
<1>6. Saved(u, <<>>, <<>>)
  BY DEF Saved, On
<1>7. \A th \in Thread : Sized(u[th])
  BY <1>1 DEF Good
<1> QED BY <1>4, <1>5, <1>6, <1>7 DEF Good, u

(* Sequences with the same elements are the same.                             *)
LEMMA SeqSame ==
  ASSUME NEW S, NEW a \in Seq(S), NEW b \in Seq(S), Len(a) = Len(b), \A i \in 1 .. Len(a) : a[i] = b[i]
  PROVE  a = b
OBVIOUS

(* The innermost luaV_execute enters Lua functions or returns from them.      *)
LEMMA RunKeeps ==
  ASSUME NEW t \in [Thread -> Rec], NEW cs \in Seq(Act), NEW lv, Good(t, cs, lv),
         NEW n \in Nat \ {0}, n = Len(cs), NEW l \in Thread, cs[n].th = l, cs[n].k = "exec", t[l].status = "ok",
         NEW k \in Nat \ {0}, NEW r \in Rec, Alike(r, t[l]), Sized(r),
         r.errfunc = t[l].errfunc, r.ncc = t[l].ncc,
         Laid(r.ci, t[l].ci, lv[n], lv[n], lv[n] + k)
  PROVE  Good([t EXCEPT ![l] = r], [cs EXCEPT ![n].n = k], lv)
<1> DEFINE p == n - 1
           q == [t[l] EXCEPT !.ci = SubSeq(@, 1, lv[n])]
           a == [cs[n] EXCEPT !.n = k]
           u == [t EXCEPT ![l] = q]
           ds == SubSeq(cs, 1, p)
           lw == SubSeq(lv, 1, p)
<1>1. /\ n \in 1 .. Len(cs) /\ p \in 1 .. Len(cs) /\ p \in Nat \ {0} /\ p + 1 = n /\ p \in 1 .. Len(cs) - 1
      /\ cs[p].th = l /\ <<cs[p].k, "exec">> \in Nested
  <2>1. n # 1
    BY DEF Good, Stacked
  <2>2. p \in 1 .. Len(cs) - 1 /\ p + 1 = n
    BY <2>1
  <2>3. Follows(cs[p], cs[n])
    BY <2>2 DEF Good, Stacked
  <2> HIDE DEF p
  <2> QED BY <2>2, <2>3 DEF Follows
<1>2. /\ lv[n] \in Nat /\ 1 <= lv[n] /\ Top(cs, lv, p) \in Nat /\ Top(cs, lv, p) <= lv[n]
      /\ Top(cs, lv, n) <= Len(t[l].ci) /\ lv[n] <= Len(t[l].ci)
  <2> HIDE DEF p
  <2>1. /\ Placed(t, cs, lv, n) /\ lv[n] \in Nat /\ lv[n] <= Top(cs, lv, n) /\ Top(cs, lv, n) \in Nat
        /\ Top(cs, lv, p) \in Nat
    BY <1>1, Below DEF Good, Levels
  <2>2. Top(cs, lv, p) <= lv[n]
    <3>1. p < n
      BY <1>1
    <3> QED BY <1>1, <3>1 DEF Good, Levels
  <2>3. Len(t[l].ci) \in Nat
    BY RecIs
  <2> QED BY <2>1, <2>2, <2>3 DEF Placed
<1>3. /\ q \in Rec /\ Len(q.ci) = lv[n] /\ \A j \in 1 .. lv[n] : q.ci[j] = t[l].ci[j]
      /\ Alike(q, t[l]) /\ q.status = "ok" /\ q.ncc = t[l].ncc /\ q.errfunc = t[l].errfunc /\ q.size = t[l].size
  <2>1. t[l] \in Rec /\ t[l].ci \in Seq(Frame)
    BY RecIs
  <2>2. /\ SubSeq(t[l].ci, 1, lv[n]) \in Seq(Frame) /\ Len(SubSeq(t[l].ci, 1, lv[n])) = lv[n]
        /\ \A j \in 1 .. lv[n] : SubSeq(t[l].ci, 1, lv[n])[j] = t[l].ci[j]
    BY <1>2, <2>1
  <2>3. q \in Rec
    BY <2>1, <2>2 DEF Rec
  <2> QED BY <2>1, <2>2, <2>3 DEF Rec, Alike
<1>4. a \in Act /\ a.k = "exec" /\ a.th = l /\ a.n = k /\ Own(a) = k
  <2>1. cs[n] \in Act
    BY <1>1
  <2> QED BY <2>1 DEF Act, Own
<1>5. [cs EXCEPT ![n].n = k] = Append(ds, a) /\ lv = Append(lw, lv[n])
  <2>1. lv \in Seq(Nat) /\ Len(lv) = n
    BY DEF Good
  <2>2. lv = Append(lw, lv[n])
    BY <1>1, <2>1
  <2>3. [cs EXCEPT ![n].n = k] = [cs EXCEPT ![n] = a]
    OBVIOUS
  <2>4. [cs EXCEPT ![n] = a] \in Seq(Act) /\ Len([cs EXCEPT ![n] = a]) = n
    BY <1>1, <1>4
  <2>5. \A i \in 1 .. n : [cs EXCEPT ![n] = a][i] = Append(ds, a)[i]
    BY <1>1, <1>4
  <2>6. Append(ds, a) \in Seq(Act) /\ Len(Append(ds, a)) = n
    BY <1>1, <1>4
  <2>7. [cs EXCEPT ![n] = a] = Append(ds, a)
    <3> DEFINE es == [cs EXCEPT ![n] = a]
               fs == Append(ds, a)
    <3>1. es \in Seq(Act) /\ fs \in Seq(Act) /\ Len(es) = Len(fs) /\ \A i \in 1 .. Len(es) : es[i] = fs[i]
      BY <2>4, <2>5, <2>6
    <3>2. es = fs
      <4> HIDE DEF es, fs
      <4> QED BY <3>1, SeqSame
    <3> QED BY <3>2
  <2> QED BY <2>2, <2>3, <2>7
<1>6. [u EXCEPT ![l] = r] = [t EXCEPT ![l] = r] /\ u[l] = q /\ u \in [Thread -> Rec]
  BY <1>3
<1>7. /\ ds \in Seq(Act) /\ Len(ds) = p /\ \A i \in 1 .. p : ds[i] = cs[i] /\ lw[i] = lv[i]
  <2>1. lv \in Seq(Nat) /\ Len(lv) = n
    BY DEF Good
  <2> QED BY <1>1, <2>1
<1>8. t[l].ncc = Depth(cs, p) /\ Depth(ds, p) = Depth(cs, p) /\ Depth(cs, p) \in Nat
  <2>1. Depth(cs, n) = Depth(cs, p) /\ Depth(cs, p) \in Nat
    <3> HIDE DEF p, q, a, u, ds, lw
    <3>1. Depth(cs, p + 1) = Depth(cs, p) + (IF cs[p + 1].k \in {"call", "resume"} THEN 1 ELSE 0)
          /\ Depth(cs, p) \in Nat
      BY <1>1, DepthStep
    <3> QED BY <1>1, <3>1
  <2>2. Ends(cs, n)
    BY DEF Ends
  <2>3. Depth(ds, p) = Depth(cs, p)
    <3> HIDE DEF p, ds, lw
    <3>1. p \in Nat /\ \A i \in 1 .. p : ds[i].k = cs[i].k
      BY <1>1, <1>7
    <3> QED BY <3>1, DepthSame
  <2> QED BY <1>1, <2>1, <2>2, <2>3 DEF Good, Counted
<1>9. Nests(t, cs, lv, p)
  BY <1>1 DEF Good, Levels
<1>10. Unprotected(cs, l, p) => t[l].errfunc = None
  <2> SUFFICES ASSUME Unprotected(cs, l, p) PROVE t[l].errfunc = None
    OBVIOUS
  <2>1. \A j \in 1 .. Len(cs) : cs[j].th = l => cs[j].k # "pcall"
    BY <1>1 DEF Unprotected
  <2>2. l \in On(cs)
    BY <1>1 DEF On
  <2> QED BY <2>1, <2>2 DEF Good, Saved
<1>11. Good(u, ds, lw)
  <2> HIDE DEF p, q
  <2>1. Sized(q)
    BY <1>2, <1>3, RecIs DEF Good, Sized
  <2>2. Top(cs, lv, p) <= Len(q.ci)
    BY <1>2, <1>3
  <2>3. \A j \in 1 .. Top(cs, lv, p) : q.ci[j] = t[l].ci[j]
    BY <1>2, <1>3
  <2>4. \A j \in Top(cs, lv, p) + 1 .. Len(q.ci) : q.ci[j] # "lua"
    <3> TAKE j \in Top(cs, lv, p) + 1 .. Len(q.ci)
    <3>1. j \in 1 .. lv[n]
      BY <1>2, <1>3
    <3>2. t[l].ci[j] # "lua"
      BY <1>1, <1>3, <1>9 DEF Nests
    <3> QED BY <1>3, <3>1, <3>2
  <2>5. cs[p].k = "resume" => Len(q.ci) = 1
    BY <1>1, <1>3, <1>9 DEF Nests
  <2>6. \A i \in p + 1 .. Len(cs) : cs[i].th = l /\ cs[i].k # "resume"
    BY <1>1
  <2>7. q.ncc = Depth(cs, p) /\ (Unprotected(cs, l, p) => q.errfunc = None)
    BY <1>3, <1>8, <1>10
  <2> QED BY <1>1, <1>3, <2>1, <2>2, <2>3, <2>4, <2>5, <2>6, <2>7, CutKeeps
<1>12. Good([u EXCEPT ![l] = r], Append(ds, a), Append(lw, lv[n]))
  <2> HIDE DEF p, q, a, u, ds, lw
  <2>0. p \in 1 .. p /\ p = Len(ds) /\ p \in Nat \ {0}
    BY <1>1, <1>7
  <2>1. ds[p] = cs[p] /\ ds[p].th = l /\ Top(ds, lw, p) = Top(cs, lv, p)
    BY <1>1, <1>7, <2>0 DEF Top
  <2>2. Laid(r.ci, u[l].ci, Top(ds, lw, p), lv[n], lv[n] + Own(a))
    <3>1. \A j \in 1 .. Top(cs, lv, p) : r.ci[j] = q.ci[j]
      <4> TAKE j \in 1 .. Top(cs, lv, p)
      <4>1. j \in 1 .. lv[n]
        BY <1>2
      <4> QED BY <1>3, <4>1 DEF Laid
    <3>2. \A j \in Top(cs, lv, p) + 1 .. lv[n] : r.ci[j] # "lua"
      <4> TAKE j \in Top(cs, lv, p) + 1 .. lv[n]
      <4>1. j \in 1 .. lv[n]
        BY <1>2
      <4>2. t[l].ci[j] # "lua"
        BY <1>1, <1>9 DEF Nests
      <4> QED BY <4>1, <4>2 DEF Laid
    <3> QED BY <1>2, <1>4, <1>6, <2>1, <3>1, <3>2 DEF Laid
  <2>3. ds[p].k = "resume" => lv[n] = 1
    BY <1>1, <1>9, <2>1 DEF Nests
  <2>4. r.ncc = Depth(ds, p) + (IF a.k = "call" THEN 1 ELSE 0)
    BY <1>4, <1>8
  <2>5. a.k # "pcall" /\ Unprotected(ds, l, p) => r.errfunc = None
    BY <1>7, <1>10 DEF Unprotected
  <2>6. Keeps(a, Depth(ds, p), lv[n], Unprotected(ds, l, p)) /\ (a.k = "pcall" => Top(ds, lw, p) < lv[n])
    BY <1>4 DEF Keeps
  <2>7. Alike(r, u[l]) /\ u[l].status = "ok" /\ <<ds[p].k, a.k>> \in Nested
    BY <1>1, <1>3, <1>4, <1>6, <2>1 DEF Alike
  <2> QED BY <1>2, <1>4, <1>6, <1>7, <1>11, <2>0, <2>1, <2>2, <2>3, <2>4, <2>5, <2>6, <2>7, PushKeeps
<1> QED BY <1>5, <1>6, <1>12

-----------------------------------------------------------------------------
(* States in the middle of a step.                                            *)

(* Thread th of x becomes r, the C stack cs, and w is raised.                 *)
Goes(x, th, r, cs, w) == [x EXCEPT !.t[th] = r, !.cs = cs, !.raised = w]

(* That is all that changes.                                                  *)
Went(x, th, r, cs, w, y) ==
  /\ y \in World /\ y.t = [x.t EXCEPT ![th] = r] /\ y.cs = cs /\ y.raised = w
  /\ y.may = x.may /\ y.out = x.out
  /\ y.t[th] = r /\ \A i \in Thread \ {th} : y.t[i] = x.t[i]
(* Only the thread, the C stack and the error are other than before. *)
LEMMA GoesIs ==
  ASSUME NEW x \in World, NEW th \in Thread, NEW r \in Rec, NEW cs \in Seq(Act),
         NEW w \in {"no", "error", "errerr"}, NEW y, y = Goes(x, th, r, cs, w)
  PROVE  Went(x, th, r, cs, w, y)
BY DEF Goes, World, Went

(* Nothing changes.                                                           *)
LEMMA GoesNowhere ==
  ASSUME NEW x \in World, NEW th \in Thread, NEW w
  PROVE  Goes(x, th, x.t[th], x.cs, w) = [x EXCEPT !.raised = w]
BY DEF Goes, World

(* A state with the levels lv of its activations.                             *)
Holds(x, lv) ==
  x \in World /\ Good(x.t, x.cs, lv) /\ x.out = "running" /\ x.cs # <<>> /\ Limits(x)

(* One in which the innermost thread goes on.                                 *)
Runs(x, lv) == Holds(x, lv) /\ x.raised = "no" /\ T(x).status = "ok"

(* The frame on top belongs to no activation yet.                             *)
Above(x, lv) == Top(x.cs, lv, Len(x.cs)) < Len(T(x).ci)

(* What is known of the innermost activation.                                 *)
Stands(x, lv, n) ==
  /\ n \in Nat \ {0} /\ n \in 1 .. n /\ x.cs[n] \in Act /\ x.cs[n] = Last(x.cs) /\ x.cs[n].th = L(x)
  /\ L(x) \in Thread /\ T(x) \in Rec /\ T(x) = x.t[L(x)] /\ Sized(T(x))
  /\ lv[n] \in Nat /\ 1 <= lv[n] /\ Top(x.cs, lv, n) \in Nat /\ lv[n] <= Top(x.cs, lv, n)
  /\ Top(x.cs, lv, n) = lv[n] + Own(x.cs[n])
  /\ Top(x.cs, lv, n) <= Len(T(x).ci)
  /\ \A j \in lv[n] + 1 .. Top(x.cs, lv, n) : T(x).ci[j] = "lua"
  /\ \A j \in Top(x.cs, lv, n) + 1 .. Len(T(x).ci) : T(x).ci[j] # "lua"
  /\ x.cs[n].k = "resume" => Len(T(x).ci) = 1
  /\ T(x).ncc = Depth(x.cs, n)
  /\ Unprotected(x.cs, L(x), n) => T(x).errfunc = None
  /\ T(x).ci \in Seq(Frame) /\ Len(T(x).ci) \in Nat /\ T(x).size \in Nat /\ T(x).ncc \in Nat
(* The innermost activation stands so, while its thread runs. *)
LEMMA Standing ==
  ASSUME NEW x, NEW lv, Holds(x, lv), T(x).status = "ok", NEW n, n = Len(x.cs)
  PROVE  Stands(x, lv, n)
<1>1. /\ x \in World /\ x.cs # <<>> /\ Good(x.t, x.cs, lv) /\ x.cs \in Seq(Act)
  BY DEF Holds, World
<1>2. /\ n \in Nat \ {0} /\ n \in 1 .. n /\ x.cs[n] \in Act /\ x.cs[n] = Last(x.cs) /\ x.cs[n].th = L(x)
      /\ L(x) \in Thread /\ T(x) \in Rec /\ T(x) = x.t[L(x)]
  BY <1>1, LastIs
<1>3. /\ lv[n] \in Nat /\ Top(x.cs, lv, n) \in Nat /\ lv[n] <= Top(x.cs, lv, n)
  BY <1>1, <1>2, Below
<1>4. Placed(x.t, x.cs, lv, n) /\ Closes(x.t, x.cs, lv, n)
  BY <1>1, <1>2 DEF Good, Levels
<1>5. Ends(x.cs, n)
  BY DEF Ends
<1>6. T(x).ncc = Depth(x.cs, n)
  BY <1>1, <1>2, <1>5 DEF Good, Counted
<1>7. Unprotected(x.cs, L(x), n) => T(x).errfunc = None
  <2>1. L(x) \in On(x.cs)
    BY <1>2 DEF On
  <2> QED BY <1>1, <1>2, <2>1 DEF Good, Saved, Unprotected
<1>8. Sized(T(x))
  BY <1>1, <1>2 DEF Good
<1>9. /\ 1 <= lv[n] /\ Top(x.cs, lv, n) <= Len(T(x).ci) /\ Top(x.cs, lv, n) = lv[n] + Own(x.cs[n])
      /\ \A j \in lv[n] + 1 .. Top(x.cs, lv, n) : T(x).ci[j] = "lua"
  BY <1>2, <1>4 DEF Placed, Top
<1>10. /\ \A j \in Top(x.cs, lv, n) + 1 .. Len(T(x).ci) : T(x).ci[j] # "lua"
       /\ x.cs[n].k = "resume" => Len(T(x).ci) = 1
  BY <1>2, <1>4, <1>5 DEF Closes
<1>11. T(x).ci \in Seq(Frame) /\ Len(T(x).ci) \in Nat /\ T(x).size \in Nat /\ T(x).ncc \in Nat
  BY <1>2, RecIs
<1> QED BY <1>2, <1>3, <1>6, <1>7, <1>8, <1>9, <1>10, <1>11 DEF Stands

(* How deep the calls may be, when w is raised.                               *)
Within(ncc, w) == IF w = "errerr" THEN ncc <= MaxCcalls + Spare ELSE ncc < MaxCcalls + Spare

(* The innermost thread changes above what its activations own.               *)
Stays(x, lv, r, w, y) ==
  /\ Holds(y, lv) /\ y.cs = x.cs /\ y.raised = w /\ y.may = x.may /\ y.out = x.out
  /\ L(y) = L(x) /\ T(y) = r /\ (w = "no" => Runs(y, lv))
  /\ \A th \in Thread \ {L(x)} : y.t[th] = x.t[th]
(* The states still fit each other. *)
LEMMA StayHolds ==
  ASSUME NEW x, NEW lv, Holds(x, lv), T(x).status = "ok", NEW n, n = Len(x.cs),
         NEW r \in Rec, Alike(r, T(x)), Sized(r), r.ncc = T(x).ncc, r.errfunc = T(x).errfunc,
         Top(x.cs, lv, n) <= Len(r.ci),
         \A j \in 1 .. Top(x.cs, lv, n) : r.ci[j] = T(x).ci[j],
         \A j \in Top(x.cs, lv, n) + 1 .. Len(r.ci) : r.ci[j] # "lua",
         NEW w \in {"no", "error", "errerr"}, x.cs[n].k \in {"exec", "call"}, Within(r.ncc, w),
         NEW y, y = Goes(x, L(x), r, x.cs, w)
  PROVE  Stays(x, lv, r, w, y)
<1>1. /\ n \in Nat \ {0} /\ n \in 1 .. Len(x.cs) /\ x.cs[n] = Last(x.cs) /\ x.cs[n].th = L(x)
      /\ L(x) \in Thread /\ T(x) \in Rec /\ T(x) = x.t[L(x)]
      /\ T(x).ncc = Depth(x.cs, n)
      /\ Unprotected(x.cs, L(x), n) => T(x).errfunc = None
  <2>1. Stands(x, lv, n)
    BY Standing
  <2> QED BY <2>1 DEF Stands
<1>2. /\ x \in World /\ x.t \in [Thread -> Rec] /\ x.cs \in Seq(Act) /\ Good(x.t, x.cs, lv) /\ x.out = "running"
      /\ x.cs # <<>>
  BY DEF Holds, World
<1>3. /\ y \in World /\ y.t = [x.t EXCEPT ![L(x)] = r] /\ y.cs = x.cs /\ y.raised = w
      /\ y.may = x.may /\ y.out = x.out
      /\ y.t[L(x)] = r /\ \A i \in Thread \ {L(x)} : y.t[i] = x.t[i]
  <2>1. Went(x, L(x), r, x.cs, w, y)
    BY <1>1, <1>2, GoesIs
  <2> QED BY <2>1 DEF Went
<1>4. SubSeq(x.cs, 1, n) = x.cs /\ SubSeq(lv, 1, n) = lv
  <2>1. lv \in Seq(Nat) /\ Len(lv) = n
    BY <1>2 DEF Good
  <2> QED BY <1>1, <1>2, <2>1
<1>5. Good([x.t EXCEPT ![L(x)] = r], SubSeq(x.cs, 1, n), SubSeq(lv, 1, n))
  <2>1. \A i \in n + 1 .. Len(x.cs) : x.cs[i].th = L(x) /\ x.cs[i].k # "resume"
    BY <1>1
  <2>2. r.ncc = Depth(x.cs, n) /\ (Unprotected(x.cs, L(x), n) => r.errfunc = None) /\ Alike(r, x.t[L(x)])
        /\ x.t[L(x)].status = "ok" /\ (x.cs[n].k = "resume" => Len(r.ci) = 1)
        /\ \A j \in 1 .. Top(x.cs, lv, n) : r.ci[j] = x.t[L(x)].ci[j]
    BY <1>1
  <2> QED BY <1>1, <1>2, <2>1, <2>2, CutKeeps
<1>6. L(y) = L(x) /\ T(y) = r
  BY <1>3 DEF L, T
<1>7. Limits(y)
  BY <1>1, <1>3, <1>6 DEF Limits, Within
<1> QED BY <1>2, <1>3, <1>4, <1>5, <1>6, <1>7 DEF Holds, Runs, Alike, Stays

(* Growing the array of CallInfos changes nothing else, but it may fail.      *)
Grows(x, lv, y) ==
  /\ Holds(y, lv) /\ y.cs = x.cs /\ y.may = x.may /\ y.out = x.out /\ L(y) = L(x)
  /\ \A th \in Thread \ {L(x)} : y.t[th] = x.t[th]
  /\ \E z \in Nat : T(y) = [T(x) EXCEPT !.size = z]
  /\ y.raised = "no" => Runs(y, lv) /\ Len(T(y).ci) < T(y).size
(* GrowCI does no more, and the states fit each other after it. *)
LEMMA GrowHolds ==
  ASSUME NEW x, NEW lv, Runs(x, lv), Last(x.cs).k \in {"exec", "call"}, NEW y, y = GrowCI(x)
  PROVE  Grows(x, lv, y)
<1> DEFINE n == Len(x.cs)
<1>1. /\ x \in World /\ x.cs # <<>> /\ x.raised = "no" /\ T(x).status = "ok" /\ Holds(x, lv)
      /\ T(x).ncc < MaxCcalls + Spare
  BY DEF Runs, Holds, Limits
<1>2. /\ L(x) \in Thread /\ T(x) \in Rec /\ T(x) = x.t[L(x)] /\ Sized(T(x)) /\ x.cs[n] = Last(x.cs)
      /\ Top(x.cs, lv, n) <= Len(T(x).ci)
      /\ \A j \in Top(x.cs, lv, n) + 1 .. Len(T(x).ci) : T(x).ci[j] # "lua"
  <2>1. Stands(x, lv, n)
    BY <1>1, Standing
  <2> QED BY <2>1 DEF Stands
<1>3. T(x).size \in Nat /\ Len(T(x).ci) \in Nat /\ T(x).ci \in Seq(Frame) /\ T(x).ncc \in Nat
      /\ MaxCalls \in Nat /\ MaxCcalls \in Nat /\ Spare \in Nat
  BY <1>2, RecIs, CallsAssumption
<1>4. ASSUME NEW z \in Nat, NEW w \in {"no", "error", "errerr"}, y = Goes(x, L(x), [T(x) EXCEPT !.size = z], x.cs, w),
             Len(T(x).ci) <= z, 2 <= z, z <= 2 * MaxCalls, w = "no" => Len(T(x).ci) < z
      PROVE  Grows(x, lv, y)
  <2> DEFINE r == [T(x) EXCEPT !.size = z]
  <2>1. r \in Rec /\ Alike(r, T(x)) /\ Sized(r) /\ r.ncc = T(x).ncc /\ r.errfunc = T(x).errfunc /\ r.ci = T(x).ci
        /\ r.size = z
    <3>1. r \in Rec
      BY <1>2 DEF Rec
    <3>2. /\ Alike(r, T(x)) /\ r.ncc = T(x).ncc /\ r.errfunc = T(x).errfunc /\ r.ci = T(x).ci /\ r.size = z
      BY <1>2 DEF Rec, Alike
    <3> HIDE DEF r
    <3> QED BY <1>4, <3>1, <3>2 DEF Sized
  <2>2. Within(r.ncc, w)
    BY <1>1, <1>3, <2>1 DEF Within
  <2>3. Stays(x, lv, r, w, y)
    <3> HIDE DEF r, n
    <3>1. y = Goes(x, L(x), r, x.cs, w)
      BY <1>4 DEF r
    <3> QED BY <1>1, <1>2, <2>1, <2>2, <3>1, StayHolds DEF n
  <2> HIDE DEF n
  <2> QED BY <1>4, <2>1, <2>3 DEF Stays, Grows
<1>5. CASE Len(T(x).ci) < T(x).size
  <2>0. [T(x) EXCEPT !.size = T(x).size] = T(x) /\ x = [x EXCEPT !.raised = "no"] /\ y = x
    BY <1>1, <1>2, <1>5 DEF GrowCI, World, Rec
  <2>1. y = Goes(x, L(x), [T(x) EXCEPT !.size = T(x).size], x.cs, "no")
    BY <1>1, <1>2, <2>0, GoesNowhere
  <2> QED BY <1>2, <1>3, <1>4, <1>5, <2>1 DEF Sized
<1>6. CASE ~(Len(T(x).ci) < T(x).size) /\ T(x).size > MaxCalls
  <2>0. [T(x) EXCEPT !.size = T(x).size] = T(x) /\ y = [x EXCEPT !.raised = "errerr"]
    BY <1>1, <1>2, <1>6 DEF GrowCI, Rec, Raise
  <2>1. y = Goes(x, L(x), [T(x) EXCEPT !.size = T(x).size], x.cs, "errerr")
    BY <1>1, <1>2, <2>0, GoesNowhere
  <2> QED BY <1>2, <1>3, <1>4, <1>6, <2>1 DEF Sized
<1>7. CASE ~(Len(T(x).ci) < T(x).size) /\ ~(T(x).size > MaxCalls)
  <2> DEFINE w == IF 2 * T(x).size > MaxCalls THEN "error" ELSE "no"
  <2>1. y = Goes(x, L(x), [T(x) EXCEPT !.size = 2 * T(x).size], x.cs, w)
    BY <1>1, <1>2, <1>7 DEF GrowCI, World, Rec, Goes, Raise, T
  <2>2. 2 * T(x).size \in Nat /\ 2 <= 2 * T(x).size /\ Len(T(x).ci) < 2 * T(x).size /\ 2 * T(x).size <= 2 * MaxCalls
    BY <1>2, <1>3, <1>7 DEF Sized
  <2> QED BY <1>3, <1>4, <2>1, <2>2
<1> QED BY <1>5, <1>6, <1>7

(* Frames of a sequence with one more, or one less.                           *)
LEMMA Frames ==
  ASSUME NEW ci \in Seq(Frame)
  PROVE  /\ \A f \in Frame : /\ Append(ci, f) \in Seq(Frame) /\ Len(Append(ci, f)) = Len(ci) + 1
                             /\ Last(Append(ci, f)) = f /\ \A j \in 1 .. Len(ci) : Append(ci, f)[j] = ci[j]
                             /\ Append(ci, f)[Len(ci) + 1] = f
         /\ ci # <<>> => /\ Front(ci) \in Seq(Frame) /\ Len(Front(ci)) = Len(ci) - 1
                         /\ Last(ci) = ci[Len(ci)] /\ \A j \in 1 .. Len(ci) - 1 : Front(ci)[j] = ci[j]
<1>1. ASSUME NEW f \in Frame
      PROVE  /\ Append(ci, f) \in Seq(Frame) /\ Len(Append(ci, f)) = Len(ci) + 1
             /\ \A j \in 1 .. Len(ci) : Append(ci, f)[j] = ci[j]
             /\ Append(ci, f)[Len(ci) + 1] = f
  <2> HIDE DEF Frame
  <2> QED OBVIOUS
<1>2. ASSUME NEW f \in Frame PROVE Last(Append(ci, f)) = f
  BY <1>1 DEF Last
<1>3. ASSUME ci # <<>>
      PROVE  /\ Front(ci) \in Seq(Frame) /\ Len(Front(ci)) = Len(ci) - 1
             /\ Last(ci) = ci[Len(ci)] /\ \A j \in 1 .. Len(ci) - 1 : Front(ci)[j] = ci[j]
  <2>1. Len(ci) \in Nat \ {0}
    BY <1>3
  <2> DEFINE m == Len(ci) - 1
  <2>2. m \in Nat /\ m <= Len(ci) /\ Front(ci) = SubSeq(ci, 1, m) /\ Last(ci) = ci[Len(ci)]
    BY <2>1 DEF Front, Last
  <2>3. SubSeq(ci, 1, m) \in Seq(Frame) /\ Len(SubSeq(ci, 1, m)) = m
        /\ \A j \in 1 .. m : SubSeq(ci, 1, m)[j] = ci[j]
    <3> HIDE DEF m, Frame
    <3> QED BY <2>1, <2>2
  <2> QED BY <2>2, <2>3
<1> QED BY <1>1, <1>2, <1>3

(* The frame of a C function f, on top of those x had.                        *)
Entered(x, f) == [GrowCI(x) EXCEPT !.t[L(x)].ci = Append(@, f)]
Entering(x, lv, f, y) ==
  /\ Runs(y, lv) /\ Above(y, lv) /\ y.cs = x.cs /\ y.may = x.may /\ y.out = x.out /\ L(y) = L(x)
  /\ T(y).ci = Append(T(x).ci, f) /\ T(y).ncc = T(x).ncc /\ T(y).errfunc = T(x).errfunc
  /\ Alike(T(y), T(x))
  /\ \A th \in Thread \ {L(x)} : y.t[th] = x.t[th]
(* The frame lies on what the thread had, and the states fit each other. *)
LEMMA EnteredHolds ==
  ASSUME NEW x, NEW lv, Runs(x, lv), Last(x.cs).k \in {"exec", "call"}, NEW f \in Frame \ {"lua"},
         GrowCI(x).raised = "no", NEW y, y = Entered(x, f)
  PROVE  Entering(x, lv, f, y)
<1> DEFINE g == GrowCI(x)
           n == Len(x.cs)
<1>1. /\ x \in World /\ x.cs # <<>> /\ x.raised = "no" /\ T(x).status = "ok" /\ Holds(x, lv)
  BY DEF Runs, Holds
<1>2. /\ Runs(g, lv) /\ Len(T(g).ci) < T(g).size /\ g.cs = x.cs /\ g.may = x.may /\ g.out = x.out /\ L(g) = L(x)
      /\ \A th \in Thread \ {L(x)} : g.t[th] = x.t[th]
      /\ \E z \in Nat : T(g) = [T(x) EXCEPT !.size = z]
  <2>1. Grows(x, lv, g)
    BY GrowHolds
  <2> QED BY <2>1 DEF Grows
<1> HIDE DEF g
<1>3. Holds(g, lv) /\ T(g).status = "ok" /\ g.raised = "no" /\ g \in World /\ g.cs # <<>> /\ T(g).ncc < MaxCcalls + Spare
  BY <1>2 DEF Runs, Holds, Limits
<1>4. /\ L(g) \in Thread /\ T(g) \in Rec /\ T(g) = g.t[L(g)] /\ Sized(T(g))
      /\ g.cs[n] = Last(g.cs) /\ Top(g.cs, lv, n) \in Nat
      /\ Top(g.cs, lv, n) <= Len(T(g).ci)
      /\ \A j \in Top(g.cs, lv, n) + 1 .. Len(T(g).ci) : T(g).ci[j] # "lua"
  <2>1. Stands(g, lv, n)
    BY <1>2, <1>3, Standing
  <2> QED BY <2>1 DEF Stands
<1> DEFINE r == [T(g) EXCEPT !.ci = Append(T(g).ci, f)]
<1>5. T(g).ci \in Seq(Frame) /\ Len(T(g).ci) \in Nat /\ T(g).size \in Nat
  BY <1>4, RecIs
<1>6. /\ Append(T(g).ci, f) \in Seq(Frame) /\ Len(Append(T(g).ci, f)) = Len(T(g).ci) + 1
      /\ \A j \in 1 .. Len(T(g).ci) : Append(T(g).ci, f)[j] = T(g).ci[j]
      /\ Append(T(g).ci, f)[Len(T(g).ci) + 1] = f
  BY <1>5, Frames
<1>7. r \in Rec /\ Alike(r, T(g)) /\ r.ncc = T(g).ncc /\ r.errfunc = T(g).errfunc /\ r.size = T(g).size
      /\ r.ci = Append(T(g).ci, f)
  <2>1. r \in Rec
    BY <1>4, <1>6 DEF Rec
  <2> QED BY <1>4, <2>1 DEF Rec, Alike
<1>8. y = Goes(g, L(g), r, g.cs, "no")
  BY <1>2, <1>3, <1>4 DEF Entered, Goes, World, g
<1> HIDE DEF r, n
<1>9. Sized(r)
  <2>1. Len(r.ci) = Len(T(g).ci) + 1 /\ r.size = T(g).size /\ Len(T(g).ci) < T(g).size
    BY <1>2, <1>6, <1>7
  <2> QED BY <1>4, <1>5, <2>1 DEF Sized
<1>10. \A j \in Top(g.cs, lv, n) + 1 .. Len(r.ci) : r.ci[j] # "lua"
  <2> TAKE j \in Top(g.cs, lv, n) + 1 .. Len(r.ci)
  <2>1. CASE j = Len(T(g).ci) + 1
    BY <1>6, <1>7, <2>1
  <2>2. CASE j # Len(T(g).ci) + 1
    <3>1. j \in Top(g.cs, lv, n) + 1 .. Len(T(g).ci) /\ j \in 1 .. Len(T(g).ci)
      BY <1>4, <1>5, <1>6, <1>7, <2>2
    <3> QED BY <1>4, <1>6, <1>7, <3>1
  <2> QED BY <2>1, <2>2
<1>11. Top(g.cs, lv, n) < Len(r.ci) /\ Top(g.cs, lv, n) <= Len(r.ci)
       /\ \A j \in 1 .. Top(g.cs, lv, n) : r.ci[j] = T(g).ci[j]
  BY <1>4, <1>5, <1>6, <1>7
<1>12. Within(r.ncc, "no") /\ g.cs[n].k \in {"exec", "call"} /\ n = Len(g.cs)
  BY <1>2, <1>3, <1>4, <1>7 DEF Within, n
<1>13. /\ Runs(y, lv) /\ y.cs = g.cs /\ y.may = g.may /\ y.out = g.out /\ L(y) = L(g) /\ T(y) = r
       /\ \A th \in Thread \ {L(g)} : y.t[th] = g.t[th]
  <2>1. Stays(g, lv, r, "no", y)
    BY <1>3, <1>7, <1>8, <1>9, <1>10, <1>11, <1>12, StayHolds
  <2> QED BY <2>1 DEF Stays
<1>14. T(g).ci = T(x).ci /\ T(g).ncc = T(x).ncc /\ T(g).errfunc = T(x).errfunc /\ Alike(T(g), T(x))
  <2>1. T(x) \in Rec
    BY <1>1, LastIs
  <2> QED BY <1>2, <2>1 DEF Rec, Alike
<1>15. Above(y, lv)
  BY <1>11, <1>12, <1>13 DEF Above
<1> QED BY <1>2, <1>7, <1>13, <1>14, <1>15 DEF Entering, Alike

(* A C function returns to its caller.                                        *)
Returns(x, lv, y) ==
  /\ Runs(y, lv) /\ y.cs = x.cs /\ y.may = x.may /\ y.out = x.out /\ L(y) = L(x)
  /\ T(y) = [T(x) EXCEPT !.ci = Front(@)]
  /\ \A th \in Thread \ {L(x)} : y.t[th] = x.t[th]
(* What it leaves fits, and its caller is as it was. *)
LEMMA PosCallHolds ==
  ASSUME NEW x, NEW lv, Runs(x, lv), Last(x.cs).k \in {"exec", "call"}, Above(x, lv), NEW y, y = PosCall(x)
  PROVE  Returns(x, lv, y)
<1> DEFINE n == Len(x.cs)
           r == [T(x) EXCEPT !.ci = Front(T(x).ci)]
<1>1. /\ x \in World /\ x.cs # <<>> /\ x.raised = "no" /\ T(x).status = "ok" /\ Holds(x, lv)
      /\ T(x).ncc < MaxCcalls + Spare
  BY DEF Runs, Holds, Limits
<1>2. /\ L(x) \in Thread /\ T(x) \in Rec /\ T(x) = x.t[L(x)] /\ Sized(T(x)) /\ x.cs[n] = Last(x.cs)
      /\ Top(x.cs, lv, n) \in Nat
      /\ \A j \in Top(x.cs, lv, n) + 1 .. Len(T(x).ci) : T(x).ci[j] # "lua"
  <2>1. Stands(x, lv, n)
    BY <1>1, Standing
  <2> QED BY <2>1 DEF Stands
<1>3. T(x).ci \in Seq(Frame) /\ Len(T(x).ci) \in Nat /\ T(x).size \in Nat /\ Top(x.cs, lv, n) < Len(T(x).ci)
      /\ T(x).ci # <<>>
  <2>1. T(x).ci \in Seq(Frame) /\ Len(T(x).ci) \in Nat /\ T(x).size \in Nat
    BY <1>2, RecIs
  <2> QED BY <1>2, <2>1 DEF Above
<1>4. /\ Front(T(x).ci) \in Seq(Frame) /\ Len(Front(T(x).ci)) = Len(T(x).ci) - 1
      /\ \A j \in 1 .. Len(T(x).ci) - 1 : Front(T(x).ci)[j] = T(x).ci[j]
  BY <1>3, Frames
<1>5. r \in Rec /\ Alike(r, T(x)) /\ r.ncc = T(x).ncc /\ r.errfunc = T(x).errfunc /\ r.size = T(x).size
      /\ r.ci = Front(T(x).ci)
  <2>1. r \in Rec
    BY <1>2, <1>4 DEF Rec
  <2> QED BY <1>2, <2>1 DEF Rec, Alike
<1>6. y = Goes(x, L(x), r, x.cs, "no")
  BY <1>1, <1>2 DEF PosCall, Goes, World
<1>7. [T(x) EXCEPT !.ci = Front(@)] = r
  OBVIOUS
<1> HIDE DEF r, n
<1>8. Sized(r)
  BY <1>2, <1>3, <1>4, <1>5 DEF Sized
<1>9. /\ Top(x.cs, lv, n) <= Len(r.ci)
      /\ \A j \in 1 .. Top(x.cs, lv, n) : r.ci[j] = T(x).ci[j]
      /\ \A j \in Top(x.cs, lv, n) + 1 .. Len(r.ci) : r.ci[j] # "lua"
  <2> DEFINE d == Top(x.cs, lv, n)
             m == Len(T(x).ci)
             ci == T(x).ci
  <2>1. d \in Nat /\ m \in Nat /\ d < m /\ Len(r.ci) = m - 1 /\ \A j \in 1 .. m - 1 : r.ci[j] = ci[j]
    BY <1>2, <1>3, <1>4, <1>5
  <2>2. \A j \in d + 1 .. m : ci[j] # "lua"
    BY <1>2
  <2> HIDE DEF d, m, ci
  <2>3. /\ d <= Len(r.ci) /\ \A j \in 1 .. d : r.ci[j] = ci[j]
        /\ \A j \in d + 1 .. Len(r.ci) : r.ci[j] # "lua"
    BY <2>1, <2>2
  <2> QED BY <2>3 DEF d, ci
<1>10. Within(r.ncc, "no") /\ x.cs[n].k \in {"exec", "call"} /\ n = Len(x.cs)
  BY <1>1, <1>2, <1>5 DEF Within, n
<1>11. Stays(x, lv, r, "no", y)
  BY <1>1, <1>5, <1>6, <1>8, <1>9, <1>10, StayHolds
<1> QED BY <1>7, <1>11 DEF Stays, Returns

(* An error is raised where there is room for one.                            *)
LEMMA RaiseHolds ==
  ASSUME NEW x, NEW lv, Runs(x, lv), Last(x.cs).k \in {"exec", "call"}, NEW y, y = Raise(x, "error")
  PROVE  Holds(y, lv) /\ y.cs = x.cs /\ y.may = x.may /\ y.t = x.t
<1>1. x \in World /\ Good(x.t, x.cs, lv) /\ x.out = "running" /\ x.cs # <<>> /\ T(x).ncc < MaxCcalls + Spare
  BY DEF Runs, Holds, Limits
<1>2. /\ y \in World /\ y.t = x.t /\ y.cs = x.cs /\ y.out = x.out /\ y.raised = "error" /\ y.may = x.may
  BY <1>1 DEF Raise, World
<1>3. L(y) = L(x) /\ T(y) = T(x)
  BY <1>2 DEF L, T
<1> QED BY <1>1, <1>2, <1>3 DEF Holds, Limits

(* The innermost thread calls.                                                *)
Pushes(x, lw, r, a, w, y) ==
  /\ Holds(y, lw) /\ y.cs = Append(x.cs, a) /\ y.raised = w /\ y.may = x.may /\ y.out = x.out
  /\ L(y) = L(x) /\ T(y) = r /\ Last(y.cs) = a /\ (w = "no" => Runs(y, lw))
  /\ \A th \in Thread \ {L(x)} : y.t[th] = x.t[th]
(* The pushed activation fits on top of its caller. *)
LEMMA PushHolds ==
  ASSUME NEW x, NEW lv, Runs(x, lv), NEW n, n = Len(x.cs),
         NEW a \in Act, a.th = L(x), <<x.cs[n].k, a.k>> \in Nested, NEW v \in Nat,
         NEW r \in Rec, Alike(r, T(x)), Sized(r),
         Laid(r.ci, T(x).ci, Top(x.cs, lv, n), v, v + Own(a)),
         x.cs[n].k = "resume" => v = 1,
         a.k = "pcall" => /\ Top(x.cs, lv, n) < v /\ a.ci = v /\ a.ncc = T(x).ncc /\ a.errfunc = T(x).errfunc,
         a.k # "pcall" => r.errfunc = T(x).errfunc,
         r.ncc = T(x).ncc + (IF a.k = "call" THEN 1 ELSE 0),
         NEW w \in {"no", "error", "errerr"}, w # "no" => a.k \in {"exec", "call"}, Within(r.ncc, w),
         NEW y, y = Goes(x, L(x), r, Append(x.cs, a), w)
  PROVE  Pushes(x, Append(lv, v), r, a, w, y)
<1> DEFINE ds == Append(x.cs, a)
           lw == Append(lv, v)
<1>1. /\ x \in World /\ x.t \in [Thread -> Rec] /\ x.cs \in Seq(Act) /\ Good(x.t, x.cs, lv) /\ x.out = "running"
      /\ x.cs # <<>> /\ x.raised = "no" /\ T(x).status = "ok" /\ Holds(x, lv) /\ T(x).ncc < MaxCcalls + Spare
  BY DEF Runs, Holds, World, Limits
<1>2. Stands(x, lv, n)
  BY <1>1, Standing
<1>3. /\ n \in Nat \ {0} /\ x.cs[n].th = L(x) /\ L(x) \in Thread /\ T(x) = x.t[L(x)] /\ T(x).ncc = Depth(x.cs, n)
      /\ Unprotected(x.cs, L(x), n) => T(x).errfunc = None
  BY <1>2 DEF Stands
<1>4. ds \in Seq(Act) /\ Len(ds) = n + 1 /\ ds[n + 1] = a /\ ds # <<>>
  BY <1>1, <1>3
<1>5. Keeps(a, Depth(x.cs, n), v, Unprotected(x.cs, L(x), n))
  BY <1>1, <1>3 DEF Keeps
<1>6. Good([x.t EXCEPT ![L(x)] = r], ds, lw)
  <2>1. /\ x.t[L(x)].status = "ok" /\ Alike(r, x.t[L(x)])
        /\ Laid(r.ci, x.t[L(x)].ci, Top(x.cs, lv, n), v, v + Own(a))
        /\ a.k = "pcall" => Top(x.cs, lv, n) < v
        /\ r.ncc = Depth(x.cs, n) + (IF a.k = "call" THEN 1 ELSE 0)
        /\ a.k # "pcall" /\ Unprotected(x.cs, L(x), n) => r.errfunc = None
    BY <1>1, <1>3
  <2> HIDE DEF ds, lw
  <2>2. Good([x.t EXCEPT ![L(x)] = r], Append(x.cs, a), Append(lv, v))
    BY <1>1, <1>3, <1>5, <2>1, PushKeeps
  <2> QED BY <2>2 DEF ds, lw
<1> HIDE DEF ds, lw
<1>7. Went(x, L(x), r, ds, w, y)
  <2>1. y = Goes(x, L(x), r, ds, w)
    BY DEF ds
  <2> QED BY <1>1, <1>3, <1>4, <2>1, GoesIs
<1>8. Last(y.cs) = a /\ L(y) = L(x) /\ T(y) = r
  BY <1>4, <1>7 DEF Went, L, T, Last
<1>9. Limits(y)
  BY <1>7, <1>8 DEF Limits, Within, Went
<1> QED BY <1>1, <1>4, <1>6, <1>7, <1>8, <1>9 DEF Pushes, Went, Holds, Runs, Alike, ds, lw

(* Where a Lua function is entered: at the frames of the innermost luaV_execute, *)
(* or of what has just been called.                                              *)
Ready(x, lv) ==
  /\ Runs(x, lv) /\ Last(x.cs).k \in {"exec", "call"}
  /\ Top(x.cs, lv, Len(x.cs)) = Len(T(x).ci)

(* The nested call of a function, when the depth allows it.                   *)
Called(x) == Push([x EXCEPT !.t[L(x)].ncc = @ + 1], [k |-> "call", th |-> L(x)])
(* luaD_call counts its own activation, and stops at the limit. *)
LEMMA CalledHolds ==
  ASSUME NEW x, NEW lv, Runs(x, lv), Last(x.cs).k \in {"pcall", "handler"} \/ (Ready(x, lv) /\ Last(x.cs).k = "exec"),
         NEW w \in {"no", "error", "errerr"}, Within(T(x).ncc + 1, w), NEW y, y = Raise(Called(x), w)
  PROVE  \E lw : /\ Holds(y, lw) /\ y.raised = w /\ y.may = x.may /\ y.out = x.out /\ L(y) = L(x)
                 /\ T(y) = [T(x) EXCEPT !.ncc = @ + 1]
                 /\ Last(y.cs) = [k |-> "call", th |-> L(x)]
                 /\ \A th \in Thread \ {L(x)} : y.t[th] = x.t[th]
                 /\ w = "no" => Ready(y, lw)
<1> DEFINE n == Len(x.cs)
           a == [k |-> "call", th |-> L(x)]
           r == [T(x) EXCEPT !.ncc = T(x).ncc + 1]
           v == Len(T(x).ci)
<1>1. /\ x \in World /\ x.cs # <<>> /\ x.raised = "no" /\ T(x).status = "ok" /\ Holds(x, lv) /\ x.cs \in Seq(Act)
  BY DEF Runs, Holds, World
<1>2. Stands(x, lv, n)
  BY <1>1, Standing
<1>3. /\ a \in Act /\ a.th = L(x) /\ a.k = "call" /\ Own(a) = 0 /\ <<x.cs[n].k, a.k>> \in Nested
      /\ x.cs[n].k # "resume"
  BY <1>2 DEF Act, Own, Nested, Stands, Ready
<1>4. /\ r \in Rec /\ Alike(r, T(x)) /\ Sized(r) /\ r.ci = T(x).ci /\ r.errfunc = T(x).errfunc /\ r.ncc = T(x).ncc + 1
      /\ r = [T(x) EXCEPT !.ncc = @ + 1]
  <2>0. T(x) \in Rec /\ T(x).ncc + 1 \in Nat /\ Sized(T(x))
    BY <1>2 DEF Stands
  <2>1. r \in Rec
    BY <2>0 DEF Rec
  <2> QED BY <2>0, <2>1 DEF Rec, Alike, Sized
<1>5. y = Goes(x, L(x), r, Append(x.cs, a), w)
  BY <1>1, <1>2 DEF Raise, Called, Push, Goes, World, Stands, Rec
<1> HIDE DEF r, n, a, v
<1>6. Laid(r.ci, T(x).ci, Top(x.cs, lv, n), v, v + Own(a)) /\ v \in Nat /\ v + Own(a) = v
  BY <1>2, <1>3, <1>4 DEF Laid, Stands, v
<1>7. Pushes(x, Append(lv, v), r, a, w, y)
  <2>1. n = Len(x.cs)
    BY DEF n
  <2> QED BY <1>3, <1>4, <1>5, <1>6, <2>1, PushHolds
<1>8. w = "no" => Ready(y, Append(lv, v))
  <2>1. lv \in Seq(Nat) /\ Len(lv) = n /\ n \in Nat
    BY <1>1, <1>2 DEF Holds, Good, n, Stands
  <2>2. Len(y.cs) = n + 1 /\ y.cs[n + 1] = a
    BY <1>1, <1>7 DEF Pushes, n
  <2>3. Append(lv, v)[n + 1] = v
    BY <1>6, <2>1
  <2>4. Top(y.cs, Append(lv, v), Len(y.cs)) = v
    BY <1>6, <2>2, <2>3 DEF Top
  <2> QED BY <1>3, <1>4, <1>7, <2>4 DEF Pushes, Ready, v
<1> QED BY <1>4, <1>7, <1>8 DEF Pushes, a

-----------------------------------------------------------------------------
(* What a program can see of a step.                                          *)

(* Who resumed whom.                                                          *)
Resumed(cs) == {<<cs[i - 1].th, cs[i].th>> : i \in {j \in 2 .. Len(cs) : cs[j].k = "resume"}}

(* What coroutine.status looks at.                                            *)
Look(r) == [made |-> r.made, fresh |-> r.fresh, status |-> r.status, called |-> Len(r.ci) > 1]

(* A step within the innermost thread.                                        *)
Steady(x, y) ==
  /\ y.cs # <<>> /\ L(y) = L(x) /\ y.may = x.may /\ y.out = x.out
  /\ On(y.cs) = On(x.cs) /\ Resumed(y.cs) = Resumed(x.cs)
  /\ T(y).made = T(x).made /\ T(y).fresh = T(x).fresh
  /\ \A th \in Thread \ {L(x)} : Look(y.t[th]) = Look(x.t[th])
Leads(x, y) == (\E lw : Holds(y, lw)) /\ Steady(x, y)

(* Steps follow one another.                                                  *)
LEMMA SteadyOn ==
  ASSUME NEW x, NEW y, NEW z, Steady(x, y), Steady(y, z)
  PROVE  Steady(x, z)
BY DEF Steady

(* A step that leaves the C stack as it is.                                   *)
LEMMA SteadyHere ==
  ASSUME NEW x, NEW y, x.cs # <<>>, y.cs = x.cs, y.may = x.may, y.out = x.out,
         T(y).made = T(x).made, T(y).fresh = T(x).fresh,
         \A th \in Thread \ {L(x)} : Look(y.t[th]) = Look(x.t[th])
  PROVE  Steady(x, y)
BY DEF Steady, L

(* A call within the innermost thread.                                        *)
LEMMA SteadyPush ==
  ASSUME NEW x, NEW y, x.cs # <<>>, x.cs \in Seq(Act), NEW a \in Act, a.k # "resume", a.th = L(x),
         y.cs = Append(x.cs, a), y.may = x.may, y.out = x.out,
         T(y).made = T(x).made, T(y).fresh = T(x).fresh,
         \A th \in Thread \ {L(x)} : Look(y.t[th]) = Look(x.t[th])
  PROVE  Steady(x, y)
<1> DEFINE n == Len(x.cs)
<1>1. /\ n \in Nat \ {0} /\ y.cs # <<>> /\ Len(y.cs) = n + 1 /\ y.cs[n + 1] = a /\ x.cs[n].th = L(x)
      /\ \A i \in 1 .. n : y.cs[i] = x.cs[i]
  BY DEF L, Last
<1> HIDE DEF n
<1>2. L(y) = L(x)
  BY <1>1 DEF L, Last
<1>3. On(y.cs) = On(x.cs)
  <2>1. \A i \in 1 .. n + 1 : y.cs[i].th \in {x.cs[j].th : j \in 1 .. n}
    <3> TAKE i \in 1 .. n + 1
    <3>1. CASE i = n + 1
      <4>1. n \in 1 .. n /\ y.cs[i].th = x.cs[n].th
        BY <1>1, <3>1
      <4> QED BY <4>1
    <3>2. CASE i # n + 1
      <4>1. i \in 1 .. n
        BY <1>1, <3>2
      <4> QED BY <1>1, <4>1
    <3> QED BY <3>1, <3>2
  <2>2. \A i \in 1 .. n : x.cs[i].th \in {y.cs[j].th : j \in 1 .. n + 1}
    <3> TAKE i \in 1 .. n
    <3>1. i \in 1 .. n + 1 /\ y.cs[i] = x.cs[i]
      BY <1>1
    <3> QED BY <3>1
  <2> QED BY <1>1, <2>1, <2>2 DEF On, n
<1>4. Resumed(y.cs) = Resumed(x.cs)
  <2>1. {j \in 2 .. n + 1 : y.cs[j].k = "resume"} = {j \in 2 .. n : x.cs[j].k = "resume"}
    <3>1. ASSUME NEW j \in 2 .. n + 1, y.cs[j].k = "resume" PROVE j \in 2 .. n /\ x.cs[j].k = "resume"
      <4>1. j # n + 1
        BY <1>1, <3>1
      <4>2. j \in 2 .. n /\ j \in 1 .. n
        BY <1>1, <4>1
      <4> QED BY <1>1, <3>1, <4>2
    <3>2. ASSUME NEW j \in 2 .. n, x.cs[j].k = "resume" PROVE j \in 2 .. n + 1 /\ y.cs[j].k = "resume"
      <4>1. j \in 2 .. n + 1 /\ j \in 1 .. n
        BY <1>1
      <4> QED BY <1>1, <3>2, <4>1
    <3> QED BY <3>1, <3>2
  <2>2. \A j \in 2 .. n : y.cs[j] = x.cs[j] /\ y.cs[j - 1] = x.cs[j - 1]
    <3> TAKE j \in 2 .. n
    <3>1. j \in 1 .. n /\ j - 1 \in 1 .. n
      BY <1>1
    <3> QED BY <1>1, <3>1
  <2>3. Resumed(x.cs) = {<<x.cs[i - 1].th, x.cs[i].th>> : i \in {j \in 2 .. n : x.cs[j].k = "resume"}}
    BY DEF Resumed, n
  <2>4. Resumed(y.cs) = {<<y.cs[i - 1].th, y.cs[i].th>> : i \in {j \in 2 .. n + 1 : y.cs[j].k = "resume"}}
    BY <1>1 DEF Resumed
  <2> DEFINE J == {j \in 2 .. n : x.cs[j].k = "resume"}
  <2>5. {<<y.cs[i - 1].th, y.cs[i].th>> : i \in J} = {<<x.cs[i - 1].th, x.cs[i].th>> : i \in J}
    <3>1. \A i \in J : <<y.cs[i - 1].th, y.cs[i].th>> = <<x.cs[i - 1].th, x.cs[i].th>>
      BY <2>2
    <3> HIDE DEF J
    <3> QED BY <3>1
  <2> QED BY <2>1, <2>3, <2>4, <2>5
<1> QED BY <1>1, <1>2, <1>3, <1>4 DEF Steady

(* A step that changes but the count of an activation.                        *)
LEMMA SteadyRun ==
  ASSUME NEW x, NEW y, x.cs # <<>>, x.cs \in Seq(Act), y.cs \in Seq(Act), Len(y.cs) = Len(x.cs),
         \A i \in 1 .. Len(x.cs) : y.cs[i].th = x.cs[i].th /\ y.cs[i].k = x.cs[i].k,
         y.may = x.may, y.out = x.out,
         T(y).made = T(x).made, T(y).fresh = T(x).fresh,
         \A th \in Thread \ {L(x)} : Look(y.t[th]) = Look(x.t[th])
  PROVE  Steady(x, y)
<1> DEFINE n == Len(x.cs)
<1>1. n \in Nat \ {0} /\ y.cs # <<>> /\ Len(y.cs) = n /\ \A i \in 1 .. n : y.cs[i].th = x.cs[i].th /\ y.cs[i].k = x.cs[i].k
  OBVIOUS
<1> HIDE DEF n
<1>2. L(y) = L(x)
  BY <1>1 DEF L, Last, n
<1>3. On(y.cs) = On(x.cs)
  BY <1>1 DEF On, n
<1>4. Resumed(y.cs) = Resumed(x.cs)
  <2> DEFINE J == {j \in 2 .. n : x.cs[j].k = "resume"}
  <2>1. {j \in 2 .. n : y.cs[j].k = "resume"} = J
    BY <1>1
  <2>2. \A j \in 2 .. n : y.cs[j].th = x.cs[j].th /\ y.cs[j - 1].th = x.cs[j - 1].th
    <3> TAKE j \in 2 .. n
    <3>1. j \in 1 .. n /\ j - 1 \in 1 .. n
      BY <1>1
    <3> QED BY <1>1, <3>1
  <2>3. Resumed(x.cs) = {<<x.cs[i - 1].th, x.cs[i].th>> : i \in J}
    BY DEF Resumed, n
  <2>4. Resumed(y.cs) = {<<y.cs[i - 1].th, y.cs[i].th>> : i \in J}
    BY <1>1, <2>1 DEF Resumed
  <2>5. {<<y.cs[i - 1].th, y.cs[i].th>> : i \in J} = {<<x.cs[i - 1].th, x.cs[i].th>> : i \in J}
    <3>1. \A i \in J : <<y.cs[i - 1].th, y.cs[i].th>> = <<x.cs[i - 1].th, x.cs[i].th>>
      BY <2>2
    <3> HIDE DEF J
    <3> QED BY <3>1
  <2> QED BY <2>3, <2>4, <2>5
<1> QED BY <1>1, <1>2, <1>3, <1>4 DEF Steady

-----------------------------------------------------------------------------
(* Protected calls, and Lua functions.                                        *)

(* luaD_pcall saves what it will restore.                                     *)
LEMMA PCallHolds ==
  ASSUME NEW x, NEW lv, Runs(x, lv), Last(x.cs).k \in {"exec", "call"}, Above(x, lv), NEW ef \in ErrFunc,
         NEW y, y = PCall(x, ef)
  PROVE  /\ \E lw : Runs(y, lw)
         /\ Steady(x, y) /\ Last(y.cs).k = "pcall" /\ T(y).ncc = T(x).ncc
<1> DEFINE n == Len(x.cs)
           v == Len(T(x).ci)
           a == [k |-> "pcall", th |-> L(x), ncc |-> T(x).ncc, ci |-> v, errfunc |-> T(x).errfunc]
           r == [T(x) EXCEPT !.errfunc = ef]
<1>1. /\ x \in World /\ x.cs # <<>> /\ x.raised = "no" /\ T(x).status = "ok" /\ Holds(x, lv) /\ x.cs \in Seq(Act)
      /\ T(x).ncc < MaxCcalls + Spare
  BY DEF Runs, Holds, World, Limits
<1>2. Stands(x, lv, n)
  BY <1>1, Standing
<1>21. /\ T(x) \in Rec /\ T(x).ncc \in Nat /\ Sized(T(x)) /\ v \in Nat /\ T(x).errfunc \in ErrFunc /\ L(x) \in Thread
       /\ x.cs[n] = Last(x.cs) /\ n \in Nat
  BY <1>2, RecIs DEF Stands
<1>3. /\ a \in Act /\ a.th = L(x) /\ a.k = "pcall" /\ Own(a) = 0 /\ <<x.cs[n].k, a.k>> \in Nested
      /\ x.cs[n].k # "resume" /\ a.ci = v /\ a.ncc = T(x).ncc /\ a.errfunc = T(x).errfunc
  <2>1. a \in Act
    <3> HIDE DEF v
    <3> QED BY <1>21 DEF Act
  <2> QED BY <1>21, <2>1 DEF Own, Nested
<1>4. /\ r \in Rec /\ Alike(r, T(x)) /\ Sized(r) /\ r.ci = T(x).ci /\ r.ncc = T(x).ncc
  <2>1. r \in Rec
    BY <1>21 DEF Rec
  <2> QED BY <1>21, <2>1 DEF Rec, Alike, Sized
<1>5. y = Goes(x, L(x), r, Append(x.cs, a), "no")
  BY <1>1, <1>21 DEF PCall, Push, Goes, World, Rec, T
<1>6. Laid(r.ci, T(x).ci, Top(x.cs, lv, n), v, v + Own(a)) /\ 1 <= v /\ v + Own(a) = v /\ Top(x.cs, lv, n) < v
  <2> HIDE DEF r, a
  <2> QED BY <1>2, <1>3, <1>4 DEF Laid, Stands, Above
<1> HIDE DEF r, n, a, v
<1>7. Pushes(x, Append(lv, v), r, a, "no", y)
  <2>1. n = Len(x.cs) /\ Within(r.ncc, "no")
    BY <1>1, <1>4 DEF n, Within
  <2> QED BY <1>21, <1>3, <1>4, <1>5, <1>6, <2>1, PushHolds
<1>8. Steady(x, y)
  <2>1. T(y).made = T(x).made /\ T(y).fresh = T(x).fresh
    BY <1>4, <1>7 DEF Pushes, Alike
  <2>2. \A th \in Thread \ {L(x)} : Look(y.t[th]) = Look(x.t[th])
    BY <1>7 DEF Pushes
  <2>3. a \in Act /\ a.k # "resume" /\ a.th = L(x)
    BY <1>3
  <2>4. y.cs = Append(x.cs, a) /\ y.may = x.may /\ y.out = x.out
    BY <1>7 DEF Pushes
  <2> QED BY <1>1, <2>1, <2>2, <2>3, <2>4, SteadyPush
<1> QED BY <1>3, <1>4, <1>7, <1>8 DEF Pushes

(* The innermost luaV_execute runs k Lua functions.                           *)
LEMMA RunHolds ==
  ASSUME NEW x, NEW lv, Runs(x, lv), NEW n, n = Len(x.cs), Last(x.cs).k = "exec",
         NEW k \in Nat \ {0}, NEW r \in Rec, Alike(r, T(x)), Sized(r),
         r.errfunc = T(x).errfunc, r.ncc = T(x).ncc,
         Laid(r.ci, T(x).ci, lv[n], lv[n], lv[n] + k),
         NEW y, y = Goes(x, L(x), r, [x.cs EXCEPT ![n].n = k], "no")
  PROVE  Holds(y, lv) /\ Steady(x, y)
<1> DEFINE ds == [x.cs EXCEPT ![n].n = k]
<1>1. /\ x \in World /\ x.t \in [Thread -> Rec] /\ x.cs \in Seq(Act) /\ Good(x.t, x.cs, lv) /\ x.out = "running"
      /\ x.cs # <<>> /\ x.raised = "no" /\ T(x).status = "ok" /\ Holds(x, lv) /\ T(x).ncc < MaxCcalls + Spare
  BY DEF Runs, Holds, World, Limits
<1>2. Stands(x, lv, n)
  BY <1>1, Standing
<1>3. /\ n \in Nat \ {0} /\ x.cs[n].th = L(x) /\ L(x) \in Thread /\ T(x) = x.t[L(x)] /\ x.cs[n].k = "exec"
      /\ x.cs[n] \in Act
  BY <1>2 DEF Stands
<1>4. /\ ds \in Seq(Act) /\ Len(ds) = n /\ ds # <<>>
      /\ \A i \in 1 .. n : ds[i].th = x.cs[i].th /\ ds[i].k = x.cs[i].k
  <2> DEFINE a == [x.cs[n] EXCEPT !.n = k]
  <2>1. a \in Act /\ a.th = x.cs[n].th /\ a.k = x.cs[n].k
    BY <1>3 DEF Act
  <2>2. ds = [x.cs EXCEPT ![n] = a]
    OBVIOUS
  <2> HIDE DEF a, ds
  <2>3. ds \in Seq(Act) /\ Len(ds) = n /\ ds[n] = a /\ \A i \in 1 .. n : i # n => ds[i] = x.cs[i]
    BY <1>1, <1>3, <2>1, <2>2
  <2> QED BY <1>3, <2>1, <2>3
<1>5. Good([x.t EXCEPT ![L(x)] = r], ds, lv)
  <2>1. Alike(r, x.t[L(x)]) /\ x.t[L(x)].status = "ok" /\ r.errfunc = x.t[L(x)].errfunc /\ r.ncc = x.t[L(x)].ncc
        /\ Laid(r.ci, x.t[L(x)].ci, lv[n], lv[n], lv[n] + k)
    BY <1>1, <1>3
  <2> QED BY <1>1, <1>3, <2>1, RunKeeps
<1> HIDE DEF ds
<1>6. Went(x, L(x), r, ds, "no", y)
  <2>1. y = Goes(x, L(x), r, ds, "no")
    BY DEF ds
  <2> QED BY <1>1, <1>3, <1>4, <2>1, GoesIs
<1>7. L(y) = L(x) /\ T(y) = r
  <2>1. 1 \in Nat /\ n \in 1 .. n
    BY <1>3
  <2>2. L(y) = ds[n].th
    BY <1>4, <1>6 DEF Went, L, Last
  <2>3. L(y) = L(x)
    BY <1>3, <1>4, <2>1, <2>2
  <2> QED BY <1>6, <2>3 DEF Went, T
<1>8. Steady(x, y)
  <2>1. T(y).made = T(x).made /\ T(y).fresh = T(x).fresh
    BY <1>7 DEF Alike
  <2>2. \A i \in 1 .. Len(x.cs) : y.cs[i].th = x.cs[i].th /\ y.cs[i].k = x.cs[i].k
    BY <1>4, <1>6 DEF Went
  <2>3. /\ y.cs \in Seq(Act) /\ Len(y.cs) = Len(x.cs) /\ y.may = x.may /\ y.out = x.out
        /\ \A th \in Thread \ {L(x)} : Look(y.t[th]) = Look(x.t[th])
    BY <1>4, <1>6 DEF Went
  <2> QED BY <1>1, <2>1, <2>2, <2>3, SteadyRun
<1>9. Limits(y)
  BY <1>1, <1>6, <1>7 DEF Limits, Went
<1> QED BY <1>1, <1>4, <1>5, <1>6, <1>8, <1>9 DEF Holds, Went

(* Growing leads on.                                                          *)
LEMMA GrowLeads ==
  ASSUME NEW x, NEW lv, Runs(x, lv), NEW y, Grows(x, lv, y)
  PROVE  /\ Holds(y, lv) /\ Steady(x, y) /\ T(y).ci = T(x).ci /\ T(y).errfunc = T(x).errfunc /\ T(y).ncc = T(x).ncc
         /\ Alike(T(y), T(x)) /\ y.cs = x.cs
<1>1. x \in World /\ x.cs # <<>>
  BY DEF Runs, Holds
<1>2. T(x) \in Rec
  BY <1>1, LastIs
<1>3. /\ T(y).ci = T(x).ci /\ T(y).errfunc = T(x).errfunc /\ T(y).ncc = T(x).ncc
      /\ Alike(T(y), T(x))
  BY <1>2 DEF Grows, Rec, Alike
<1>4. Steady(x, y)
  <2>1. /\ y.cs = x.cs /\ y.may = x.may /\ y.out = x.out /\ T(y).made = T(x).made /\ T(y).fresh = T(x).fresh
        /\ \A th \in Thread \ {L(x)} : Look(y.t[th]) = Look(x.t[th])
    BY <1>3 DEF Grows, Alike
  <2> QED BY <1>1, <2>1, SteadyHere
<1> QED BY <1>3, <1>4 DEF Grows

(* A Lua function is entered, by the innermost luaV_execute or by another.    *)
LEMMA EnterLuaHolds ==
  ASSUME NEW x, NEW lv, Runs(x, lv), Last(x.cs).k \in {"exec", "call"}, Last(x.cs).k = "exec" => Ready(x, lv)
  PROVE  Leads(x, EnterLua(x))
<1> DEFINE g == GrowCI(x)
           n == Len(x.cs)
           h == [g EXCEPT !.t[L(x)].ci = Append(@, "lua")]
           y == IF Last(h.cs).k = "exec" THEN [h EXCEPT !.cs[Len(h.cs)].n = @ + 1]
                ELSE Push(h, [k |-> "exec", th |-> L(h), n |-> 1])
<1>1. Grows(x, lv, g)
  BY GrowHolds
<1>2. /\ Holds(g, lv) /\ Steady(x, g) /\ T(g).ci = T(x).ci /\ g.cs = x.cs /\ L(g) = L(x)
  <2> HIDE DEF g
  <2>1. /\ Holds(g, lv) /\ Steady(x, g) /\ T(g).ci = T(x).ci /\ g.cs = x.cs
    BY <1>1, GrowLeads
  <2> QED BY <2>1 DEF L
<1>3. EnterLua(x) = IF g.raised # "no" THEN g ELSE y
  BY DEF EnterLua, EnterCI
<1>4. CASE g.raised # "no"
  BY <1>2, <1>3, <1>4 DEF Leads
<1>5. CASE g.raised = "no"
  <2> HIDE DEF g
  <2>1. Runs(g, lv) /\ Len(T(g).ci) < T(g).size
    BY <1>1, <1>5 DEF Grows
  <2>2. /\ g \in World /\ g.cs # <<>> /\ g.raised = "no" /\ T(g).status = "ok" /\ g.cs \in Seq(Act)
        /\ T(g).ncc < MaxCcalls + Spare
    BY <2>1 DEF Runs, Holds, World, Limits
  <2>3. Stands(g, lv, n)
    BY <1>2, <2>2, Standing
  <2> DEFINE r == [T(g) EXCEPT !.ci = Append(T(g).ci, "lua")]
             m == Len(T(g).ci)
  <2>4. /\ T(g) \in Rec /\ T(g) = g.t[L(g)] /\ T(g).ci \in Seq(Frame) /\ m \in Nat /\ L(g) \in Thread /\ n \in Nat \ {0}
        /\ g.cs[n] \in Act /\ g.cs[n] = Last(g.cs) /\ Sized(T(g)) /\ T(g).size \in Nat
    BY <2>3 DEF Stands
  <2>5. /\ Append(T(g).ci, "lua") \in Seq(Frame) /\ Len(Append(T(g).ci, "lua")) = m + 1
        /\ \A j \in 1 .. m : Append(T(g).ci, "lua")[j] = T(g).ci[j]
        /\ Append(T(g).ci, "lua")[m + 1] = "lua"
    BY <2>4, Frames DEF Frame
  <2>6. r \in Rec /\ Alike(r, T(g)) /\ r.ncc = T(g).ncc /\ r.errfunc = T(g).errfunc /\ r.size = T(g).size
        /\ r.ci = Append(T(g).ci, "lua")
    <3>1. r \in Rec
      BY <2>4, <2>5 DEF Rec
    <3> QED BY <2>4, <3>1 DEF Rec, Alike
  <2>7. h = Goes(g, L(g), r, g.cs, "no") /\ h.cs = g.cs /\ h.raised = "no" /\ h.t = [g.t EXCEPT ![L(g)] = r]
    BY <1>2, <2>2, <2>4 DEF Goes, World
  <2>8. L(h) = L(g) /\ Last(h.cs) = g.cs[n] /\ Len(h.cs) = n
    BY <1>2, <2>4, <2>7 DEF L
  <2> HIDE DEF r, h
  <2>9. Sized(r)
    <3>1. Len(r.ci) = m + 1 /\ r.size = T(g).size /\ m < T(g).size
      BY <2>1, <2>5, <2>6
    <3> QED BY <2>4, <3>1 DEF Sized
  <2>10. CASE g.cs[n].k = "exec"
    <3> DEFINE k == g.cs[n].n + 1
    <3>1. g.cs[n].n \in Nat /\ k \in Nat \ {0} /\ Own(g.cs[n]) = g.cs[n].n
      BY <2>4, <2>10, ActIs
    <3>2. y = Goes(g, L(g), r, [g.cs EXCEPT ![n].n = k], "no")
      <4>1. y = [h EXCEPT !.cs[n].n = @ + 1]
        BY <2>8, <2>10
      <4>2. [h EXCEPT !.cs[n].n = @ + 1] = [h EXCEPT !.cs = [g.cs EXCEPT ![n].n = k]]
        BY <2>7
      <4>3. [h EXCEPT !.cs = [g.cs EXCEPT ![n].n = k]] = Goes(g, L(g), r, [g.cs EXCEPT ![n].n = k], "no")
        BY <2>2, <2>7 DEF Goes, World
      <4> QED BY <4>1, <4>2, <4>3
    <3> HIDE DEF y
    <3>3. Laid(r.ci, T(g).ci, lv[n], lv[n], lv[n] + k)
      <4>1. lv[n] + g.cs[n].n = m /\ lv[n] \in Nat /\ 1 <= lv[n]
        BY <1>2, <2>3, <2>10, <3>1, <2>4 DEF Ready, Stands
      <4>2. \A j \in lv[n] + 1 .. m : T(g).ci[j] = "lua"
        BY <2>3, <3>1, <4>1 DEF Stands
      <4>3. lv[n] + k = m + 1
        <5>1. \A i, j \in Nat : i + (j + 1) = (i + j) + 1
          OBVIOUS
        <5> HIDE DEF m
        <5> QED BY <3>1, <4>1, <5>1
      <4> DEFINE v == lv[n]
      <4>4. v \in Nat /\ m \in Nat /\ 1 <= v /\ v <= m
        BY <2>4, <3>1, <4>1
      <4> HIDE DEF k, m, v
      <4>5. /\ \A j \in 1 .. v : r.ci[j] = T(g).ci[j]
            /\ \A j \in v + 1 .. m + 1 : r.ci[j] = "lua"
            /\ Len(r.ci) = m + 1
        <5>1. \A j \in 1 .. m : r.ci[j] = T(g).ci[j]
          BY <2>5, <2>6
        <5>2. \A j \in v + 1 .. m : T(g).ci[j] = "lua"
          BY <4>2 DEF v
        <5>3. r.ci[m + 1] = "lua" /\ Len(r.ci) = m + 1
          BY <2>5, <2>6
        <5>4. ASSUME NEW j \in 1 .. v PROVE r.ci[j] = T(g).ci[j]
          <6>1. j \in 1 .. m
            BY <4>4
          <6> QED BY <5>1, <6>1
        <5>5. ASSUME NEW j \in v + 1 .. m + 1 PROVE r.ci[j] = "lua"
          <6>1. CASE j = m + 1
            BY <5>3, <6>1
          <6>2. CASE j # m + 1
            <7>1. j \in 1 .. m /\ j \in v + 1 .. m
              BY <4>4, <6>2
            <7> QED BY <5>1, <5>2, <7>1
          <6> QED BY <6>1, <6>2
        <5> QED BY <5>3, <5>4, <5>5
      <4>6. Laid(r.ci, T(g).ci, v, v, m + 1)
        BY <4>4, <4>5 DEF Laid
      <4> QED BY <4>3, <4>6 DEF v
    <3> HIDE DEF k
    <3>4. Holds(y, lv) /\ Steady(g, y)
      BY <1>2, <2>1, <2>4, <2>6, <2>9, <2>10, <3>1, <3>2, <3>3, RunHolds
    <3> QED BY <1>2, <1>3, <1>5, <3>4, SteadyOn DEF Leads
  <2>11. CASE g.cs[n].k = "call"
    <3> DEFINE a == [k |-> "exec", th |-> L(g), n |-> 1]
    <3>1. a \in Act /\ a.th = L(g) /\ a.k = "exec" /\ Own(a) = 1 /\ <<g.cs[n].k, a.k>> \in Nested
      BY <2>4, <2>11 DEF Act, Own, Nested
    <3>2. y = Goes(g, L(g), r, Append(g.cs, a), "no")
      <4>1. y = Push(h, a)
        BY <2>8, <2>11
      <4> QED BY <2>2, <2>7, <4>1 DEF Goes, World, Push
    <3> HIDE DEF a, y
    <3>3. Laid(r.ci, T(g).ci, Top(g.cs, lv, n), m, m + Own(a))
      <4>1. /\ Top(g.cs, lv, n) \in Nat /\ 1 <= m /\ Top(g.cs, lv, n) <= m
            /\ \A j \in Top(g.cs, lv, n) + 1 .. m : T(g).ci[j] # "lua"
        BY <2>3 DEF Stands
      <4>2. m + Own(a) = m + 1
        BY <3>1
      <4> HIDE DEF m
      <4> QED BY <2>4, <2>5, <2>6, <4>1, <4>2 DEF Laid
    <3>4. Within(r.ncc, "no")
      BY <2>2, <2>6 DEF Within
    <3>5. Pushes(g, Append(lv, m), r, a, "no", y)
      <4> HIDE DEF m
      <4>1. n = Len(g.cs) /\ g.cs[n].k # "resume" /\ a.k # "call" /\ a.k # "pcall"
        BY <1>2, <2>11, <3>1
      <4>2. r.ncc = T(g).ncc + (IF a.k = "call" THEN 1 ELSE 0)
        BY <2>3, <2>6, <4>1 DEF Stands
      <4> QED BY <2>1, <2>4, <2>6, <2>9, <3>1, <3>2, <3>3, <3>4, <4>1, <4>2, PushHolds
    <3>6. Steady(g, y)
      <4>1. /\ y.cs = Append(g.cs, a) /\ y.may = g.may /\ y.out = g.out
            /\ T(y).made = T(g).made /\ T(y).fresh = T(g).fresh
            /\ \A th \in Thread \ {L(g)} : Look(y.t[th]) = Look(g.t[th])
        BY <2>6, <3>5 DEF Pushes, Alike
      <4>2. a.k # "resume"
        BY <3>1
      <4> QED BY <2>2, <3>1, <4>1, <4>2, SteadyPush
    <3> QED BY <1>2, <1>3, <1>5, <3>5, <3>6, SteadyOn DEF Leads, Pushes
  <2> QED BY <1>2, <2>4, <2>10, <2>11
<1> QED BY <1>4, <1>5

-----------------------------------------------------------------------------
(* Where a thread lies on the C stack.                                        *)

(* A set of numbers that is not empty has a least one.                        *)
LEMMA NatMin ==
  ASSUME NEW S \in SUBSET Nat, S # {}
  PROVE  \E n \in S : \A m \in S : n <= m
<1> DEFINE R == {p \in Nat \X Nat : p[1] < p[2]}
<1>1. IsWellFoundedOn(R, Nat)
  BY NatLessThanWellFounded DEF OpToRel
<1>2. PICK n \in S : \A m \in S : <<m, n>> \notin R
  <2> HIDE DEF R
  <2> QED BY <1>1, WFMin
<1>3. \A m \in S : ~(m < n)
  BY <1>2
<1> QED BY <1>3

(* A set with 0 and every successor has every number.                         *)
LEMMA NatSetInduction ==
  ASSUME NEW S, 0 \in S, \A n \in Nat : n \in S => n + 1 \in S
  PROVE  Nat \subseteq S
<1> SUFFICES ASSUME Nat \ S # {} PROVE FALSE
  OBVIOUS
<1>1. PICK n \in Nat \ S : \A m \in Nat \ S : n <= m
  BY NatMin
<1> QED
  BY <1>1, n - 1 \in Nat

(* Whatever a coroutine calls, it has been resumed.                           *)
LEMMA ResumedBelow ==
  ASSUME NEW cs \in Seq(Act), Stacked(cs), NEW i \in 1 .. Len(cs), cs[i].th \in Coroutines
  PROVE  \E p \in 1 .. i : cs[p].k = "resume" /\ cs[p].th = cs[i].th
<1> DEFINE S == {p \in 1 .. i : cs[p].th = cs[i].th}
<1>1. PICK p \in S : \A q \in S : p <= q
  <2>1. S \in SUBSET Nat /\ i \in S
    OBVIOUS
  <2> HIDE DEF S
  <2> QED BY <2>1, NatMin
<1>2. p # 1
  <2>1. cs[1].th = Main
    BY DEF Stacked
  <2> QED BY <2>1, CallsAssumption
<1>3. p - 1 \in 1 .. i /\ p - 1 \in 1 .. Len(cs) - 1 /\ (p - 1) + 1 = p /\ ~(p <= p - 1)
  BY <1>2
<1>4. Follows(cs[p - 1], cs[p]) /\ cs[p - 1].th # cs[p].th
  <2>1. Follows(cs[p - 1], cs[(p - 1) + 1])
    BY <1>3 DEF Stacked
  <2>2. p - 1 \notin S
    BY <1>1, <1>3
  <2> QED BY <1>3, <2>1, <2>2
<1> QED BY <1>4 DEF Follows

(* The last activation of a thread is innermost, or waits for a coroutine.    *)
LEMMA EndsAbove ==
  ASSUME NEW cs \in Seq(Act), Stacked(cs), NEW i \in 1 .. Len(cs)
  PROVE  \E e \in i .. Len(cs) :
           /\ cs[e].th = cs[i].th /\ Ends(cs, e)
           /\ \A j \in 1 .. Len(cs) : cs[j].th = cs[i].th => j <= e
<1> DEFINE n == Len(cs)
           S == {d \in 0 .. n - i : cs[n - d].th = cs[i].th}
<1>1. PICK d \in S : \A c \in S : d <= c
  <2>1. S \in SUBSET Nat /\ n - i \in S
    <3>1. n - i \in 0 .. n - i /\ n - (n - i) = i
      OBVIOUS
    <3> QED BY <3>1
  <2> HIDE DEF S
  <2> QED BY <2>1, NatMin
<1> DEFINE e == n - d
<1>2. n \in Nat /\ d \in Nat /\ e \in i .. n /\ cs[e].th = cs[i].th
  BY <1>1
<1>3. \A j \in 1 .. n : cs[j].th = cs[i].th => j <= e
  <2> SUFFICES ASSUME NEW j \in 1 .. n, cs[j].th = cs[i].th, ~(j <= e) PROVE FALSE
    OBVIOUS
  <2>1. n - j \in 0 .. n - i /\ n - (n - j) = j /\ ~(d <= n - j)
    BY <1>2
  <2>2. n - j \in S
    BY <2>1
  <2> HIDE DEF S
  <2> QED BY <1>1, <2>1, <2>2
<1> HIDE DEF e, S
<1>4. Ends(cs, e)
  <2>1. CASE e = n
    BY <2>1 DEF Ends
  <2>2. CASE e # n
    <3>1. e + 1 \in 1 .. n /\ e \in 1 .. Len(cs) - 1 /\ ~(e + 1 <= e)
      BY <1>2, <2>2
    <3>2. Follows(cs[e], cs[e + 1]) /\ cs[e + 1].th # cs[i].th
      BY <1>3, <3>1 DEF Stacked
    <3> QED BY <1>2, <3>2 DEF Follows, Ends
  <2> QED BY <2>1, <2>2
<1> QED BY <1>2, <1>3, <1>4

(* A thread that yields has called nothing from C since it was resumed.       *)
LEMMA YieldsInLua ==
  ASSUME NEW t \in [Thread -> Rec], NEW cs \in Seq(Act), NEW lv, Good(t, cs, lv),
         NEW n \in Nat \ {0}, n = Len(cs), cs[n].k \in {"exec", "call"}, Depth(cs, n) <= t[cs[n].th].baseCc
  PROVE  /\ cs[n].k = "exec" /\ cs[n].th \in Coroutines /\ n - 1 \in 1 .. Len(cs)
         /\ cs[n - 1].k = "resume" /\ cs[n - 1].th = cs[n].th
<1>1. n \in 1 .. Len(cs) /\ Stacked(cs) /\ cs # <<>> /\ cs[n].th \in Thread /\ cs[1].th = Main /\ cs[1].k \in {"pcall", "call"}
  <2>1. n \in 1 .. Len(cs) /\ Stacked(cs) /\ cs # <<>> /\ cs[n] \in Act
    BY DEF Good
  <2> QED BY <2>1, ActIs DEF Stacked
<1>2. ASSUME NEW j \in 1 .. n, cs[j].k = "call", cs[j].th = cs[n].th PROVE FALSE
  <2>1. CASE cs[n].th = Main
    <3>1. Depth(cs, 0) < Depth(cs, n) /\ Depth(cs, 0) = 0 /\ Depth(cs, n) \in Nat
      <4>1. 0 \in Nat /\ 0 <= n /\ j \in 0 + 1 .. n /\ cs[j].k \in {"call", "resume"}
        BY <1>2
      <4> QED BY <4>1, DepthRises, DepthStep
    <3>2. t[cs[n].th].baseCc = 0
      BY <2>1 DEF Good, Counted
    <3> QED BY <3>1, <3>2
  <2>2. CASE cs[n].th # Main
    <3>1. PICK p \in 1 .. n : cs[p].k = "resume" /\ cs[p].th = cs[n].th
      BY <1>1, <2>2, ResumedBelow DEF Thread
    <3>2. p < j
      <4> SUFFICES ASSUME j < p PROVE FALSE
        <5>1. p # j
          BY <1>2, <3>1
        <5> QED BY <5>1
      <4>1. j \in 1 .. Len(cs) /\ p \in 1 .. Len(cs) /\ cs[j].th = cs[p].th /\ p \in j + 1 .. p
        BY <1>2, <3>1
      <4> QED BY <1>1, <3>1, <4>1 DEF Stacked
    <3>3. Depth(cs, p) < Depth(cs, n) /\ Depth(cs, p) \in Nat /\ Depth(cs, n) \in Nat
      <4>1. p \in Nat /\ p <= n /\ j \in p + 1 .. n /\ cs[j].k \in {"call", "resume"}
        BY <1>2, <3>2
      <4> QED BY <4>1, DepthRises, DepthStep
    <3>4. t[cs[n].th].baseCc = Depth(cs, p)
      <4>1. p \in 1 .. Len(cs)
        OBVIOUS
      <4> QED BY <3>1, <4>1 DEF Good, Counted
    <3> QED BY <3>3, <3>4
  <2> QED BY <2>1, <2>2
<1>3. cs[n].k = "exec"
  <2>1. n \in 1 .. n
    OBVIOUS
  <2> QED BY <1>2, <2>1
<1>4. n # 1
  BY <1>1, <1>3
<1>5. n - 1 \in 1 .. Len(cs) /\ n - 1 \in 1 .. n /\ n - 1 \in 1 .. Len(cs) - 1 /\ (n - 1) + 1 = n
  BY <1>4
<1>6. Follows(cs[n - 1], cs[n])
  <2>1. Follows(cs[n - 1], cs[(n - 1) + 1])
    BY <1>1, <1>5 DEF Stacked
  <2> QED BY <1>5, <2>1
<1>7. cs[n - 1].th = cs[n].th /\ cs[n - 1].k \in {"resume", "call"}
  BY <1>3, <1>6 DEF Follows, Nested
<1>8. cs[n - 1].k = "resume"
  BY <1>2, <1>5, <1>7
<1>9. cs[n - 1].th \in Coroutines
  BY <1>5, <1>8, Resumer
<1> QED BY <1>3, <1>5, <1>7, <1>8, <1>9

-----------------------------------------------------------------------------
(* Returns, yields and errors within a thread.                                *)

(* A step that cuts the C stack off within the innermost thread.              *)
LEMMA SteadyCut ==
  ASSUME NEW x, NEW y, x.cs \in Seq(Act), NEW n \in Nat \ {0}, n = Len(x.cs), NEW m \in 1 .. n,
         \A i \in m .. n : x.cs[i].th = L(x), \A i \in m + 1 .. n : x.cs[i].k # "resume",
         y.cs = SubSeq(x.cs, 1, m), y.may = x.may, y.out = x.out,
         T(y).made = T(x).made, T(y).fresh = T(x).fresh,
         \A th \in Thread \ {L(x)} : Look(y.t[th]) = Look(x.t[th])
  PROVE  Steady(x, y)
<1>1. y.cs # <<>> /\ Len(y.cs) = m /\ \A i \in 1 .. m : y.cs[i] = x.cs[i]
  OBVIOUS
<1>2. L(y) = L(x)
  <2>1. m \in 1 .. m /\ m \in m .. n
    OBVIOUS
  <2>2. L(y) = x.cs[m].th
    BY <1>1, <2>1 DEF L, Last
  <2> QED BY <2>1, <2>2
<1>3. On(y.cs) = On(x.cs)
  <2>1. \A i \in 1 .. n : x.cs[i].th \in {y.cs[j].th : j \in 1 .. m}
    <3> TAKE i \in 1 .. n
    <3>1. CASE i <= m
      <4>1. i \in 1 .. m /\ y.cs[i].th = x.cs[i].th
        BY <1>1, <3>1
      <4> QED BY <4>1
    <3>2. CASE ~(i <= m)
      <4>1. i \in m .. n /\ m \in m .. n /\ m \in 1 .. m
        BY <3>2
      <4>2. y.cs[m].th = x.cs[i].th
        BY <1>1, <4>1
      <4> QED BY <4>1, <4>2
    <3> QED BY <3>1, <3>2
  <2>2. \A i \in 1 .. m : y.cs[i].th \in {x.cs[j].th : j \in 1 .. n}
    <3> TAKE i \in 1 .. m
    <3>1. i \in 1 .. n /\ y.cs[i].th = x.cs[i].th
      BY <1>1
    <3> QED BY <3>1
  <2> QED BY <1>1, <2>1, <2>2 DEF On
<1>4. Resumed(y.cs) = Resumed(x.cs)
  <2> DEFINE J == {j \in 2 .. m : y.cs[j].k = "resume"}
  <2>1. {j \in 2 .. n : x.cs[j].k = "resume"} = J
    <3>1. ASSUME NEW j \in 2 .. n, x.cs[j].k = "resume" PROVE j \in 2 .. m /\ y.cs[j].k = "resume"
      <4>1. ~(j \in m + 1 .. n)
        BY <3>1
      <4>2. j \in 2 .. m /\ j \in 1 .. m
        BY <4>1
      <4> QED BY <1>1, <3>1, <4>2
    <3>2. ASSUME NEW j \in 2 .. m, y.cs[j].k = "resume" PROVE j \in 2 .. n /\ x.cs[j].k = "resume"
      <4>1. j \in 2 .. n /\ j \in 1 .. m
        OBVIOUS
      <4> QED BY <1>1, <3>2, <4>1
    <3> QED BY <3>1, <3>2
  <2>2. \A j \in 2 .. m : y.cs[j] = x.cs[j] /\ y.cs[j - 1] = x.cs[j - 1]
    <3> TAKE j \in 2 .. m
    <3>1. j \in 1 .. m /\ j - 1 \in 1 .. m
      OBVIOUS
    <3> QED BY <1>1, <3>1
  <2>3. Resumed(x.cs) = {<<x.cs[i - 1].th, x.cs[i].th>> : i \in J}
    BY <2>1 DEF Resumed
  <2>4. Resumed(y.cs) = {<<y.cs[i - 1].th, y.cs[i].th>> : i \in J}
    BY <1>1 DEF Resumed
  <2>5. {<<y.cs[i - 1].th, y.cs[i].th>> : i \in J} = {<<x.cs[i - 1].th, x.cs[i].th>> : i \in J}
    <3>1. \A i \in J : <<y.cs[i - 1].th, y.cs[i].th>> = <<x.cs[i - 1].th, x.cs[i].th>>
      BY <2>2
    <3> HIDE DEF J
    <3> QED BY <3>1
  <2> QED BY <2>3, <2>4, <2>5
<1> QED BY <1>1, <1>2, <1>3, <1>4 DEF Steady

(* The innermost thread goes on in activation m.                              *)
Cuts(x, lw, r, m, y) ==
  /\ Runs(y, lw) /\ Steady(x, y) /\ y.cs = SubSeq(x.cs, 1, m) /\ L(y) = L(x) /\ T(y) = r
  /\ \A th \in Thread \ {L(x)} : y.t[th] = x.t[th]

(* The calls above m return or are left.                                      *)
LEMMA CutHolds ==
  ASSUME NEW x, NEW lv, Holds(x, lv), T(x).status = "ok", NEW n, n = Len(x.cs), NEW m \in 1 .. n,
         \A i \in m .. n : x.cs[i].th = L(x), \A i \in m + 1 .. n : x.cs[i].k # "resume",
         NEW r \in Rec, Alike(r, T(x)), Sized(r), Top(x.cs, lv, m) <= Len(r.ci),
         \A j \in 1 .. Top(x.cs, lv, m) : r.ci[j] = T(x).ci[j],
         \A j \in Top(x.cs, lv, m) + 1 .. Len(r.ci) : r.ci[j] # "lua",
         x.cs[m].k = "resume" => Len(r.ci) = 1,
         r.ncc = Depth(x.cs, m), r.ncc < MaxCcalls + Spare,
         Unprotected(x.cs, L(x), m) => r.errfunc = None,
         NEW y, y = Goes(x, L(x), r, SubSeq(x.cs, 1, m), "no")
  PROVE  Cuts(x, SubSeq(lv, 1, m), r, m, y)
<1> DEFINE ds == SubSeq(x.cs, 1, m)
           lw == SubSeq(lv, 1, m)
<1>1. /\ x \in World /\ x.t \in [Thread -> Rec] /\ x.cs \in Seq(Act) /\ Good(x.t, x.cs, lv) /\ x.out = "running"
      /\ x.cs # <<>>
  BY DEF Holds, World
<1>2. n \in Nat \ {0} /\ L(x) \in Thread /\ T(x) = x.t[L(x)]
  BY <1>1, LastIs
<1>3. m \in Nat \ {0} /\ x.cs[m].th = L(x) /\ m \in m .. n
  BY <1>2
<1>4. Good([x.t EXCEPT ![L(x)] = r], ds, lw)
  <2>1. \A i \in m + 1 .. Len(x.cs) : x.cs[i].th = L(x) /\ x.cs[i].k # "resume"
    <3> TAKE i \in m + 1 .. Len(x.cs)
    <3>1. i \in m .. n /\ i \in m + 1 .. n
      BY <1>2
    <3> QED BY <3>1
  <2>2. /\ x.t[L(x)].status = "ok" /\ Alike(r, x.t[L(x)])
        /\ \A j \in 1 .. Top(x.cs, lv, m) : r.ci[j] = x.t[L(x)].ci[j]
    BY <1>2
  <2> QED BY <1>1, <1>2, <1>3, <2>1, <2>2, CutKeeps
<1>5. ds \in Seq(Act) /\ ds # <<>>
  BY <1>1, <1>2
<1>6. Went(x, L(x), r, ds, "no", y)
  BY <1>1, <1>2, <1>5, GoesIs
<1>7. L(y) = L(x) /\ T(y) = r
  <2>1. Len(ds) = m /\ ds[m] = x.cs[m]
    BY <1>1, <1>2, <1>3
  <2> HIDE DEF ds
  <2>2. L(y) = L(x)
    BY <1>3, <1>6, <2>1 DEF Went, L, Last
  <2> QED BY <1>6, <2>2 DEF Went, T
<1>8. Steady(x, y)
  <2>1. /\ y.cs = SubSeq(x.cs, 1, m) /\ y.may = x.may /\ y.out = x.out /\ T(y).made = T(x).made /\ T(y).fresh = T(x).fresh
        /\ \A th \in Thread \ {L(x)} : Look(y.t[th]) = Look(x.t[th])
    <3> HIDE DEF ds
    <3>1. y.cs = ds /\ y.may = x.may /\ y.out = x.out /\ T(y).made = T(x).made /\ T(y).fresh = T(x).fresh
          /\ \A th \in Thread \ {L(x)} : Look(y.t[th]) = Look(x.t[th])
      BY <1>6, <1>7 DEF Went, Alike
    <3> QED BY <3>1 DEF ds
  <2> QED BY <1>1, <1>2, <2>1, SteadyCut
<1> HIDE DEF ds, lw
<1>9. Limits(y)
  BY <1>6, <1>7 DEF Limits, Went
<1>10. Runs(y, lw)
  BY <1>1, <1>4, <1>5, <1>6, <1>7, <1>9 DEF Runs, Holds, Went, Alike
<1> QED BY <1>6, <1>7, <1>8, <1>10 DEF Cuts, Went, ds, lw

(* What a C function leads to, once it has entered its frame.                 *)

(* coroutine.yield: control goes back to lua_resume, or it is an error.       *)
LEMMA LuaYieldHolds ==
  ASSUME NEW x, NEW lv, Runs(x, lv), Last(x.cs).k \in {"exec", "call"}, Above(x, lv),
         Last(x.cs).k = "exec" => Top(x.cs, lv, Len(x.cs)) + 1 = Len(T(x).ci)
  PROVE  Leads(x, LuaYield(x))
<1> DEFINE n == Len(x.cs)
           y == Pop([x EXCEPT !.t[L(x)].status = "yield"])
<1>1. /\ x \in World /\ x.cs # <<>> /\ x.raised = "no" /\ T(x).status = "ok" /\ Holds(x, lv) /\ x.cs \in Seq(Act)
      /\ Good(x.t, x.cs, lv) /\ x.t \in [Thread -> Rec]
  BY DEF Runs, Holds, World
<1>2. Stands(x, lv, n)
  BY <1>1, Standing
<1>3. /\ n \in Nat \ {0} /\ n \in 1 .. n /\ x.cs[n].th = L(x) /\ L(x) \in Thread /\ T(x) = x.t[L(x)] /\ T(x) \in Rec
      /\ x.cs[n] = Last(x.cs) /\ T(x).ncc = Depth(x.cs, n) /\ x.cs[n] \in Act
  BY <1>2 DEF Stands
<1>4. CASE T(x).ncc > T(x).baseCc
  <2>1. LuaYield(x) = Raise(x, "error")
    BY <1>4 DEF LuaYield
  <2> DEFINE z == Raise(x, "error")
  <2>2. Holds(z, lv) /\ z.cs = x.cs /\ z.may = x.may /\ z.t = x.t /\ z.out = x.out
    <3>1. z.out = x.out
      BY <1>1 DEF Raise, World
    <3> QED BY <3>1, RaiseHolds
  <2> HIDE DEF z
  <2>3. Steady(x, z)
    <3>1. T(z) = T(x)
      BY <2>2 DEF T, L
    <3> QED BY <1>1, <2>2, <3>1, SteadyHere
  <2> QED BY <2>1, <2>2, <2>3 DEF Leads, z
<1>5. CASE ~(T(x).ncc > T(x).baseCc)
  <2>1. Depth(x.cs, n) <= x.t[x.cs[n].th].baseCc
    <3>1. T(x).ncc \in Nat /\ T(x).baseCc \in Nat
      BY <1>3, RecIs
    <3> QED BY <1>3, <1>5, <3>1
  <2>2. /\ x.cs[n].k = "exec" /\ L(x) \in Coroutines /\ n - 1 \in 1 .. n
        /\ x.cs[n - 1].k = "resume" /\ x.cs[n - 1].th = L(x)
    BY <1>1, <1>3, <2>1, YieldsInLua
  <2>3. LuaYield(x) = y
    BY <1>3, <1>5, <2>2 DEF LuaYield, World
  <2> DEFINE m == n - 1
             r == [T(x) EXCEPT !.status = "yield"]
             q == [T(x) EXCEPT !.ci = <<T(x).ci[1]>>]
             ds == SubSeq(x.cs, 1, m)
             lw == SubSeq(lv, 1, m)
  <2>4. /\ lv[n] = 1 /\ m \in Nat \ {0} /\ m \in 1 .. Len(x.cs) - 1 /\ m + 1 = n
        /\ \A j \in 2 .. Top(x.cs, lv, n) : T(x).ci[j] = "lua"
        /\ T(x).ci[1] # "lua" /\ Top(x.cs, lv, m) = 1 /\ lv[m] = 1
    <3>1. /\ m \in Nat \ {0} /\ m \in 1 .. Len(x.cs) - 1 /\ m + 1 = n /\ m \in 1 .. Len(x.cs)
      BY <1>3, <2>2
    <3>2. Nests(x.t, x.cs, lv, m) /\ Placed(x.t, x.cs, lv, m)
      BY <1>1, <3>1 DEF Good, Levels
    <3>3. lv[n] = 1
      BY <2>2, <3>1, <3>2 DEF Nests
    <3>4. lv[m] = 1 /\ T(x).ci[1] # "lua"
      BY <1>3, <2>2, <3>2 DEF Placed
    <3>5. Top(x.cs, lv, m) = 1
      BY <2>2, <3>4 DEF Top, Own
    <3>6. \A j \in 2 .. Top(x.cs, lv, n) : T(x).ci[j] = "lua"
      BY <1>2, <3>3 DEF Stands
    <3> QED BY <3>1, <3>3, <3>4, <3>5, <3>6
  <2>5. /\ Len(T(x).ci) >= 3 /\ T(x).ci \in Seq(Frame) /\ Len(T(x).ci) \in Nat
        /\ T(x).ci[Len(T(x).ci)] # "lua" /\ Top(x.cs, lv, n) = Len(T(x).ci) - 1
    <3>1. Own(x.cs[n]) \in Nat \ {0}
      BY <1>3, <2>2, ActIs
    <3>2. Top(x.cs, lv, n) \in Nat /\ Top(x.cs, lv, n) >= 2
      BY <1>2, <2>4, <3>1 DEF Stands
    <3>3. Top(x.cs, lv, n) < Len(T(x).ci)
      BY DEF Above
    <3>4. /\ T(x).ci \in Seq(Frame) /\ Len(T(x).ci) \in Nat
          /\ \A j \in Top(x.cs, lv, n) + 1 .. Len(T(x).ci) : T(x).ci[j] # "lua"
      BY <1>2 DEF Stands
    <3>5. Len(T(x).ci) \in Top(x.cs, lv, n) + 1 .. Len(T(x).ci)
      BY <3>2, <3>3, <3>4
    <3>6. Top(x.cs, lv, n) + 1 = Len(T(x).ci)
      BY <1>3, <2>2
    <3> QED BY <3>2, <3>3, <3>4, <3>5, <3>6
  <2>6. /\ r \in Rec /\ r.ci = T(x).ci /\ r.ncc = T(x).ncc /\ r.baseCc = T(x).baseCc /\ r.status = "yield"
        /\ r.errfunc = T(x).errfunc /\ r.made = T(x).made /\ r.fresh = T(x).fresh /\ r.size = T(x).size
        /\ q \in Rec /\ Len(q.ci) = 1 /\ q.ci[1] = T(x).ci[1] /\ q.ncc = T(x).ncc /\ q.baseCc = T(x).baseCc
        /\ q.errfunc = T(x).errfunc /\ q.size = T(x).size /\ Alike(q, T(x))
    <3>1. r \in Rec
      BY <1>3 DEF Rec
    <3>2. <<T(x).ci[1]>> \in Seq(Frame)
      BY <2>5
    <3>3. q \in Rec
      BY <1>3, <3>2 DEF Rec
    <3> QED BY <1>3, <3>1, <3>3 DEF Rec, Alike
  <2> HIDE DEF r, q, m
  <2>7. \A i \in 1 .. m - 1 : x.cs[i].th # L(x)
    <3>1. m \in 1 .. Len(x.cs) /\ x.cs[m].k = "resume" /\ x.cs[m].th = L(x)
      BY <2>2, <2>4 DEF m
    <3> QED BY <1>1, <3>1, Resumer
  <2>8. Unprotected(x.cs, L(x), n) /\ Unprotected(x.cs, L(x), m)
    <3> SUFFICES ASSUME NEW j \in 1 .. n, x.cs[j].th = L(x) PROVE x.cs[j].k # "pcall"
      BY <2>4 DEF Unprotected
    <3>1. j = n \/ j = m
      <4>1. ~(j \in 1 .. m - 1)
        BY <2>7
      <4> QED BY <2>4, <4>1
    <3> QED BY <2>2, <3>1 DEF m
  <2>9. Suspended(r) /\ Sized(r) /\ Sized(q)
    <3>1. T(x).made /\ ~T(x).fresh
      BY <1>1, <1>3 DEF Good, Awake
    <3>2. r.errfunc = None
      BY <1>2, <2>6, <2>8 DEF Stands
    <3>3. Sized(T(x)) /\ T(x).size \in Nat
      BY <1>2 DEF Stands
    <3>4. Sized(r) /\ Sized(q)
      BY <2>5, <2>6, <3>3, CallsAssumption DEF Sized
    <3> QED BY <2>4, <2>5, <2>6, <3>1, <3>2, <3>4 DEF Suspended
  <2>10. Depth(x.cs, m) = Depth(x.cs, n)
    <3>1. Depth(x.cs, m + 1) = Depth(x.cs, m) + (IF x.cs[m + 1].k \in {"call", "resume"} THEN 1 ELSE 0) /\ Depth(x.cs, m) \in Nat
      BY <2>4, DepthStep
    <3> QED BY <2>2, <2>4, <3>1
  <2>11. Good([x.t EXCEPT ![L(x)] = q], ds, lw)
    <3>1. \A i \in m + 1 .. Len(x.cs) : x.cs[i].th = L(x) /\ x.cs[i].k # "resume"
      <4>1. \A i \in m + 1 .. Len(x.cs) : i = n
        BY <1>3, <2>4
      <4> QED BY <1>3, <2>2, <4>1
    <3>2. x.t[L(x)].status = "ok" /\ Alike(q, x.t[L(x)]) /\ x.cs[m].th = L(x) /\ m \in 1 .. Len(x.cs)
      BY <1>1, <1>3, <2>2, <2>4, <2>6 DEF m
    <3>3. /\ Top(x.cs, lv, m) <= Len(q.ci)
          /\ \A j \in 1 .. Top(x.cs, lv, m) : q.ci[j] = x.t[L(x)].ci[j]
          /\ \A j \in Top(x.cs, lv, m) + 1 .. Len(q.ci) : q.ci[j] # "lua"
      BY <1>3, <2>4, <2>6
    <3>4. q.ncc = Depth(x.cs, m) /\ (Unprotected(x.cs, L(x), m) => q.errfunc = None)
      BY <1>2, <1>3, <2>6, <2>8, <2>10 DEF Stands
    <3> HIDE DEF n
    <3> QED BY <1>1, <1>3, <2>6, <2>9, <3>1, <3>2, <3>3, <3>4, CutKeeps
  <2>12. ds \in Seq(Act) /\ Len(ds) = m /\ ds[m] = x.cs[m] /\ ds # <<>>
    BY <1>1, <1>3, <2>4
  <2>13. Good([x.t EXCEPT ![L(x)] = r], ds, lw)
    <3> DEFINE u == [x.t EXCEPT ![L(x)] = q]
    <3>1. u \in [Thread -> Rec] /\ u[L(x)] = q /\ [u EXCEPT ![L(x)] = r] = [x.t EXCEPT ![L(x)] = r]
      BY <1>1, <1>3, <2>6
    <3>2. ds[m].k = "resume" /\ ds[m].th = L(x)
      BY <2>2, <2>12 DEF m
    <3>3. r.ncc = u[L(x)].ncc /\ r.baseCc = u[L(x)].baseCc
      BY <2>6, <3>1
    <3>4. Good(u, ds, lw)
      BY <2>11
    <3> HIDE DEF u, ds, lw
    <3>5. Good([u EXCEPT ![L(x)] = r], ds, lw)
      BY <2>4, <2>6, <2>9, <2>12, <3>1, <3>2, <3>3, <3>4, YieldKeeps
    <3> QED BY <3>1, <3>5
  <2> HIDE DEF lw
  <2>14. y = Goes(x, L(x), r, ds, "no")
    <3>1. Front(x.cs) = ds
      BY <1>3 DEF Front, m
    <3> HIDE DEF ds
    <3> QED BY <1>1, <1>3, <3>1 DEF Goes, Pop, World, r
  <2> HIDE DEF y
  <2>15. Went(x, L(x), r, ds, "no", y)
    BY <1>1, <1>3, <2>6, <2>12, <2>14, GoesIs
  <2>16. Steady(x, y)
    <3>1. L(y) = L(x)
      <4>1. L(y) = ds[m].th
        BY <2>12, <2>15 DEF Went, L, Last
      <4> QED BY <2>2, <2>12, <4>1 DEF m
    <3>2. /\ y.cs = SubSeq(x.cs, 1, m) /\ y.may = x.may /\ y.out = x.out /\ T(y).made = T(x).made /\ T(y).fresh = T(x).fresh
          /\ \A th \in Thread \ {L(x)} : Look(y.t[th]) = Look(x.t[th])
      BY <1>3, <2>6, <2>15, <3>1 DEF Went, T
    <3>3. \A i \in m .. n : x.cs[i].th = L(x)
      <4>1. \A i \in m .. n : i = m \/ i = n
        BY <1>3, <2>4
      <4> QED BY <1>3, <2>2, <4>1 DEF m
    <3>4. \A i \in m + 1 .. n : x.cs[i].k # "resume"
      <4>1. \A i \in m + 1 .. n : i = n
        BY <1>3, <2>4
      <4> QED BY <2>2, <4>1
    <3>5. m \in 1 .. n
      BY <2>2 DEF m
    <3> HIDE DEF n, ds
    <3>6. n = Len(x.cs)
      BY DEF n
    <3> QED BY <1>1, <1>3, <3>2, <3>3, <3>4, <3>5, <3>6, SteadyCut
  <2>17. Limits(y)
    <3>1. T(y).ncc = T(x).ncc /\ y.raised = "no"
      BY <2>6, <2>15, <2>16 DEF Went, Steady, T
    <3> QED BY <1>1, <3>1 DEF Holds, Limits
  <2>18. Holds(y, lw)
    BY <1>1, <2>12, <2>13, <2>15, <2>17 DEF Holds, Went
  <2> QED BY <2>3, <2>16, <2>18 DEF Leads, y
<1> QED BY <1>4, <1>5

-----------------------------------------------------------------------------
(* The coroutines a program sees.                                             *)

Running(x) == IF x.cs = <<>> THEN Main ELSE L(x)
StateIn(x, c) == IF x.t[c].made THEN CoStatus(x, Running(x), c) ELSE "none"
Waits(x, c) == IF \E r \in Thread : <<r, c>> \in Resumed(x.cs)
               THEN CHOOSE r \in Thread : <<r, c>> \in Resumed(x.cs) ELSE Main
BegunIn(x) == {c \in Thread : x.t[c].made /\ c # Main /\ ~x.t[c].fresh}
View(x) == [state |-> [c \in Thread |-> StateIn(x, c)], resumer |-> [c \in Thread |-> Waits(x, c)],
            begun |-> BegunIn(x)]

(* What may become of them in a step.                                         *)
Creates(v, c, w) ==
  /\ v.state[c] = "none"
  /\ w = [state |-> [v.state EXCEPT ![c] = "suspended"], resumer |-> v.resumer, begun |-> v.begun]
Starts(v, r, c, w) ==
  /\ v.state[r] = "running" /\ v.state[c] = "suspended"
  /\ w = [state |-> [v.state EXCEPT ![r] = "normal", ![c] = "running"],
          resumer |-> [v.resumer EXCEPT ![c] = r], begun |-> v.begun \cup {c}]
Leaves(v, c, as, w) ==
  /\ v.state[c] = "running" /\ c # Main /\ v.state[v.resumer[c]] = "normal"
  /\ w = [state |-> [v.state EXCEPT ![c] = as, ![v.resumer[c]] = "running"],
          resumer |-> [v.resumer EXCEPT ![c] = Main], begun |-> v.begun]
Loses(v, c, w) ==
  /\ v.state[c] = "suspended" /\ c \notin v.begun
  /\ w = [state |-> [v.state EXCEPT ![c] = "dead"], resumer |-> v.resumer, begun |-> v.begun \cup {c}]
MayTurn(v, w) ==
  \/ v = w
  \/ \E c \in Thread : \/ Creates(v, c, w) \/ Loses(v, c, w)
                       \/ \E r \in Thread : Starts(v, r, c, w)
                       \/ \E as \in {"suspended", "dead"} : Leaves(v, c, as, w)
Proceeds(x, y) == (\E lw : Holds(y, lw)) /\ MayTurn(View(x), View(y))

(* A thread that waits on the C stack called a C function, and the others     *)
(* are told by their own state.                                               *)
Rest(k) ==
  IF ~k.made THEN "none" ELSE IF k.status = "yield" THEN "suspended" ELSE IF k.status = "err" THEN "dead"
  ELSE IF k.called THEN "normal" ELSE IF k.fresh THEN "suspended" ELSE "dead"
Shows(x) ==
  /\ L(x) \in Thread /\ L(x) \in On(x.cs)
  /\ \A c \in Thread : StateIn(x, c) = IF c = L(x) THEN "running" ELSE IF c \in On(x.cs) THEN "normal" ELSE Rest(Look(x.t[c]))
  /\ \A c \in On(x.cs) : c \in Thread /\ x.t[c].made /\ ~x.t[c].fresh

(* So it is in any state that holds. *)
LEMMA Showing ==
  ASSUME NEW x, NEW lv, Holds(x, lv)
  PROVE  Shows(x)
<1>1. /\ x \in World /\ x.cs # <<>> /\ x.cs \in Seq(Act) /\ Good(x.t, x.cs, lv) /\ Stacked(x.cs)
      /\ x.t \in [Thread -> Rec]
  BY DEF Holds, World, Good
<1>2. /\ Len(x.cs) \in Nat \ {0} /\ Len(x.cs) \in 1 .. Len(x.cs) /\ L(x) \in Thread /\ L(x) = x.cs[Len(x.cs)].th
      /\ \A i \in 1 .. Len(x.cs) : x.cs[i] \in Act
  <2>1. Len(x.cs) \in Nat \ {0} /\ L(x) \in Thread /\ L(x) = x.cs[Len(x.cs)].th
        /\ \A i \in 1 .. Len(x.cs) : x.cs[i] \in Act
    BY <1>1, LastIs
  <2> QED BY <2>1
<1>3. L(x) \in On(x.cs) /\ Running(x) = L(x)
  BY <1>1, <1>2 DEF On, Running
<1>4. ASSUME NEW i \in 1 .. Len(x.cs)
      PROVE  LET c == x.cs[i].th
             IN  c \in Thread /\ x.t[c].made /\ ~x.t[c].fresh /\ (c # L(x) => x.t[c].status = "ok" /\ Len(x.t[c].ci) > 1)
  <2> DEFINE c == x.cs[i].th
  <2>1. c \in Thread /\ x.t[c].made /\ ~x.t[c].fresh
    <3>1. x.t[c].made /\ ~x.t[c].fresh
      BY <1>1 DEF Good, Awake
    <3>2. x.cs[i] \in Act
      BY <1>2
    <3> QED BY <3>1, <3>2, ActIs
  <2>2. ASSUME c # L(x) PROVE x.t[c].status = "ok" /\ Len(x.t[c].ci) > 1
    <3>1. PICK e \in i .. Len(x.cs) : x.cs[e].th = c /\ Ends(x.cs, e)
      BY <1>1, EndsAbove
    <3>2. e # Len(x.cs) /\ e \in 1 .. Len(x.cs) /\ e < Len(x.cs)
      <4>1. e # Len(x.cs)
        BY <1>2, <2>2, <3>1
      <4>2. Len(x.cs) \in Nat
        BY <1>2
      <4> QED BY <4>1, <4>2
    <3>3. x.t[c].status = "ok"
      BY <1>1, <3>1, <3>2 DEF Good, Awake
    <3>4. Closes(x.t, x.cs, lv, e)
      BY <1>1, <3>2 DEF Good, Levels
    <3>5. Top(x.cs, lv, e) < Len(x.t[c].ci)
      BY <3>1, <3>2, <3>3, <3>4 DEF Closes
    <3>6. Top(x.cs, lv, e) \in Nat /\ lv[e] \in Nat /\ lv[e] <= Top(x.cs, lv, e)
      BY <1>1, <3>2, Below
    <3>7. 1 <= lv[e]
      BY <1>1, <3>2 DEF Good, Levels, Placed
    <3>8. Len(x.t[c].ci) \in Nat
      BY <1>1, <2>1 DEF Rec
    <3> HIDE DEF c
    <3> QED BY <3>3, <3>5, <3>6, <3>7, <3>8
  <2> QED BY <2>1, <2>2
<1>5. \A c \in On(x.cs) : c \in Thread /\ x.t[c].made /\ ~x.t[c].fresh /\ (c # L(x) => x.t[c].status = "ok" /\ Len(x.t[c].ci) > 1)
  BY <1>4 DEF On
<1>6. \A c \in Thread : StateIn(x, c) = IF c = L(x) THEN "running" ELSE IF c \in On(x.cs) THEN "normal" ELSE Rest(Look(x.t[c]))
  <2> TAKE c \in Thread
  <2>1. CASE c = L(x)
    <3>1. x.t[c].made
      BY <1>3, <1>5, <2>1
    <3> QED BY <1>3, <2>1, <3>1 DEF StateIn, CoStatus
  <2>2. CASE c # L(x) /\ c \in On(x.cs)
    <3>1. x.t[c].made /\ x.t[c].status = "ok" /\ Len(x.t[c].ci) > 1
      BY <1>5, <2>2
    <3> QED BY <1>3, <2>2, <3>1 DEF StateIn, CoStatus
  <2>3. CASE c \notin On(x.cs)
    <3>1. c # L(x)
      BY <1>3, <2>3
    <3>2. x.t[c].status \in {"ok", "yield", "err"}
      BY <1>1 DEF Rec
    <3> QED BY <1>3, <2>3, <3>1, <3>2 DEF StateIn, CoStatus, Rest, Look
  <2> QED BY <2>1, <2>2, <2>3
<1> QED BY <1>2, <1>3, <1>5, <1>6 DEF Shows

(* A program sees nothing of a step within a thread. *)
LEMMA SteadyView ==
  ASSUME NEW x, NEW lv, Holds(x, lv), NEW y, NEW lw, Holds(y, lw), Steady(x, y)
  PROVE  View(x) = View(y)
<1>1. Shows(x) /\ Shows(y)
  BY Showing
<1>2. \A c \in Thread : StateIn(x, c) = StateIn(y, c)
  <2> TAKE c \in Thread
  <2>1. CASE c = L(x)
    BY <1>1, <2>1 DEF Shows, Steady
  <2>2. CASE c # L(x)
    <3>1. Look(y.t[c]) = Look(x.t[c])
      BY <2>2 DEF Steady
    <3> QED BY <1>1, <2>2, <3>1 DEF Shows, Steady
  <2> QED BY <2>1, <2>2
<1>3. \A c \in Thread : Waits(x, c) = Waits(y, c)
  BY DEF Waits, Steady
<1>4. BegunIn(x) = BegunIn(y)
  <2>1. ASSUME NEW c \in Thread PROVE x.t[c].made = y.t[c].made /\ x.t[c].fresh = y.t[c].fresh
    <3>1. CASE c = L(x)
      BY <3>1 DEF Steady, T
    <3>2. CASE c # L(x)
      <4>1. Look(y.t[c]) = Look(x.t[c])
        BY <3>2 DEF Steady
      <4> QED BY <4>1 DEF Look
    <3> QED BY <3>1, <3>2
  <2> QED BY <2>1 DEF BegunIn
<1> QED BY <1>2, <1>3, <1>4 DEF View

(* Steps within a thread may come before a step between threads, or after. *)
LEMMA LeadsOn ==
  ASSUME NEW x, NEW lv, Holds(x, lv), NEW y, Leads(x, y)
  PROVE  /\ Proceeds(x, y)
         /\ \A z : Proceeds(y, z) => Proceeds(x, z)
<1>1. PICK lw : Holds(y, lw)
  BY DEF Leads
<1>2. View(x) = View(y)
  BY <1>1, SteadyView DEF Leads
<1> QED BY <1>1, <1>2 DEF Proceeds, MayTurn

-----------------------------------------------------------------------------
(* Coroutines that do not run, and their creation, loss and start.            *)

(* The return of a C function leads on. *)
LEMMA PosCallLeads ==
  ASSUME NEW x, NEW lv, Runs(x, lv), Last(x.cs).k \in {"exec", "call"}, Above(x, lv)
  PROVE  Leads(x, PosCall(x))
<1> DEFINE z == PosCall(x)
<1>1. x \in World /\ x.cs # <<>>
  BY DEF Runs, Holds
<1>2. Returns(x, lv, z)
  BY PosCallHolds
<1> HIDE DEF z
<1>3. T(z).made = T(x).made /\ T(z).fresh = T(x).fresh
  <2>1. T(x) \in Rec
    BY <1>1, LastIs
  <2> QED BY <1>2, <2>1 DEF Returns, Rec
<1>4. Steady(x, z)
  BY <1>1, <1>2, <1>3, SteadyHere DEF Returns
<1> QED BY <1>2, <1>4 DEF Leads, Returns, Runs, z

(* A resume or wrap that cannot be done returns false, or is an error. *)
LEMMA RefuseHolds ==
  ASSUME NEW x, NEW lv, Runs(x, lv), Last(x.cs).k \in {"exec", "call"}, Above(x, lv)
  PROVE  Leads(x, Refuse(x))
<1>1. x \in World /\ x.cs # <<>> /\ Holds(x, lv)
  BY DEF Runs, Holds
<1>2. Leads(x, Raise(x, "error"))
  <2> DEFINE z == Raise(x, "error")
  <2>1. z.out = x.out
    BY <1>1 DEF Raise, World
  <2>2. Holds(z, lv) /\ z.cs = x.cs /\ z.may = x.may /\ z.t = x.t
    BY RaiseHolds
  <2> HIDE DEF z
  <2>3. T(z) = T(x)
    BY <2>2 DEF T, L
  <2>4. Steady(x, z)
    BY <1>1, <2>1, <2>2, <2>3, SteadyHere
  <2> QED BY <2>2, <2>4 DEF Leads, z
<1>3. Leads(x, PosCall(x))
  BY PosCallLeads
<1> QED BY <1>2, <1>3 DEF Refuse

(* The coroutine c, which is not on the C stack, becomes q.                   *)
Idles(x, lv, c, q, y) ==
  /\ Runs(y, lv) /\ y.cs = x.cs /\ L(y) = L(x) /\ T(y) = T(x)
  /\ y.t[c] = q /\ \A d \in Thread \ {c} : y.t[d] = x.t[d]

(* The rest goes on as before. *)
LEMMA IdleHolds ==
  ASSUME NEW x, NEW lv, Runs(x, lv), NEW c \in Coroutines, c \notin On(x.cs),
         NEW q \in Rec, Sized(q), Resting(q), NEW y, y = Set(x, c, q)
  PROVE  Idles(x, lv, c, q, y)
<1>1. /\ x \in World /\ x.cs # <<>> /\ x.cs \in Seq(Act) /\ Good(x.t, x.cs, lv) /\ x.t \in [Thread -> Rec]
      /\ Holds(x, lv) /\ x.raised = "no"
  BY DEF Runs, Holds, World
<1>2. c \in Thread /\ L(x) # c /\ L(x) \in Thread
  <2>1. L(x) \in On(x.cs) /\ L(x) \in Thread
    BY <1>1, Showing DEF Shows
  <2> QED BY <2>1 DEF Thread
<1>3. y = Goes(x, c, q, x.cs, "no")
  BY <1>1 DEF Set, Goes, World
<1>4. Went(x, c, q, x.cs, "no", y)
  BY <1>1, <1>2, <1>3, GoesIs
<1>5. L(y) = L(x) /\ T(y) = T(x)
  BY <1>2, <1>4 DEF Went, L, T
<1>6. Good(y.t, y.cs, lv)
  <2>1. Good([x.t EXCEPT ![c] = q], x.cs, lv)
    BY <1>1, IdleKeeps
  <2> QED BY <1>4, <2>1 DEF Went
<1>7. Limits(y)
  BY <1>1, <1>4, <1>5 DEF Went, Limits, Holds
<1> QED BY <1>1, <1>4, <1>5, <1>6, <1>7 DEF Idles, Runs, Holds, Went

(* What a program sees of it. *)
LEMMA IdleView ==
  ASSUME NEW x, NEW lv, Runs(x, lv), NEW c \in Coroutines, c \notin On(x.cs), NEW q, NEW y, Idles(x, lv, c, q, y)
  PROVE  /\ View(y) = [state |-> [View(x).state EXCEPT ![c] = Rest(Look(q))], resumer |-> View(x).resumer,
                       begun |-> (View(x).begun \ {c}) \cup (IF q.made /\ ~q.fresh THEN {c} ELSE {})]
         /\ View(x).state[c] = Rest(Look(x.t[c]))
         /\ c \in View(x).begun <=> x.t[c].made /\ ~x.t[c].fresh
<1>1. Shows(x) /\ Shows(y) /\ c \in Thread /\ c # Main
  BY Showing, CallsAssumption DEF Runs, Idles, Thread
<1>2. /\ StateIn(y, c) = Rest(Look(q)) /\ StateIn(x, c) = Rest(Look(x.t[c]))
      /\ \A d \in Thread \ {c} : StateIn(y, d) = StateIn(x, d)
  BY <1>1 DEF Shows, Idles
<1>3. \A d \in Thread : Waits(y, d) = Waits(x, d)
  BY DEF Waits, Idles
<1>4. BegunIn(y) = (BegunIn(x) \ {c}) \cup (IF q.made /\ ~q.fresh THEN {c} ELSE {})
  BY <1>1 DEF BegunIn, Idles
<1>5. /\ [d \in Thread |-> StateIn(y, d)] = [[d \in Thread |-> StateIn(x, d)] EXCEPT ![c] = Rest(Look(q))]
      /\ [d \in Thread |-> Waits(y, d)] = [d \in Thread |-> Waits(x, d)]
  BY <1>1, <1>2, <1>3
<1> QED BY <1>1, <1>2, <1>4, <1>5 DEF View, BegunIn

(* A coroutine that can be resumed is not on the C stack. *)
LEMMA SuspendedIdle ==
  ASSUME NEW x, NEW lv, Runs(x, lv), NEW c \in Coroutines, CoStatus(x, L(x), c) = "suspended"
  PROVE  /\ c \notin On(x.cs) /\ x.t[c] \in Rec /\ Sized(x.t[c]) /\ x.t[c].made
         /\ \/ Suspended(x.t[c]) /\ x.t[c].status = "yield"
            \/ x.t[c].status = "ok" /\ x.t[c].fresh /\ Len(x.t[c].ci) = 1 /\ x.t[c].ci[1] # "lua" /\ x.t[c].errfunc = None
<1>1. /\ x \in World /\ Good(x.t, x.cs, lv) /\ x.t \in [Thread -> Rec] /\ Holds(x, lv) /\ x.cs # <<>>
  BY DEF Runs, Holds, World
<1>2. Shows(x) /\ c \in Thread /\ Running(x) = L(x)
  BY <1>1, Showing DEF Thread, Running
<1>3. c \notin On(x.cs)
  <2> SUFFICES ASSUME c \in On(x.cs) PROVE FALSE
    OBVIOUS
  <2>1. x.t[c].made
    BY <1>2 DEF Shows
  <2>2. StateIn(x, c) = "suspended"
    BY <1>2, <2>1 DEF StateIn
  <2> QED BY <1>2, <2>2 DEF Shows
<1>4. x.t[c] \in Rec /\ Sized(x.t[c]) /\ Resting(x.t[c])
  BY <1>1, <1>2, <1>3 DEF Good, Rests
<1>5. x.t[c].status = "yield" \/ (x.t[c].status = "ok" /\ x.t[c].fresh)
  <2>1. x.t[c].status \in {"ok", "yield", "err"} /\ c # L(x)
    BY <1>2, <1>3, <1>4 DEF Rec, Shows
  <2> QED BY <2>1 DEF CoStatus
<1> QED BY <1>3, <1>4, <1>5 DEF Resting, Suspended

(* What a program sees of a start: c runs, and its resumer waits. *)
LEMMA StartView ==
  ASSUME NEW x, NEW lv, Holds(x, lv), NEW y, NEW lw, Holds(y, lw), NEW c \in Coroutines, c \notin On(x.cs),
         Rest(Look(x.t[c])) = "suspended", On(y.cs) = On(x.cs) \cup {c}, L(y) = c,
         Resumed(y.cs) = Resumed(x.cs) \cup {<<L(x), c>>}, \A d \in Thread \ {c} : y.t[d] = x.t[d]
  PROVE  Starts(View(x), L(x), c, View(y))
<1>1. Shows(x) /\ Shows(y) /\ c \in Thread /\ c # Main
  BY Showing, CallsAssumption DEF Thread
<1>2. L(x) \in Thread /\ L(x) # c /\ L(x) \in On(x.cs) /\ y.t[c].made /\ ~y.t[c].fresh
  BY <1>1 DEF Shows
<1>3. StateIn(x, L(x)) = "running" /\ StateIn(x, c) = "suspended" /\ StateIn(y, c) = "running" /\ StateIn(y, L(x)) = "normal"
  BY <1>1, <1>2 DEF Shows
<1>4. \A d \in Thread \ {c, L(x)} : StateIn(y, d) = StateIn(x, d)
  BY <1>1, <1>2 DEF Shows
<1>5. ASSUME NEW r PROVE <<r, c>> \notin Resumed(x.cs)
  <2>1. \A i \in 2 .. Len(x.cs) : x.cs[i].th \in On(x.cs)
    <3> TAKE i \in 2 .. Len(x.cs)
    <3>1. i \in 1 .. Len(x.cs)
      OBVIOUS
    <3> QED BY <3>1 DEF On
  <2> QED BY <2>1 DEF Resumed
<1>6. Waits(y, c) = L(x)
  <2>1. \A r : <<r, c>> \in Resumed(y.cs) <=> r = L(x)
    BY <1>5
  <2> QED BY <1>2, <2>1 DEF Waits
<1>7. \A d \in Thread \ {c} : Waits(y, d) = Waits(x, d)
  <2> TAKE d \in Thread \ {c}
  <2>1. \A r : <<r, d>> \in Resumed(y.cs) <=> <<r, d>> \in Resumed(x.cs)
    OBVIOUS
  <2> QED BY <2>1 DEF Waits
<1>8. BegunIn(y) = BegunIn(x) \cup {c}
  BY <1>1, <1>2 DEF BegunIn
<1>9. /\ [d \in Thread |-> StateIn(y, d)] = [[d \in Thread |-> StateIn(x, d)] EXCEPT ![L(x)] = "normal", ![c] = "running"]
      /\ [d \in Thread |-> Waits(y, d)] = [[d \in Thread |-> Waits(x, d)] EXCEPT ![c] = L(x)]
  BY <1>1, <1>2, <1>3, <1>4, <1>6, <1>7
<1> QED BY <1>1, <1>2, <1>3, <1>8, <1>9 DEF Starts, View

(* A coroutine starts, or goes on where it yielded.                           *)
Resumes(x, c) ==
  LET r == SetLevel(x, c)
  IN  ResumeBody(Push(Set(x, c, [r EXCEPT !.ncc = @ + 1, !.baseCc = r.ncc + 1]), [k |-> "resume", th |-> c]))

(* It runs as many Lua functions as it had called. *)
LEMMA ResumesHolds ==
  ASSUME NEW x, NEW lv, Runs(x, lv), Last(x.cs).k \in {"exec", "call"}, Above(x, lv),
         NEW c \in Coroutines, CoStatus(x, L(x), c) = "suspended", T(x).ncc < MaxCcalls
  PROVE  Proceeds(x, Resumes(x, c))
<1> DEFINE n == Len(x.cs)
           o == x.t[c]
           d == T(x).ncc + 1
           r1 == [o EXCEPT !.ncc = d, !.baseCc = d]
           q == IF o.status = "ok" THEN [r1 EXCEPT !.fresh = FALSE, !.ci = Append(o.ci, "lua")]
                ELSE [r1 EXCEPT !.status = "ok", !.ci = Front(o.ci)]
           r0 == [q EXCEPT !.ci = <<o.ci[1]>>]
           a == [k |-> "resume", th |-> c]
           e == [k |-> "exec", th |-> c, n |-> Len(q.ci) - 1]
           ds == Append(x.cs, a)
           es == Append(ds, e)
           y == Resumes(x, c)
<1>1. /\ x \in World /\ x.cs # <<>> /\ x.raised = "no" /\ T(x).status = "ok" /\ Holds(x, lv) /\ x.cs \in Seq(Act)
      /\ Good(x.t, x.cs, lv) /\ x.t \in [Thread -> Rec] /\ lv \in Seq(Nat) /\ Len(lv) = n
  BY DEF Runs, Holds, World, Good
<1>2. Stands(x, lv, n)
  BY <1>1, Standing
<1>3. /\ n \in Nat \ {0} /\ n \in 1 .. n /\ x.cs[n].th = L(x) /\ L(x) \in Thread /\ T(x) = x.t[L(x)] /\ T(x) \in Rec
      /\ x.cs[n] = Last(x.cs) /\ T(x).ncc = Depth(x.cs, n) /\ x.cs[n] \in Act /\ T(x).ncc \in Nat /\ d \in Nat
  BY <1>2 DEF Stands
<1>4. /\ c \notin On(x.cs) /\ o \in Rec /\ Sized(o) /\ o.made /\ c \in Thread /\ Running(x) = L(x)
      /\ \/ Suspended(o) /\ o.status = "yield"
         \/ o.status = "ok" /\ o.fresh /\ Len(o.ci) = 1 /\ o.ci[1] # "lua" /\ o.errfunc = None
  BY <1>1, SuspendedIdle DEF Thread, Running
<1>5. o.ci \in Seq(Frame) /\ o.ci # <<>> /\ o.ci[1] # "lua" /\ o.errfunc = None /\ o.size \in Nat
  BY <1>4 DEF Rec, Suspended
<1>6. r1 \in Rec /\ r1.ci = o.ci /\ r1.status = o.status /\ r1.errfunc = o.errfunc /\ r1.made = o.made
      /\ r1.fresh = o.fresh /\ r1.ncc = d /\ r1.baseCc = d /\ r1.size = o.size
  <2>1. r1 \in Rec
    BY <1>3, <1>4 DEF Rec
  <2> QED BY <1>3, <1>4, <2>1 DEF Rec
<1>7. /\ q \in Rec /\ q.status = "ok" /\ ~q.fresh /\ q.made /\ q.errfunc = None /\ q.ncc = d /\ q.baseCc = d
      /\ Len(q.ci) \in Nat /\ Len(q.ci) >= 2 /\ q.ci[1] = o.ci[1] /\ q.ci \in Seq(Frame)
      /\ \A j \in 2 .. Len(q.ci) : q.ci[j] = "lua"
      /\ Sized(q) /\ q.size = o.size
  <2>1. CASE o.status = "ok"
    <3>1. o.fresh /\ Len(o.ci) = 1
      BY <1>4, <2>1
    <3>2. /\ Append(o.ci, "lua") \in Seq(Frame) /\ Len(Append(o.ci, "lua")) = 2 /\ Append(o.ci, "lua")[1] = o.ci[1]
          /\ Append(o.ci, "lua")[2] = "lua"
      <4> HIDE DEF o
      <4>1. "lua" \in Frame
        BY DEF Frame
      <4>2. /\ Append(o.ci, "lua") \in Seq(Frame) /\ Len(Append(o.ci, "lua")) = Len(o.ci) + 1
            /\ \A j \in 1 .. Len(o.ci) : Append(o.ci, "lua")[j] = o.ci[j]
            /\ Append(o.ci, "lua")[Len(o.ci) + 1] = "lua"
        BY <1>5, <4>1, Frames
      <4>3. Len(o.ci) + 1 = 2 /\ 1 \in 1 .. Len(o.ci)
        BY <3>1
      <4> QED BY <4>2, <4>3
    <3> HIDE DEF r1
    <3>3. q = [r1 EXCEPT !.fresh = FALSE, !.ci = Append(o.ci, "lua")]
      BY <2>1
    <3>4. q \in Rec /\ q.ci = Append(o.ci, "lua") /\ ~q.fresh /\ q.status = r1.status /\ q.made = r1.made /\ q.ncc = r1.ncc
          /\ q.errfunc = r1.errfunc /\ q.baseCc = r1.baseCc /\ q.size = r1.size
      BY <1>6, <3>2, <3>3 DEF Rec
    <3> HIDE DEF q, d, o
    <3>5. Sized(q)
      BY <1>4, <1>5, <1>6, <3>2, <3>4 DEF Sized
    <3> QED BY <1>4, <1>5, <1>6, <2>1, <3>2, <3>4, <3>5
  <2>2. CASE o.status # "ok"
    <3>1. Suspended(o) /\ o.status = "yield" /\ Len(o.ci) \in Nat
      BY <1>4, <1>5, <2>2
    <3>2. /\ Front(o.ci) \in Seq(Frame) /\ Len(Front(o.ci)) = Len(o.ci) - 1
          /\ \A j \in 1 .. Len(o.ci) - 1 : Front(o.ci)[j] = o.ci[j]
      BY <1>5, Frames
    <3> HIDE DEF r1
    <3>3. q = [r1 EXCEPT !.status = "ok", !.ci = Front(o.ci)]
      BY <2>2
    <3>4. q \in Rec /\ q.ci = Front(o.ci) /\ q.fresh = r1.fresh /\ q.status = "ok" /\ q.made = r1.made /\ q.ncc = r1.ncc
          /\ q.errfunc = r1.errfunc /\ q.baseCc = r1.baseCc /\ q.size = r1.size
      BY <1>6, <3>2, <3>3 DEF Rec
    <3> HIDE DEF q, d, o
    <3>5. Len(o.ci) >= 3 /\ ~o.fresh /\ \A j \in 2 .. Len(o.ci) - 1 : o.ci[j] = "lua"
      BY <3>1 DEF Suspended
    <3>6. Sized(q)
      BY <1>4, <1>5, <1>6, <3>1, <3>2, <3>4 DEF Sized
    <3>7. Len(q.ci) >= 2 /\ q.ci[1] = o.ci[1] /\ Len(q.ci) \in Nat
      BY <3>1, <3>2, <3>4, <3>5
    <3>8. \A j \in 2 .. Len(q.ci) : q.ci[j] = "lua"
      <4> TAKE j \in 2 .. Len(q.ci)
      <4>1. j \in 2 .. Len(o.ci) - 1 /\ j \in 1 .. Len(o.ci) - 1
        BY <3>1, <3>2, <3>4
      <4> QED BY <3>2, <3>4, <3>5, <4>1
    <3> QED BY <1>4, <1>5, <1>6, <3>4, <3>5, <3>6, <3>7, <3>8, <3>2
  <2> QED BY <2>1, <2>2
<1>8. y = Goes(x, c, q, es, "no")
  <2> DEFINE z == Push(Set(x, c, r1), a)
  <2>1. y = ResumeBody(z)
    BY <1>3, <1>4 DEF Resumes, SetLevel, Rec
  <2>2. z.cs = ds /\ z.t = [x.t EXCEPT ![c] = r1] /\ z = [x EXCEPT !.t = [x.t EXCEPT ![c] = r1], !.cs = ds]
    BY <1>1 DEF Push, Set, World
  <2>3. Last(z.cs) = a
    <3>1. ds # <<>> /\ Len(ds) = n + 1 /\ ds[n + 1] = a
      BY <1>1, <1>3
    <3> HIDE DEF ds, z
    <3> QED BY <2>2, <3>1 DEF Last
  <2>4. L(z) = c /\ T(z) = r1
    <3>1. L(z) = c
      BY <2>3 DEF L
    <3>2. T(z) = z.t[c]
      BY <3>1 DEF T
    <3> HIDE DEF z, r1, ds
    <3> QED BY <1>1, <1>4, <2>2, <3>1, <3>2
  <2> DEFINE p == IF r1.status = "ok" THEN [r1 EXCEPT !.fresh = FALSE, !.ci = Append(@, "lua")]
                  ELSE [r1 EXCEPT !.status = "ok", !.ci = IF Last(@) = "lua" THEN @ ELSE Front(@)]
  <2>5. ResumeBody(z) = Push(Set(z, c, p), [k |-> "exec", th |-> c, n |-> Len(p.ci) - 1])
    <3> HIDE DEF z, r1
    <3> QED BY <2>4 DEF ResumeBody
  <2>6. p = q
    <3>1. CASE o.status = "ok"
      <4> HIDE DEF r1, o
      <4> QED BY <1>6, <3>1 DEF Rec
    <3>2. CASE o.status # "ok"
      <4>1. Suspended(o)
        BY <1>4, <3>2
      <4>2. Last(o.ci) = o.ci[Len(o.ci)]
        BY <1>5, Frames
      <4>3. Last(o.ci) # "lua"
        BY <4>1, <4>2 DEF Suspended
      <4> HIDE DEF r1, o
      <4> QED BY <1>6, <3>2, <4>3 DEF Rec
    <3> QED BY <3>1, <3>2
  <2>7. ResumeBody(z) = Push(Set(z, c, q), e)
    <3> HIDE DEF p, q, z
    <3> QED BY <2>5, <2>6
  <2> HIDE DEF y, q, r1, ds, p, e
  <2>8. Push(Set(z, c, q), e) = Goes(x, c, q, Append(ds, e), "no")
    <3>1. [[x.t EXCEPT ![c] = r1] EXCEPT ![c] = q] = [x.t EXCEPT ![c] = q]
      BY <1>1
    <3>2. Set(z, c, q) = [x EXCEPT !.t = [x.t EXCEPT ![c] = q], !.cs = ds]
      <4> HIDE DEF z
      <4> QED BY <1>1, <2>2, <3>1 DEF Set, World
    <3>3. Goes(x, c, q, Append(ds, e), "no") = [x EXCEPT !.t = [x.t EXCEPT ![c] = q], !.cs = Append(ds, e)]
      BY <1>1 DEF Goes, World
    <3> QED BY <1>1, <3>2, <3>3 DEF Push, World
  <2> QED BY <2>1, <2>7, <2>8
<1>9. /\ a \in Act /\ e \in Act /\ a.k = "resume" /\ a.th = c /\ e.k = "exec" /\ e.th = c /\ Own(e) = Len(q.ci) - 1 /\ Own(a) = 0
      /\ <<a.k, e.k>> \in Nested
  <2>1. Len(q.ci) - 1 \in Nat \ {0}
    BY <1>7
  <2> HIDE DEF q
  <2> QED BY <1>4, <2>1 DEF Act, Own, Nested
<1>10. r0 \in Rec /\ Sized(r0) /\ r0.made /\ ~r0.fresh /\ r0.status = "ok" /\ Len(r0.ci) = 1 /\ r0.ci[1] = o.ci[1]
       /\ r0.errfunc = None /\ r0.ncc = d /\ r0.baseCc = d /\ r0.size = o.size
  <2> HIDE DEF q, o, d
  <2>1. <<o.ci[1]>> \in Seq(Frame)
    BY <1>5
  <2>2. r0 \in Rec /\ r0.ci = <<o.ci[1]>> /\ r0.made = q.made /\ r0.fresh = q.fresh /\ r0.status = q.status
        /\ r0.errfunc = q.errfunc /\ r0.ncc = q.ncc /\ r0.baseCc = q.baseCc /\ r0.size = q.size
    BY <1>7, <2>1 DEF Rec
  <2> HIDE DEF r0
  <2>3. Len(r0.ci) = 1 /\ r0.ci[1] = o.ci[1]
    BY <2>2
  <2>4. Sized(r0)
    <3>1. r0.size = q.size /\ 2 <= q.size /\ q.size <= 2 * MaxCalls /\ q.size \in Nat
      BY <1>5, <1>7, <2>2 DEF Sized
    <3> QED BY <2>3, <3>1 DEF Sized
  <2> QED BY <1>7, <2>2, <2>3, <2>4
<1>11. ds \in Seq(Act) /\ Len(ds) = n + 1 /\ ds[n + 1] = a /\ (\A i \in 1 .. n : ds[i] = x.cs[i])
       /\ es \in Seq(Act) /\ Len(es) = n + 2 /\ es[n + 2] = e /\ (\A i \in 1 .. n + 1 : es[i] = ds[i])
  BY <1>1, <1>3, <1>9
<1> HIDE DEF q, r0, r1, a, e, ds, es, y
<1> DEFINE u == [x.t EXCEPT ![c] = r0]
           lw == Append(lv, 1)
<1>12. Good(u, ds, lw)
  <2>1. x.cs[n].k \in {"exec", "call"} /\ Top(x.cs, lv, n) < Len(x.t[x.cs[n].th].ci) /\ Depth(x.cs, n) < MaxCcalls
    BY <1>3 DEF Above
  <2>2. r0.ncc = Depth(x.cs, n) + 1 /\ r0.baseCc = r0.ncc /\ r0.ci[1] # "lua"
    BY <1>3, <1>5, <1>10
  <2> HIDE DEF n, d, o
  <2>3. n = Len(x.cs)
    BY DEF n
  <2>4. Good([x.t EXCEPT ![c] = r0], Append(x.cs, a), Append(lv, 1))
    BY <1>1, <1>3, <1>4, <1>9, <1>10, <2>1, <2>2, <2>3, ResumeKeeps
  <2> QED BY <2>4 DEF ds
<1>13. Depth(ds, n + 1) = d
  <2>1. Depth(ds, n) = Depth(x.cs, n)
    <3>1. \A i \in 1 .. n : ds[i].k = x.cs[i].k
      BY <1>11
    <3> QED BY <1>3, <3>1, DepthSame
  <2>2. Depth(ds, n + 1) = Depth(ds, n) + (IF ds[n + 1].k \in {"call", "resume"} THEN 1 ELSE 0)
    BY <1>3, DepthStep
  <2>3. ds[n + 1].k = "resume" /\ Depth(x.cs, n) = T(x).ncc
    BY <1>3, <1>9, <1>11
  <2> QED BY <2>1, <2>2, <2>3
<1>14. u \in [Thread -> Rec] /\ u[c] = r0 /\ [u EXCEPT ![c] = q] = [x.t EXCEPT ![c] = q]
  BY <1>1, <1>4, <1>10
<1>15. lw[n + 1] = 1 /\ Top(ds, lw, n + 1) = 1
  <2>1. lw[n + 1] = 1
    BY <1>1
  <2>2. Own(ds[n + 1]) = 0
    BY <1>9, <1>11
  <2> HIDE DEF lw, n
  <2> QED BY <2>1, <2>2 DEF Top
<1> HIDE DEF u, lw, d, o, n
<1>16. Good([u EXCEPT ![c] = q], es, Append(lw, 1))
  <2> DEFINE m == n + 1
  <2>1. m \in Nat \ {0} /\ m = Len(ds) /\ ds[m].th = c /\ ds[m].k = "resume"
    BY <1>3, <1>9, <1>11
  <2>2. Alike(q, u[c])
    <3>1. q.made \in BOOLEAN /\ q.fresh \in BOOLEAN /\ r0.made \in BOOLEAN /\ r0.fresh \in BOOLEAN
      BY <1>7, <1>10, RecIs
    <3>2. q.made = r0.made /\ q.fresh = r0.fresh
      BY <1>7, <1>10, <3>1
    <3> QED BY <1>7, <1>10, <1>14, <3>2 DEF Alike
  <2>3. Laid(q.ci, u[c].ci, Top(ds, lw, m), 1, 1 + Own(e))
    <3>1. 1 + Own(e) = Len(q.ci)
      BY <1>7, <1>9
    <3>2. u[c].ci[1] = q.ci[1]
      BY <1>7, <1>10, <1>14
    <3> QED BY <1>7, <1>15, <3>1, <3>2 DEF Laid
  <2>4. Keeps(e, Depth(ds, m), 1, Unprotected(ds, c, m))
    BY <1>9 DEF Keeps
  <2>5. q.ncc = Depth(ds, m) + (IF e.k = "call" THEN 1 ELSE 0)
    <3>1. d \in Nat /\ e.k # "call"
      BY <1>3, <1>9
    <3> QED BY <1>7, <1>13, <3>1
  <2>6. <<ds[m].k, e.k>> \in Nested
    BY <1>9, <2>1
  <2>7. u[c].status = "ok"
    BY <1>10, <1>14
  <2> HIDE DEF m
  <2>8. Good([u EXCEPT ![c] = q], Append(ds, e), Append(lw, 1))
    BY <1>4, <1>7, <1>9, <1>11, <1>12, <1>14, <2>1, <2>2, <2>3, <2>4, <2>5, <2>6, <2>7, PushKeeps
  <2> QED BY <2>8 DEF es
<1>17. Went(x, c, q, es, "no", y)
  BY <1>1, <1>4, <1>7, <1>8, <1>11, GoesIs
<1>18. y.cs # <<>> /\ L(y) = c /\ T(y) = q
  <2>1. Last(es) = e /\ es # <<>>
    BY <1>3, <1>11 DEF Last
  <2> QED BY <1>9, <1>17, <2>1 DEF Went, L, T
<1>19. Limits(y)
  <2>1. d < MaxCcalls + Spare
    BY <1>3, CallsAssumption DEF d
  <2> QED BY <1>7, <1>17, <1>18, <2>1 DEF Limits, Went
<1>20. Holds(y, Append(lw, 1))
  BY <1>1, <1>14, <1>16, <1>17, <1>18, <1>19 DEF Holds, Went
<1>21. On(y.cs) = On(x.cs) \cup {c}
  <2>1. \A i \in 1 .. n + 2 : es[i].th \in On(x.cs) \cup {c}
    <3> TAKE i \in 1 .. n + 2
    <3>1. CASE i = n + 2
      BY <1>9, <1>11, <3>1
    <3>2. CASE i = n + 1
      BY <1>3, <1>9, <1>11, <3>2
    <3>3. CASE i # n + 1 /\ i # n + 2
      <4>1. i \in 1 .. n /\ i \in 1 .. n + 1
        BY <1>3, <3>3
      <4>2. es[i] = x.cs[i]
        BY <1>11, <4>1
      <4> QED BY <4>1, <4>2 DEF On, n
    <3> QED BY <3>1, <3>2, <3>3
  <2>2. \A i \in 1 .. n : x.cs[i].th \in {es[j].th : j \in 1 .. n + 2}
    <3> TAKE i \in 1 .. n
    <3>1. i \in 1 .. n + 2 /\ i \in 1 .. n + 1
      BY <1>3
    <3>2. es[i] = x.cs[i]
      BY <1>11, <3>1
    <3> QED BY <3>1, <3>2
  <2>3. c \in {es[j].th : j \in 1 .. n + 2}
    <3>1. n + 2 \in 1 .. n + 2
      BY <1>3
    <3> QED BY <1>9, <1>11, <3>1
  <2>4. On(y.cs) = {es[j].th : j \in 1 .. n + 2}
    BY <1>11, <1>17 DEF On, Went
  <2>5. On(x.cs) = {x.cs[j].th : j \in 1 .. n}
    BY DEF On, n
  <2>6. \A th \in On(y.cs) : th \in On(x.cs) \cup {c}
    BY <2>1, <2>4
  <2>7. \A th \in On(x.cs) \cup {c} : th \in On(y.cs)
    BY <2>2, <2>3, <2>4, <2>5
  <2> QED BY <2>6, <2>7
<1>22. Resumed(y.cs) = Resumed(x.cs) \cup {<<L(x), c>>}
  <2> DEFINE J == {j \in 2 .. n : x.cs[j].k = "resume"}
  <2>1. {j \in 2 .. n + 2 : es[j].k = "resume"} = J \cup {n + 1}
    <3>1. ASSUME NEW j \in 2 .. n + 2, es[j].k = "resume" PROVE j \in J \cup {n + 1}
      <4>1. j # n + 2
        BY <1>9, <1>11, <3>1
      <4>2. CASE j # n + 1
        <5>1. j \in 2 .. n /\ j \in 1 .. n /\ j \in 1 .. n + 1
          BY <1>3, <4>1, <4>2
        <5>2. es[j] = x.cs[j]
          BY <1>11, <5>1
        <5> QED BY <3>1, <5>1, <5>2
      <4> QED BY <4>2
    <3>2. ASSUME NEW j \in J PROVE j \in 2 .. n + 2 /\ es[j].k = "resume"
      <4>1. j \in 2 .. n + 2 /\ j \in 1 .. n /\ j \in 1 .. n + 1
        BY <1>3
      <4> QED BY <1>11, <4>1
    <3>3. n + 1 \in 2 .. n + 2 /\ n + 1 \in 1 .. n + 1
      BY <1>3
    <3>4. es[n + 1].k = "resume"
      BY <1>9, <1>11, <3>3
    <3> QED BY <3>1, <3>2, <3>3, <3>4
  <2>2. \A j \in J : es[j] = x.cs[j] /\ es[j - 1] = x.cs[j - 1]
    <3> TAKE j \in J
    <3>1. j \in 1 .. n /\ j - 1 \in 1 .. n /\ j \in 1 .. n + 1 /\ j - 1 \in 1 .. n + 1
      BY <1>3
    <3> QED BY <1>11, <3>1
  <2>3. es[n + 1].th = c /\ es[(n + 1) - 1].th = L(x)
    <3>1. n \in 1 .. n /\ n \in 1 .. n + 1 /\ (n + 1) - 1 = n /\ n + 1 \in 1 .. n + 1
      BY <1>3
    <3> QED BY <1>3, <1>9, <1>11, <3>1
  <2>4. Resumed(x.cs) = {<<x.cs[i - 1].th, x.cs[i].th>> : i \in J}
    BY DEF Resumed, n
  <2>5. Resumed(y.cs) = {<<es[i - 1].th, es[i].th>> : i \in J \cup {n + 1}}
    BY <1>11, <1>17, <2>1 DEF Resumed, Went
  <2>6. {<<es[i - 1].th, es[i].th>> : i \in J} = {<<x.cs[i - 1].th, x.cs[i].th>> : i \in J}
    <3>1. \A i \in J : <<es[i - 1].th, es[i].th>> = <<x.cs[i - 1].th, x.cs[i].th>>
      BY <2>2
    <3> HIDE DEF J
    <3> QED BY <3>1
  <2> HIDE DEF J
  <2>7. {<<es[i - 1].th, es[i].th>> : i \in J \cup {n + 1}} = {<<es[i - 1].th, es[i].th>> : i \in J} \cup {<<L(x), c>>}
    <3> DEFINE P(i) == <<es[i - 1].th, es[i].th>>
    <3>1. P(n + 1) = <<L(x), c>>
      BY <2>3
    <3> HIDE DEF P
    <3>2. {P(i) : i \in J \cup {n + 1}} = {P(i) : i \in J} \cup {<<L(x), c>>}
      BY <3>1
    <3> QED BY <3>2 DEF P
  <2> QED BY <2>4, <2>5, <2>6, <2>7
<1>23. Rest(Look(x.t[c])) = "suspended"
  <2>1. CASE o.status = "yield"
    BY <1>4, <2>1 DEF Rest, Look, o
  <2>2. CASE o.status # "yield"
    <3>0. o.status = "ok" /\ o.fresh /\ Len(o.ci) = 1 /\ o.made
      BY <1>4, <2>2, Zenon
    <3>1. o.status = "ok" /\ o.fresh /\ ~(Len(o.ci) > 1) /\ o.made
      BY <3>0
    <3> QED BY <3>1 DEF Rest, Look, o
  <2> QED BY <2>1, <2>2
<1>24. Starts(View(x), L(x), c, View(y))
  BY <1>1, <1>4, <1>17, <1>18, <1>20, <1>21, <1>22, <1>23, StartView DEF Went
<1> QED BY <1>3, <1>4, <1>20, <1>24 DEF Proceeds, MayTurn, y

(* Resuming leads on, whatever becomes of it. *)
LEMMA AuxResumeHolds ==
  ASSUME NEW x, NEW lv, Runs(x, lv), Last(x.cs).k \in {"exec", "call"}, Above(x, lv), NEW c \in Coroutines
  PROVE  Proceeds(x, AuxResume(x, c))
<1>1. Holds(x, lv) /\ x.cs # <<>> /\ x \in World
  BY DEF Runs, Holds
<1>2. CASE CoStatus(x, L(x), c) # "suspended"
  <2>1. AuxResume(x, c) = Refuse(x)
    BY <1>2 DEF AuxResume
  <2> QED BY <1>1, <2>1, RefuseHolds, LeadsOn
<1>3. CASE CoStatus(x, L(x), c) = "suspended"
  <2> DEFINE o == x.t[c]
             r == SetLevel(x, c)
             q == [r EXCEPT !.fresh = FALSE]
             y == Set(x, c, q)
  <2>1. /\ c \notin On(x.cs) /\ o \in Rec /\ Sized(o) /\ o.made
        /\ \/ Suspended(o) /\ o.status = "yield"
           \/ o.status = "ok" /\ o.fresh /\ Len(o.ci) = 1 /\ o.ci[1] # "lua" /\ o.errfunc = None
    BY <1>3, SuspendedIdle
  <2>2. T(x).ncc \in Nat
    BY <1>1, LastIs, RecIs
  <2>3. /\ r.ci = o.ci /\ r.status = o.status /\ r.ncc = T(x).ncc
        /\ q \in Rec /\ q.ci = o.ci /\ q.status = o.status /\ q.made = o.made /\ ~q.fresh /\ q.errfunc = o.errfunc
        /\ q.size = o.size
    <3> HIDE DEF o
    <3>1. r = [o EXCEPT !.ncc = T(x).ncc]
      BY DEF SetLevel, o
    <3>2. q \in Rec
      BY <2>1, <2>2, <3>1 DEF Rec
    <3> QED BY <2>1, <2>2, <3>1, <3>2 DEF Rec
  <2>4. AuxResume(x, c) = IF T(x).ncc >= MaxCcalls THEN Refuse(y) ELSE Resumes(x, c)
    <3>1. ~(r.status # "yield" /\ (r.status # "ok" \/ Len(r.ci) > 1))
      <4> HIDE DEF o, r
      <4>1. o.status = "yield" \/ (o.status = "ok" /\ Len(o.ci) = 1)
        BY <2>1, Zenon
      <4>2. r.status # "yield" => r.status = "ok" /\ Len(r.ci) = 1
        BY <2>3, <4>1, Zenon
      <4>3. Len(r.ci) = 1 => ~(Len(r.ci) > 1)
        <5> DEFINE l == Len(r.ci)
        <5> HIDE DEF l
        <5>1. l = 1 => ~(l > 1)
          OBVIOUS
        <5> QED BY <5>1 DEF l
      <4> QED BY <4>2, <4>3, Zenon
    <3>2. r.ncc = T(x).ncc
      BY <2>3
    <3> QED BY <1>3, <3>1, <3>2 DEF AuxResume, Resumes
  <2>5. CASE T(x).ncc < MaxCcalls
    <3>1. ~(T(x).ncc >= MaxCcalls)
      BY <2>2, <2>5, CallsAssumption
    <3> HIDE DEF y
    <3> QED BY <1>3, <2>4, <2>5, <3>1, ResumesHolds
  <2>6. CASE T(x).ncc >= MaxCcalls
    <3> HIDE DEF q, r, o
    <3>1. Sized(q) /\ Resting(q)
      <4>1. CASE o.status = "yield"
        BY <2>1, <2>3, <4>1 DEF Sized, Resting, Suspended
      <4>2. CASE o.status # "yield"
        <5>1. o.status = "ok" /\ Len(o.ci) = 1 /\ o.ci[1] # "lua" /\ o.errfunc = None
          BY <2>1, <4>2, Zenon
        <5> QED BY <2>1, <2>3, <5>1 DEF Sized, Resting
      <4> QED BY <4>1, <4>2
    <3>2. Idles(x, lv, c, q, y)
      BY <2>1, <2>3, <3>1, IdleHolds
    <3> HIDE DEF y
    <3>3. /\ View(y) = [state |-> [View(x).state EXCEPT ![c] = Rest(Look(q))], resumer |-> View(x).resumer,
                        begun |-> (View(x).begun \ {c}) \cup {c}]
          /\ View(x).state[c] = Rest(Look(o))
          /\ c \in View(x).begun <=> ~o.fresh
      <4>1. q.made /\ ~q.fresh
        BY <2>1, <2>3
      <4> QED BY <2>1, <3>2, <4>1, IdleView DEF o
    <3>4. Rest(Look(o)) = "suspended"
      <4>1. CASE o.status = "yield"
        BY <2>1, <4>1 DEF Rest, Look
      <4>2. CASE o.status # "yield"
        <5>1. o.status = "ok" /\ o.fresh /\ Len(o.ci) = 1 /\ o.made
          BY <2>1, <4>2, Zenon
        <5>2. ~(Len(o.ci) > 1)
          BY <5>1
        <5> QED BY <5>1, <5>2 DEF Rest, Look
      <4> QED BY <4>1, <4>2
    <3>5. MayTurn(View(x), View(y))
      <4> DEFINE v == View(x)
      <4>0. v = [state |-> v.state, resumer |-> v.resumer, begun |-> v.begun] /\ v.state = [d \in Thread |-> v.state[d]]
            /\ c \in Thread
        BY DEF View, Thread
      <4>1. CASE o.status = "yield"
        <5>1. Rest(Look(q)) = "suspended" /\ ~o.fresh
          BY <2>1, <2>3, <4>1 DEF Rest, Look, Suspended
        <5> HIDE DEF v
        <5>2. [v.state EXCEPT ![c] = "suspended"] = v.state
          BY <3>3, <3>4, <4>0 DEF v
        <5>3. (v.begun \ {c}) \cup {c} = v.begun
          BY <3>3, <5>1 DEF v
        <5>4. View(y) = v
          BY <3>3, <4>0, <5>1, <5>2, <5>3 DEF v
        <5> QED BY <5>4 DEF MayTurn, v
      <4>2. CASE o.status # "yield"
        <5>1. o.status = "ok" /\ o.fresh /\ Len(o.ci) = 1 /\ o.made
          BY <2>1, <4>2, Zenon
        <5>2. ~(Len(q.ci) > 1) /\ q.status = "ok" /\ q.made /\ ~q.fresh
          BY <2>3, <5>1
        <5>3. Rest(Look(q)) = "dead"
          BY <5>2 DEF Rest, Look
        <5> HIDE DEF v
        <5>4. Loses(v, c, View(y))
          <6>1. v.state[c] = "suspended" /\ c \notin v.begun
            BY <3>3, <3>4, <5>1 DEF v
          <6>2. View(y) = [state |-> [v.state EXCEPT ![c] = "dead"], resumer |-> v.resumer, begun |-> v.begun \cup {c}]
            BY <3>3, <5>3, <6>1 DEF v
          <6> QED BY <6>1, <6>2 DEF Loses
        <5> QED BY <4>0, <5>4 DEF MayTurn, v
      <4> QED BY <4>1, <4>2
    <3>6. Leads(y, Refuse(y))
      <4>1. Runs(y, lv) /\ Last(y.cs).k \in {"exec", "call"} /\ Above(y, lv)
        BY <3>2 DEF Idles, Above
      <4> QED BY <4>1, RefuseHolds
    <3>7. PICK lw : Holds(Refuse(y), lw)
      BY <3>6 DEF Leads
    <3>8. View(Refuse(y)) = View(y)
      BY <3>2, <3>6, <3>7, SteadyView DEF Leads, Idles, Runs
    <3> QED BY <2>4, <2>6, <3>5, <3>7, <3>8 DEF Proceeds
  <2> QED BY <2>2, <2>5, <2>6, CallsAssumption
<1> QED BY <1>2, <1>3

-----------------------------------------------------------------------------
(* Calls of functions.                                                        *)

(* A C function's frame is entered, or there is no room for it. *)
LEMMA EnterHolds ==
  ASSUME NEW x, NEW lv, Ready(x, lv), NEW f \in Frame \ {"lua"}
  PROVE  /\ GrowCI(x).raised # "no" => Proceeds(x, GrowCI(x))
         /\ GrowCI(x).raised = "no" =>
              /\ Leads(x, Entered(x, f)) /\ Runs(Entered(x, f), lv) /\ Above(Entered(x, f), lv)
              /\ Last(Entered(x, f).cs).k \in {"exec", "call"}
              /\ Top(Entered(x, f).cs, lv, Len(Entered(x, f).cs)) + 1 = Len(T(Entered(x, f)).ci)
<1>1. Runs(x, lv) /\ Last(x.cs).k \in {"exec", "call"} /\ Holds(x, lv) /\ x \in World /\ x.cs # <<>>
  BY DEF Ready, Runs, Holds
<1>2. ASSUME GrowCI(x).raised # "no" PROVE Proceeds(x, GrowCI(x))
  <2> DEFINE g == GrowCI(x)
  <2>1. Grows(x, lv, g)
    BY <1>1, GrowHolds
  <2> HIDE DEF g
  <2>2. Leads(x, g)
    BY <1>1, <2>1, GrowLeads DEF Leads
  <2> QED BY <1>1, <2>2, LeadsOn DEF g
<1>3. ASSUME GrowCI(x).raised = "no"
      PROVE  /\ Leads(x, Entered(x, f)) /\ Runs(Entered(x, f), lv) /\ Above(Entered(x, f), lv)
             /\ Last(Entered(x, f).cs).k \in {"exec", "call"}
             /\ Top(Entered(x, f).cs, lv, Len(Entered(x, f).cs)) + 1 = Len(T(Entered(x, f)).ci)
  <2> DEFINE y == Entered(x, f)
  <2>1. Entering(x, lv, f, y)
    BY <1>1, <1>3, EnteredHolds
  <2> HIDE DEF y
  <2>2. Steady(x, y)
    <3>1. T(y).made = T(x).made /\ T(y).fresh = T(x).fresh
      BY <2>1 DEF Entering, Alike
    <3> QED BY <1>1, <2>1, <3>1, SteadyHere DEF Entering
  <2>3. Len(T(y).ci) = Len(T(x).ci) + 1
    <3>1. T(x).ci \in Seq(Frame)
      BY <1>1, LastIs, RecIs
    <3> QED BY <2>1, <3>1, Frames DEF Entering
  <2>4. Top(y.cs, lv, Len(y.cs)) + 1 = Len(T(y).ci)
    BY <2>1, <2>3 DEF Entering, Ready
  <2> QED BY <1>1, <2>1, <2>2, <2>4 DEF Entering, Leads, Runs, y
<1> QED BY <1>2, <1>3

(* A call of a function that calls nothing itself. *)
LEMMA PrecallSimpleHolds ==
  ASSUME NEW x, NEW lv, Ready(x, lv), NEW f, Simple(f)
  PROVE  Proceeds(x, PrecallSimple(x, f))
<1>1. Runs(x, lv) /\ Last(x.cs).k \in {"exec", "call"} /\ Holds(x, lv)
  BY DEF Ready, Runs
<1>2. CASE f[1] = "lua"
  <2>1. Leads(x, EnterLua(x))
    BY <1>1, EnterLuaHolds
  <2> QED BY <1>1, <1>2, <2>1, LeadsOn DEF PrecallSimple
<1>3. CASE f[1] # "lua"
  <2> DEFINE y == Entered(x, f[1])
             z == IF f[1] = "yield" THEN LuaYield(y) ELSE AuxResume(y, f[2])
  <2>1. f[1] \in Frame \ {"lua"} /\ (f[1] # "yield" => f[2] \in Coroutines)
    BY <1>3 DEF Simple, Frame
  <2>2. PrecallSimple(x, f) = IF GrowCI(x).raised # "no" THEN GrowCI(x) ELSE z
    <3>1. L(GrowCI(x)) = L(x)
      BY <1>1, GrowHolds DEF Grows
    <3> QED BY <1>3, <3>1 DEF PrecallSimple, EnterCI, Entered
  <2>3. CASE GrowCI(x).raised # "no"
    BY <2>1, <2>2, <2>3, EnterHolds
  <2>4. CASE GrowCI(x).raised = "no"
    <3>1. /\ Leads(x, y) /\ Runs(y, lv) /\ Above(y, lv) /\ Last(y.cs).k \in {"exec", "call"}
          /\ Top(y.cs, lv, Len(y.cs)) + 1 = Len(T(y).ci)
      BY <2>1, <2>4, EnterHolds
    <3>2. Proceeds(y, z)
      <4> HIDE DEF y
      <4>1. CASE f[1] = "yield"
        <5>1. Leads(y, LuaYield(y))
          BY <3>1, LuaYieldHolds
        <5> QED BY <3>1, <4>1, <5>1, LeadsOn DEF Runs
      <4>2. CASE f[1] # "yield"
        <5>1. Proceeds(y, AuxResume(y, f[2]))
          BY <2>1, <3>1, <4>2, AuxResumeHolds
        <5> QED BY <4>2, <5>1
      <4> QED BY <4>1, <4>2
    <3> HIDE DEF y, z
    <3> QED BY <1>1, <2>2, <2>4, <3>1, <3>2, LeadsOn
  <2> QED BY <2>3, <2>4
<1> QED BY <1>2, <1>3

(* Where luaD_call may be called.                                             *)
Calls(x, lv) ==
  /\ Runs(x, lv)
  /\ Last(x.cs).k \in {"pcall", "handler"} \/ (Ready(x, lv) /\ Last(x.cs).k = "exec")

(* Its count may end the call. *)
LEMMA CalledLeads ==
  ASSUME NEW x, NEW lv, Calls(x, lv)
  PROVE  /\ T(Called(x)).ncc = MaxCcalls => Proceeds(x, Raise(Called(x), "error"))
         /\ T(Called(x)).ncc >= MaxCcalls + Spare => Proceeds(x, Raise(Called(x), "errerr"))
         /\ T(Called(x)).ncc # MaxCcalls /\ ~(T(Called(x)).ncc >= MaxCcalls + Spare) =>
              Leads(x, Called(x)) /\ \E lw : Ready(Called(x), lw)
<1> DEFINE d == T(x).ncc + 1
           a == [k |-> "call", th |-> L(x)]
<1>1. /\ x \in World /\ x.cs # <<>> /\ x.raised = "no" /\ Holds(x, lv) /\ x.cs \in Seq(Act) /\ T(x).ncc < MaxCcalls + Spare
  BY DEF Calls, Runs, Holds, World, Limits
<1>2. T(x) \in Rec /\ T(x).ncc \in Nat /\ d \in Nat /\ L(x) \in Thread /\ T(x) = x.t[L(x)]
  BY <1>1, LastIs, RecIs
<1>3. T(Called(x)).ncc = d
  <2>1. Called(x).t = [x.t EXCEPT ![L(x)] = [T(x) EXCEPT !.ncc = d]] /\ Called(x).cs = Append(x.cs, a)
    BY <1>1, <1>2 DEF Called, Push, World
  <2>2. L(Called(x)) = L(x)
    <3>1. Append(x.cs, a) # <<>> /\ Append(x.cs, a)[Len(Append(x.cs, a))] = a
      BY <1>1
    <3> HIDE DEF a
    <3>2. Last(Called(x).cs) = a
      BY <2>1, <3>1 DEF Last
    <3> QED BY <3>2 DEF L, a
  <2>3. T(Called(x)) = [T(x) EXCEPT !.ncc = d]
    <3> HIDE DEF a, d
    <3> QED BY <1>1, <1>2, <2>1, <2>2 DEF T, World
  <2> QED BY <1>2, <2>3 DEF Rec
<1>4. ASSUME NEW w \in {"no", "error", "errerr"}, Within(d, w)
      PROVE  Leads(x, Raise(Called(x), w)) /\ (w = "no" => \E lw : Ready(Raise(Called(x), w), lw))
  <2> DEFINE y == Raise(Called(x), w)
  <2>1. Runs(x, lv) /\ (Last(x.cs).k \in {"pcall", "handler"} \/ (Ready(x, lv) /\ Last(x.cs).k = "exec"))
    BY DEF Calls
  <2>2. PICK lw : /\ Holds(y, lw) /\ y.raised = w /\ y.may = x.may /\ y.out = x.out /\ L(y) = L(x)
                  /\ T(y) = [T(x) EXCEPT !.ncc = @ + 1]
                  /\ Last(y.cs) = [k |-> "call", th |-> L(x)]
                  /\ \A th \in Thread \ {L(x)} : y.t[th] = x.t[th]
                  /\ w = "no" => Ready(y, lw)
    BY <1>4, <2>1, CalledHolds
  <2>3. y.cs = Append(x.cs, a)
    BY <1>1 DEF Raise, Called, Push, World
  <2> HIDE DEF y
  <2>4. Steady(x, y)
    <3>1. T(y).made = T(x).made /\ T(y).fresh = T(x).fresh
      BY <1>2, <2>2 DEF Rec
    <3>2. a \in Act /\ a.k # "resume" /\ a.th = L(x)
      BY <1>2 DEF Act
    <3> HIDE DEF a
    <3>3. /\ y.may = x.may /\ y.out = x.out
          /\ \A th \in Thread \ {L(x)} : Look(y.t[th]) = Look(x.t[th])
      BY <2>2
    <3> QED BY <1>1, <2>3, <3>1, <3>2, <3>3, SteadyPush
  <2> QED BY <2>2, <2>4 DEF Leads, y
<1>5. Raise(Called(x), "no") = Called(x)
  BY <1>1 DEF Raise, Called, Push, World
<1>6. /\ d = MaxCcalls => Within(d, "error")
      /\ d >= MaxCcalls + Spare => Within(d, "errerr")
      /\ ~(d >= MaxCcalls + Spare) => Within(d, "no")
  BY <1>1, <1>2, CallsAssumption DEF Within
<1>7. ASSUME d = MaxCcalls PROVE Proceeds(x, Raise(Called(x), "error"))
  <2>1. Within(d, "error")
    BY <1>6, <1>7
  <2>2. Leads(x, Raise(Called(x), "error"))
    BY <1>4, <2>1
  <2> QED BY <1>1, <2>2, LeadsOn
<1>8. ASSUME d >= MaxCcalls + Spare PROVE Proceeds(x, Raise(Called(x), "errerr"))
  <2>1. Within(d, "errerr")
    BY <1>6, <1>8
  <2>2. Leads(x, Raise(Called(x), "errerr"))
    BY <1>4, <2>1
  <2> QED BY <1>1, <2>2, LeadsOn
<1>9. ASSUME ~(d >= MaxCcalls + Spare) PROVE Leads(x, Called(x)) /\ \E lw : Ready(Called(x), lw)
  <2>1. Within(d, "no")
    BY <1>6, <1>9
  <2> QED BY <1>4, <1>5, <2>1
<1> QED BY <1>3, <1>7, <1>8, <1>9

(* A protected call, or one for a handler, of a function that calls nothing itself. *)
LEMMA DCallSimpleHolds ==
  ASSUME NEW x, NEW lv, Calls(x, lv), NEW f, Simple(f)
  PROVE  Proceeds(x, DCall(x, f, PrecallSimple))
<1> DEFINE y == Called(x)
<1>1. DCall(x, f, PrecallSimple) = IF T(y).ncc = MaxCcalls THEN Raise(y, "error")
        ELSE IF T(y).ncc >= MaxCcalls + Spare THEN Raise(y, "errerr") ELSE PrecallSimple(y, f)
  BY DEF DCall, Called
<1> HIDE DEF y
<1>2. CASE T(y).ncc # MaxCcalls /\ ~(T(y).ncc >= MaxCcalls + Spare)
  <2>1. Leads(x, y) /\ \E lw : Ready(y, lw)
    BY <1>2, CalledLeads DEF y
  <2>2. PICK lw : Ready(y, lw)
    BY <2>1
  <2>3. Proceeds(y, PrecallSimple(y, f))
    BY <2>2, PrecallSimpleHolds
  <2> QED BY <1>1, <1>2, <2>1, <2>3, LeadsOn DEF Calls, Runs
<1>3. CASE ~(T(y).ncc # MaxCcalls /\ ~(T(y).ncc >= MaxCcalls + Spare))
  BY <1>1, <1>3, CalledLeads DEF y
<1> QED BY <1>2, <1>3

(* Functions a program may call, and handlers.                                *)
Callable(f) == Simple(f) \/ (f[1] \in {"pcall", "xpcall"} /\ Simple(f[2]) /\ (f[1] = "xpcall" => f[3] \in Handlers))

(* A call of any function. *)
LEMMA PrecallHolds ==
  ASSUME NEW x, NEW lv, Ready(x, lv), NEW f, Callable(f)
  PROVE  Proceeds(x, Precall(x, f))
<1>1. Runs(x, lv) /\ Last(x.cs).k \in {"exec", "call"} /\ Holds(x, lv)
  BY DEF Ready, Runs
<1>2. CASE f[1] \notin {"pcall", "xpcall"}
  <2>1. Simple(f) /\ Precall(x, f) = PrecallSimple(x, f)
    BY <1>2 DEF Callable, Precall
  <2> QED BY <2>1, PrecallSimpleHolds
<1>3. CASE f[1] \in {"pcall", "xpcall"}
  <2> DEFINE ef == IF f[1] = "pcall" THEN None ELSE f[3]
             y == Entered(x, f[1])
             z == DCall(PCall(y, ef), f[2], PrecallSimple)
  <2>1. f[1] \in Frame \ {"lua"} /\ ef \in ErrFunc /\ Simple(f[2])
    BY <1>3 DEF Callable, Simple, Frame, ErrFunc
  <2>2. Precall(x, f) = IF GrowCI(x).raised # "no" THEN GrowCI(x) ELSE z
    <3>1. L(GrowCI(x)) = L(x)
      BY <1>1, GrowHolds DEF Grows
    <3>2. CASE f[1] = "pcall"
      <4>1. Precall(x, f) = EnterCI(x, "pcall", LAMBDA yy : DCall(PCall(yy, None), f[2], PrecallSimple))
        BY <3>2 DEF Precall
      <4> QED BY <3>1, <3>2, <4>1 DEF EnterCI, Entered
    <3>3. CASE f[1] = "xpcall"
      <4>1. Precall(x, f) = EnterCI(x, "xpcall", LAMBDA yy : DCall(PCall(yy, f[3]), f[2], PrecallSimple))
        BY <3>3 DEF Precall
      <4> QED BY <3>1, <3>3, <4>1 DEF EnterCI, Entered
    <3> QED BY <1>3, <3>2, <3>3
  <2>3. CASE GrowCI(x).raised # "no"
    BY <2>1, <2>2, <2>3, EnterHolds
  <2>4. CASE GrowCI(x).raised = "no"
    <3>1. Leads(x, y) /\ Runs(y, lv) /\ Above(y, lv) /\ Last(y.cs).k \in {"exec", "call"}
      BY <2>1, <2>4, EnterHolds
    <3> HIDE DEF y, ef
    <3> DEFINE p == PCall(y, ef)
    <3>2. /\ \E lw : Runs(p, lw)
          /\ Steady(y, p) /\ Last(p.cs).k = "pcall"
      BY <2>1, <3>1, PCallHolds
    <3> HIDE DEF p
    <3>3. PICK lw : Runs(p, lw)
      BY <3>2
    <3>4. Leads(y, p) /\ Calls(p, lw)
      BY <3>2, <3>3 DEF Leads, Runs, Calls
    <3>5. Proceeds(p, z)
      BY <2>1, <3>4, DCallSimpleHolds DEF p
    <3>6. Proceeds(y, z)
      BY <3>1, <3>4, <3>5, LeadsOn DEF Runs
    <3> HIDE DEF z
    <3> QED BY <1>1, <2>2, <2>4, <3>1, <3>6, LeadsOn
  <2> QED BY <2>3, <2>4
<1> QED BY <1>2, <1>3

(* A call of any function from C. *)
LEMMA DCallHolds ==
  ASSUME NEW x, NEW lv, Calls(x, lv), NEW f, Callable(f)
  PROVE  Proceeds(x, DCall(x, f, Precall))
<1> DEFINE y == Called(x)
<1>1. DCall(x, f, Precall) = IF T(y).ncc = MaxCcalls THEN Raise(y, "error")
        ELSE IF T(y).ncc >= MaxCcalls + Spare THEN Raise(y, "errerr") ELSE Precall(y, f)
  BY DEF DCall, Called
<1> HIDE DEF y
<1>2. CASE T(y).ncc # MaxCcalls /\ ~(T(y).ncc >= MaxCcalls + Spare)
  <2>1. Leads(x, y) /\ \E lw : Ready(y, lw)
    BY <1>2, CalledLeads DEF y
  <2>2. PICK lw : Ready(y, lw)
    BY <2>1
  <2>3. Proceeds(y, Precall(y, f))
    BY <2>2, PrecallHolds
  <2> QED BY <1>1, <1>2, <2>1, <2>3, LeadsOn DEF Calls, Runs
<1>3. CASE ~(T(y).ncc # MaxCcalls /\ ~(T(y).ncc >= MaxCcalls + Spare))
  BY <1>1, <1>3, CalledLeads DEF y
<1> QED BY <1>2, <1>3

-----------------------------------------------------------------------------
(* Ends of coroutines.                                                        *)

(* What a program sees of an end: the resumer of c runs. *)
LEMMA LeaveView ==
  ASSUME NEW x, NEW lv, Holds(x, lv), NEW y, NEW lw, Holds(y, lw), NEW c \in Coroutines, L(x) = c, L(y) # c,
         On(y.cs) = On(x.cs) \ {c}, <<L(y), c>> \in Resumed(x.cs), Resumed(y.cs) = Resumed(x.cs) \ {<<L(y), c>>},
         \A r : <<r, c>> \in Resumed(x.cs) => r = L(y),
         \A d \in Thread \ {c} : y.t[d] = x.t[d], y.t[c].made, ~y.t[c].fresh
  PROVE  Leaves(View(x), c, Rest(Look(y.t[c])), View(y))
<1>1. Shows(x) /\ Shows(y) /\ c \in Thread /\ c # Main
  BY Showing, CallsAssumption DEF Thread
<1>2. L(y) \in Thread /\ L(y) \in On(x.cs) /\ x.t[c].made /\ ~x.t[c].fresh
  BY <1>1 DEF Shows
<1>3. /\ StateIn(x, c) = "running" /\ StateIn(x, L(y)) = "normal" /\ StateIn(y, L(y)) = "running"
      /\ StateIn(y, c) = Rest(Look(y.t[c]))
  BY <1>1, <1>2 DEF Shows
<1>4. \A d \in Thread \ {c, L(y)} : StateIn(y, d) = StateIn(x, d)
  BY <1>1, <1>2 DEF Shows
<1>5. Waits(x, c) = L(y)
  BY <1>2 DEF Waits
<1>6. Waits(y, c) = Main
  <2>1. \A r : <<r, c>> \notin Resumed(y.cs)
    OBVIOUS
  <2> QED BY <2>1 DEF Waits
<1>7. \A d \in Thread \ {c} : Waits(y, d) = Waits(x, d)
  <2> TAKE d \in Thread \ {c}
  <2>1. \A r : <<r, d>> \in Resumed(y.cs) <=> <<r, d>> \in Resumed(x.cs)
    OBVIOUS
  <2> QED BY <2>1 DEF Waits
<1>8. BegunIn(y) = BegunIn(x)
  BY <1>1, <1>2 DEF BegunIn
<1> DEFINE as == Rest(Look(y.t[c]))
<1>9. /\ [d \in Thread |-> StateIn(y, d)] = [[d \in Thread |-> StateIn(x, d)] EXCEPT ![c] = as, ![L(y)] = "running"]
      /\ [d \in Thread |-> Waits(y, d)] = [[d \in Thread |-> Waits(x, d)] EXCEPT ![c] = Main]
  <2> HIDE DEF as
  <2>1. StateIn(y, c) = as
    BY <1>3 DEF as
  <2> QED BY <1>1, <1>2, <1>3, <1>4, <1>6, <1>7, <2>1
<1> HIDE DEF as
<1>10. Leaves(View(x), c, as, View(y))
  BY <1>1, <1>2, <1>3, <1>5, <1>8, <1>9 DEF Leaves, View
<1> QED BY <1>10 DEF as

(* Control is back with the resumer, in the C function that resumed c.        *)
Left(x, lw, c, r, y) ==
  /\ Runs(y, lw) /\ Last(y.cs).k \in {"exec", "call"} /\ Above(y, lw)
  /\ Leaves(View(x), c, Rest(Look(r)), View(y))

(* A coroutine yields, ends or fails. *)
LEMMA LeaveHolds ==
  ASSUME NEW x, NEW lv, Holds(x, lv), NEW n, n = Len(x.cs), NEW m \in 1 .. n, x.cs[m].k = "resume",
         \A i \in m .. n : x.cs[i].th = L(x), \A i \in m + 1 .. n : x.cs[i].k # "resume",
         NEW r \in Rec, Sized(r), Resting(r), r.made, ~r.fresh,
         NEW y, y = Goes(x, L(x), r, SubSeq(x.cs, 1, m - 1), "no")
  PROVE  Left(x, SubSeq(lv, 1, m - 1), L(x), r, y)
<1> DEFINE c == L(x)
           p == x.cs[m - 1].th
           ds == SubSeq(x.cs, 1, m - 1)
           lw == SubSeq(lv, 1, m - 1)
<1>1. /\ x \in World /\ x.t \in [Thread -> Rec] /\ x.cs \in Seq(Act) /\ Good(x.t, x.cs, lv) /\ x.out = "running"
      /\ x.cs # <<>>
  BY DEF Holds, World
<1>2. n \in Nat \ {0} /\ c \in Thread /\ m \in Nat \ {0} /\ m \in m .. n /\ m \in 1 .. Len(x.cs)
  BY <1>1, LastIs
<1>3. x.cs[m].th = c
  BY <1>2
<1>4. /\ c \in Coroutines /\ m - 1 \in 1 .. n /\ x.cs[m - 1].k \in {"exec", "call"}
      /\ Top(x.cs, lv, m - 1) < Len(x.t[p].ci) /\ x.t[p].status = "ok"
      /\ \A i \in 1 .. m - 1 : x.cs[i].th # c
  <2> HIDE DEF c
  <2>1. x.t \in [Thread -> Rec] /\ x.cs \in Seq(Act) /\ Good(x.t, x.cs, lv) /\ x.cs[m].k = "resume"
    BY <1>1
  <2> QED BY <1>2, <1>3, <2>1, Resumer
<1>5. /\ ds \in Seq(Act) /\ Len(ds) = m - 1 /\ ds # <<>> /\ m - 1 \in Nat \ {0} /\ m - 1 \in 1 .. m - 1
      /\ \A i \in 1 .. m - 1 : ds[i] = x.cs[i]
  BY <1>1, <1>2, <1>4
<1>6. p \in Thread /\ p # c
  <2>1. x.cs[m - 1] \in Act
    BY <1>1, <1>4
  <2>2. p # c
    BY <1>4, <1>5
  <2> QED BY <2>1, <2>2, ActIs
<1>7. Good([x.t EXCEPT ![c] = r], ds, lw)
  <2>1. \A i \in m + 1 .. Len(x.cs) : x.cs[i].th = c /\ x.cs[i].k # "resume"
    <3> TAKE i \in m + 1 .. Len(x.cs)
    <3>1. i \in m .. n /\ i \in m + 1 .. n
      BY <1>2
    <3> QED BY <3>1
  <2> HIDE DEF c
  <2> QED BY <1>1, <1>2, <1>3, <2>1, LeaveKeeps
<1> HIDE DEF c
<1>8. Went(x, c, r, ds, "no", y)
  BY <1>1, <1>2, <1>5, GoesIs DEF c
<1> HIDE DEF ds, p
<1>9. Last(y.cs) = x.cs[m - 1] /\ L(y) = p /\ T(y) = x.t[p] /\ y.cs # <<>> /\ Len(y.cs) = m - 1
  <2>1. Last(y.cs) = x.cs[m - 1]
    BY <1>5, <1>8 DEF Went, Last
  <2>2. L(y) = p
    BY <2>1 DEF L, p
  <2> QED BY <1>5, <1>6, <1>8, <2>1, <2>2 DEF Went, T
<1>10. T(y).ncc < MaxCcalls
  <2>1. /\ Ends(x.cs, m - 1) => x.t[x.cs[m - 1].th].ncc = Depth(x.cs, m - 1)
        /\ x.cs[m].k = "resume" => Depth(x.cs, m - 1) < MaxCcalls
    BY <1>1, <1>2, <1>4 DEF Good, Counted
  <2>2. Ends(x.cs, m - 1)
    <3>1. (m - 1) + 1 = m
      BY <1>2
    <3> QED BY <3>1 DEF Ends
  <2> QED BY <1>9, <2>1, <2>2 DEF p
<1>11. Limits(y)
  <2>1. T(y).ncc \in Nat
    BY <1>1, <1>6, <1>9, RecIs
  <2>2. T(y).ncc < MaxCcalls + Spare
    BY <1>10, <2>1, CallsAssumption
  <2> QED BY <1>8, <2>2 DEF Limits, Went
<1>12. Runs(y, lw)
  BY <1>1, <1>4, <1>7, <1>8, <1>9, <1>11 DEF Runs, Holds, Went
<1>13. Above(y, lw)
  <2>1. Top(y.cs, lw, m - 1) = Top(x.cs, lv, m - 1)
    <3>1. lw[m - 1] = lv[m - 1]
      BY <1>1, <1>2, <1>4, <1>5 DEF Good
    <3>2. y.cs[m - 1] = x.cs[m - 1]
      BY <1>5, <1>8 DEF Went
    <3> HIDE DEF lw
    <3> QED BY <3>1, <3>2 DEF Top
  <2> QED BY <1>4, <1>9, <2>1 DEF Above
<1> HIDE DEF lw
<1>14. On(y.cs) = On(x.cs) \ {c}
  <2>1. \A th \in On(y.cs) : th \in On(x.cs) \ {c}
    <3>1. \A i \in 1 .. m - 1 : i \in 1 .. n /\ x.cs[i].th \in On(x.cs) \ {c}
      <4> TAKE i \in 1 .. m - 1
      <4>1. i \in 1 .. Len(x.cs)
        BY <1>2
      <4> QED BY <1>4, <4>1 DEF On
    <3>2. On(y.cs) = {ds[i].th : i \in 1 .. m - 1}
      BY <1>5, <1>8 DEF On, Went
    <3> QED BY <1>5, <3>1, <3>2
  <2>2. \A th \in On(x.cs) : th = c \/ th \in On(y.cs)
    <3>1. ASSUME NEW i \in 1 .. n PROVE x.cs[i].th = c \/ x.cs[i].th \in On(y.cs)
      <4>1. CASE i \in m .. n
        BY <4>1 DEF c
      <4>2. CASE i \notin m .. n
        <5>1. i \in 1 .. m - 1
          BY <1>2, <4>2
        <5> QED BY <1>5, <1>8, <5>1 DEF On, Went
      <4> QED BY <4>1, <4>2
    <3> QED BY <3>1 DEF On
  <2> QED BY <2>1, <2>2
<1> DEFINE J == {j \in 2 .. n : x.cs[j].k = "resume"}
           I == {j \in 2 .. m - 1 : x.cs[j].k = "resume"}
<1>15. J = I \cup {m} /\ m \notin I
  <2>1. ASSUME NEW j \in J PROVE j \in I \cup {m}
    <3>1. ~(j \in m + 1 .. n)
      OBVIOUS
    <3> QED BY <1>2, <3>1
  <2>2. ASSUME NEW j \in I PROVE j \in J
    BY <1>2
  <2>3. m \in 2 .. n
    BY <1>2, <1>4
  <2> QED BY <2>1, <2>2, <2>3, <1>2
<1> DEFINE P(i) == <<x.cs[i - 1].th, x.cs[i].th>>
<1>16. Resumed(x.cs) = {P(i) : i \in J}
  BY DEF Resumed
<1>17. Resumed(y.cs) = {P(i) : i \in I}
  <2>1. {j \in 2 .. m - 1 : ds[j].k = "resume"} = I
    <3>1. \A j \in 2 .. m - 1 : ds[j].k = x.cs[j].k
      <4> TAKE j \in 2 .. m - 1
      <4>1. j \in 1 .. m - 1
        OBVIOUS
      <4> QED BY <1>5, <4>1
    <3> QED BY <3>1
  <2>2. \A j \in I : <<ds[j - 1].th, ds[j].th>> = P(j)
    <3> TAKE j \in I
    <3>1. j \in 1 .. m - 1 /\ j - 1 \in 1 .. m - 1
      OBVIOUS
    <3>2. ds[j] = x.cs[j] /\ ds[j - 1] = x.cs[j - 1]
      BY <1>5, <3>1
    <3> QED BY <3>2
  <2>3. Resumed(y.cs) = {<<ds[j - 1].th, ds[j].th>> : j \in I}
    <3>1. y.cs = ds /\ Len(ds) = m - 1
      BY <1>5, <1>8 DEF Went
    <3>2. Resumed(ds) = {<<ds[i - 1].th, ds[i].th>> : i \in {j \in 2 .. m - 1 : ds[j].k = "resume"}}
      BY <3>1 DEF Resumed
    <3> HIDE DEF I, P
    <3> QED BY <2>1, <3>1, <3>2
  <2> HIDE DEF I, P
  <2> QED BY <2>2, <2>3
<1>18. P(m) = <<p, c>>
  BY <1>3 DEF p
<1>19. \A i \in I : P(i)[2] # c
  <2> TAKE i \in I
  <2>1. i \in 1 .. m - 1 /\ P(i)[2] = x.cs[i].th
    OBVIOUS
  <2> QED BY <1>4, <2>1
<1>20. /\ <<p, c>> \in Resumed(x.cs) /\ Resumed(y.cs) = Resumed(x.cs) \ {<<p, c>>}
       /\ \A q : <<q, c>> \in Resumed(x.cs) => q = p
  <2> HIDE DEF P, I, J
  <2>1. Resumed(x.cs) = {P(i) : i \in I} \cup {<<p, c>>}
    BY <1>15, <1>16, <1>18
  <2>2. \A q : <<q, c>> \notin {P(i) : i \in I}
    BY <1>19
  <2> QED BY <1>17, <2>1, <2>2
<1>21. Leaves(View(x), c, Rest(Look(y.t[c])), View(y))
  <2>1. \A d \in Thread \ {c} : y.t[d] = x.t[d]
    BY <1>8 DEF Went
  <2>2. y.t[c].made /\ ~y.t[c].fresh
    BY <1>8 DEF Went
  <2>3. Holds(y, lw)
    BY <1>12 DEF Runs
  <2> HIDE DEF P, I, J
  <2> QED BY <1>4, <1>6, <1>9, <1>14, <1>20, <2>1, <2>2, <2>3, LeaveView DEF c
<1> QED BY <1>4, <1>8, <1>9, <1>12, <1>13, <1>21 DEF Left, Went, lw, c

(* Steps within the resumer may come after. *)
LEMMA LeftOn ==
  ASSUME NEW x, NEW lw, NEW c \in Thread, NEW r, NEW y, Left(x, lw, c, r, y),
         Rest(Look(r)) \in {"suspended", "dead"}, NEW z, Leads(y, z)
  PROVE  Proceeds(x, z)
<1>1. Holds(y, lw)
  BY DEF Left, Runs
<1>2. PICK lz : Holds(z, lz)
  BY DEF Leads
<1>3. View(z) = View(y)
  BY <1>1, <1>2, SteadyView DEF Leads
<1> QED BY <1>2, <1>3 DEF Left, Proceeds, MayTurn

-----------------------------------------------------------------------------
(* Ends of calls.                                                             *)

Fares(x, y) == Fits(y) /\ MayTurn(View(x), View(y))

(* What proceeds is a state again. *)
LEMMA ProceedsFares ==
  ASSUME NEW x, NEW y, Proceeds(x, y)
  PROVE  Fares(x, y)
BY DEF Proceeds, Fares, Fits, Holds, Good

(* The host's call is over: no coroutine is left on the C stack. *)
LEMMA EndHolds ==
  ASSUME NEW x, NEW lv, Holds(x, lv), L(x) = Main,
         NEW r \in Rec, Sized(r), r.baseCc = 0, r.made, ~r.fresh, NEW o \in {"done", "exit"},
         NEW y, y = [Goes(x, Main, r, <<>>, "no") EXCEPT !.out = o]
  PROVE  Fares(x, y)
<1>1. /\ x \in World /\ x.t \in [Thread -> Rec] /\ x.cs \in Seq(Act) /\ Good(x.t, x.cs, lv) /\ x.cs # <<>>
      /\ Stacked(x.cs)
  BY DEF Holds, World, Good
<1> DEFINE n == Len(x.cs)
<1>2. n \in Nat \ {0} /\ x.cs[n].th = Main /\ x.cs[1].th = Main /\ x.cs[1].k # "resume" /\ Main \in Thread
  <2>1. n \in Nat \ {0} /\ L(x) = x.cs[n].th
    BY <1>1, LastIs
  <2> QED BY <1>1, <2>1 DEF Stacked, Thread
<1>3. \A i \in 1 .. n : x.cs[i].th = Main /\ x.cs[i].k # "resume"
  <2> TAKE i \in 1 .. n
  <2>1. CASE i = 1
    BY <1>2, <2>1
  <2>2. CASE i # 1
    <3>1. 1 \in 1 .. n /\ n \in 1 .. n /\ 1 < n /\ i \in 1 + 1 .. n
      BY <1>2, <2>2
    <3>2. x.cs[1].th = x.cs[n].th
      BY <1>2
    <3>3. \A m \in 1 + 1 .. n : x.cs[m].th = x.cs[1].th /\ x.cs[m].k # "resume"
      BY <1>1, <3>1, <3>2 DEF Stacked
    <3> QED BY <1>2, <3>1, <3>3
  <2> QED BY <2>1, <2>2
<1>4. On(x.cs) = {Main} /\ Resumed(x.cs) = {}
  <2>1. n \in 1 .. n
    BY <1>2
  <2>2. On(x.cs) = {Main}
    BY <1>3, <2>1 DEF On
  <2>3. \A i \in 2 .. n : i \in 1 .. n
    OBVIOUS
  <2> QED BY <1>3, <2>2, <2>3 DEF Resumed
<1>5. /\ y \in World /\ y.t = [x.t EXCEPT ![Main] = r] /\ y.cs = <<>> /\ y.raised = "no" /\ y.out = o
      /\ y.t[Main] = r /\ \A d \in Thread \ {Main} : y.t[d] = x.t[d]
  <2> DEFINE g == Goes(x, Main, r, <<>>, "no")
  <2>1. <<>> \in Seq(Act)
    OBVIOUS
  <2>2. Went(x, Main, r, <<>>, "no", g)
    BY <1>1, <1>2, <2>1, GoesIs
  <2> HIDE DEF g
  <2>3. y = [g EXCEPT !.out = o] /\ g \in World
    BY <2>2 DEF Went, g
  <2>4. y \in World /\ y.t = g.t /\ y.cs = g.cs /\ y.raised = g.raised /\ y.out = o
    BY <2>3 DEF World
  <2> QED BY <2>2, <2>4 DEF Went
<1>6. Fits(y)
  <2>1. Good(y.t, <<>>, <<>>)
    <3>1. x.cs[Len(x.cs)].th = Main
      BY <1>2
    <3> QED BY <1>1, <1>5, <3>1, EndKeeps
  <2>2. <<>> \in Seq(Nat)
    OBVIOUS
  <2> QED BY <1>5, <2>1, <2>2 DEF Fits
<1>7. Shows(x)
  BY Showing
<1>8. \A c \in Thread : StateIn(x, c) = StateIn(y, c)
  <2> TAKE c \in Thread
  <2>0. Running(y) = Main
    BY <1>5 DEF Running
  <2>1. CASE c = Main
    <3>1. StateIn(y, c) = "running"
      BY <1>5, <2>0, <2>1 DEF StateIn, CoStatus
    <3> QED BY <1>7, <2>1, <3>1 DEF Shows
  <2>2. CASE c # Main
    <3>1. StateIn(x, c) = Rest(Look(x.t[c])) /\ y.t[c] = x.t[c]
      BY <1>4, <1>5, <1>7, <2>2 DEF Shows
    <3>2. x.t[c].status \in {"ok", "yield", "err"}
      BY <1>1 DEF Rec
    <3>3. StateIn(y, c) = Rest(Look(y.t[c]))
      BY <2>0, <2>2, <3>1, <3>2 DEF StateIn, CoStatus, Rest, Look
    <3> QED BY <3>1, <3>3
  <2> QED BY <2>1, <2>2
<1>9. \A c \in Thread : Waits(x, c) = Waits(y, c)
  <2>1. Resumed(y.cs) = {}
    BY <1>5 DEF Resumed
  <2> QED BY <1>4, <2>1 DEF Waits
<1>10. BegunIn(x) = BegunIn(y)
  BY <1>5 DEF BegunIn
<1>11. View(x) = View(y)
  BY <1>8, <1>9, <1>10 DEF View
<1> QED BY <1>6, <1>11 DEF Fares, MayTurn

(* A protected call ends: the frames above it are gone, and its function returns. *)
LEMMA PCallEnds ==
  ASSUME NEW x, NEW lv, Holds(x, lv), T(x).status = "ok", NEW n, n = Len(x.cs), NEW i \in 1 .. n, x.cs[i].k = "pcall",
         \A j \in i .. n : x.cs[j].th = L(x), \A j \in i + 1 .. n : x.cs[j].k # "resume",
         NEW r \in Rec, Alike(r, T(x)), Sized(r), lv[i] <= Len(r.ci),
         \A j \in 1 .. lv[i] : r.ci[j] = T(x).ci[j], \A j \in lv[i] + 1 .. Len(r.ci) : r.ci[j] # "lua",
         r.ncc = x.cs[i].ncc, r.errfunc = x.cs[i].errfunc,
         NEW y, y = Goes(x, L(x), r, SubSeq(x.cs, 1, i - 1), "no")
  PROVE  Fares(x, Return(y))
<1> DEFINE m == i - 1
           lw == SubSeq(lv, 1, m)
           ds == SubSeq(x.cs, 1, m)
<1>1. /\ x \in World /\ x.t \in [Thread -> Rec] /\ x.cs \in Seq(Act) /\ Good(x.t, x.cs, lv) /\ x.cs # <<>> /\ x.out = "running"
      /\ Stacked(x.cs) /\ lv \in Seq(Nat) /\ Len(lv) = n
  BY DEF Holds, World, Good
<1>2. /\ n \in Nat \ {0} /\ L(x) \in Thread /\ T(x) = x.t[L(x)] /\ T(x) \in Rec /\ i \in i .. n /\ i \in 1 .. Len(x.cs)
      /\ x.cs[i].th = L(x) /\ i \in Nat \ {0}
  <2>1. n \in Nat \ {0} /\ L(x) \in Thread /\ T(x) = x.t[L(x)] /\ T(x) \in Rec
    BY <1>1, LastIs
  <2> QED BY <2>1
<1>3. /\ x.cs[i].ncc = Depth(x.cs, i) /\ x.cs[i].ncc < MaxCcalls + Spare
      /\ (\A j \in 1 .. i - 1 : x.cs[j].th = x.cs[i].th => x.cs[j].k # "pcall") => x.cs[i].errfunc = None
  <2>1. Saves(x.cs, lv, i)
    BY <1>1, <1>2 DEF Good, Saved
  <2> QED BY <2>1 DEF Saves
<1>4. CASE i = 1
  <2>1. L(x) = Main
    BY <1>1, <1>2, <1>4 DEF Stacked
  <2>2. r.baseCc = 0 /\ r.made /\ ~r.fresh
    <3>1. x.t[L(x)].made /\ ~x.t[L(x)].fresh
      BY <1>1, <1>2 DEF Good, Awake
    <3>2. x.t[Main].baseCc = 0
      BY <1>1 DEF Good, Counted
    <3> QED BY <1>2, <2>1, <3>1, <3>2 DEF Alike
  <2>3. ds = <<>>
    BY <1>1, <1>4
  <2> HIDE DEF ds, lw
  <2>4. y = Goes(x, Main, r, <<>>, "no") /\ y.cs = <<>>
    <3>1. y = Goes(x, Main, r, ds, "no")
      BY <2>1 DEF ds
    <3> QED BY <1>1, <2>3, <3>1 DEF Goes, World
  <2>5. Return(y) = [y EXCEPT !.out = "done"]
    BY <2>4 DEF Return
  <2> HIDE DEF m
  <2>6. Return(y) = [Goes(x, Main, r, <<>>, "no") EXCEPT !.out = "done"]
    BY <2>4, <2>5
  <2> QED BY <2>1, <2>2, <2>6, EndHolds
<1>5. CASE i # 1
  <2>1. m \in Nat \ {0} /\ m \in 1 .. n /\ m + 1 = i /\ m \in 1 .. Len(x.cs) - 1 /\ m \in 1 .. Len(x.cs)
    BY <1>2, <1>5
  <2>2. x.cs[m].th = L(x) /\ x.cs[m].k \in {"exec", "call"}
    <3>1. Follows(x.cs[m], x.cs[m + 1])
      BY <1>1, <2>1 DEF Stacked
    <3> HIDE DEF m
    <3> QED BY <1>2, <2>1, <3>1 DEF Follows, Nested
  <2>3. /\ \A j \in Top(x.cs, lv, m) + 1 .. lv[i] : T(x).ci[j] # "lua"
        /\ Top(x.cs, lv, m) < lv[i] /\ Top(x.cs, lv, m) \in Nat /\ lv[i] \in Nat
    <3>1. Nests(x.t, x.cs, lv, m)
      BY <1>1, <2>1 DEF Good, Levels
    <3>2. Top(x.cs, lv, m) \in Nat /\ lv[i] \in Nat
      BY <1>1, <1>2, <2>1, Below
    <3> HIDE DEF m
    <3> QED BY <1>2, <2>1, <2>2, <3>1, <3>2 DEF Nests
  <2>4. Depth(x.cs, m) = Depth(x.cs, i)
    <3>1. Depth(x.cs, m + 1) = Depth(x.cs, m) + (IF x.cs[m + 1].k \in {"call", "resume"} THEN 1 ELSE 0) /\ Depth(x.cs, m) \in Nat
      BY <2>1, DepthStep
    <3> HIDE DEF m
    <3> QED BY <2>1, <3>1
  <2>5. Unprotected(x.cs, L(x), m) => r.errfunc = None
    BY <1>2, <1>3 DEF Unprotected
  <2>6. /\ \A j \in m .. n : x.cs[j].th = L(x)
        /\ \A j \in m + 1 .. n : x.cs[j].k # "resume"
    <3>1. ASSUME NEW j \in m .. n PROVE x.cs[j].th = L(x)
      <4>1. CASE j = m
        BY <2>2, <4>1
      <4>2. CASE j # m
        <5>1. j \in i .. n
          BY <1>2, <2>1, <4>2
        <5> QED BY <5>1
      <4> QED BY <4>1, <4>2
    <3>2. ASSUME NEW j \in m + 1 .. n PROVE x.cs[j].k # "resume"
      <4>1. CASE j = i
        BY <4>1
      <4>2. CASE j # i
        <5>1. j \in i + 1 .. n
          BY <1>2, <2>1, <4>2
        <5> QED BY <5>1
      <4> QED BY <4>1, <4>2
    <3> QED BY <3>1, <3>2
  <2>7. /\ Top(x.cs, lv, m) <= Len(r.ci)
        /\ \A j \in 1 .. Top(x.cs, lv, m) : r.ci[j] = T(x).ci[j]
        /\ \A j \in Top(x.cs, lv, m) + 1 .. Len(r.ci) : r.ci[j] # "lua"
    <3> DEFINE p == Top(x.cs, lv, m)
               v == lv[i]
    <3>0. Len(r.ci) \in Nat
      BY RecIs
    <3>1. p \in Nat /\ v \in Nat /\ p < v /\ v <= Len(r.ci)
      BY <2>3
    <3>2. /\ \A j \in 1 .. v : r.ci[j] = T(x).ci[j]
          /\ \A j \in v + 1 .. Len(r.ci) : r.ci[j] # "lua"
          /\ \A j \in p + 1 .. v : T(x).ci[j] # "lua"
      BY <2>3
    <3> HIDE DEF p, v
    <3>3. p <= Len(r.ci)
      BY <3>0, <3>1
    <3>4. ASSUME NEW j \in 1 .. p PROVE r.ci[j] = T(x).ci[j]
      <4>1. j \in 1 .. v
        BY <3>1
      <4> QED BY <3>2, <4>1
    <3>5. ASSUME NEW j \in p + 1 .. Len(r.ci) PROVE r.ci[j] # "lua"
      <4>1. CASE j \in v + 1 .. Len(r.ci)
        BY <3>2, <4>1
      <4>2. CASE j \notin v + 1 .. Len(r.ci)
        <5>1. j \in 1 .. v /\ j \in p + 1 .. v
          BY <3>0, <3>1, <4>2
        <5> QED BY <3>2, <5>1
      <4> QED BY <4>1, <4>2
    <3> QED BY <3>3, <3>4, <3>5 DEF p
  <2> HIDE DEF m, lw, ds
  <2>8. y = Goes(x, L(x), r, SubSeq(x.cs, 1, m), "no")
    BY DEF m
  <2>9. r.ncc = Depth(x.cs, m) /\ r.ncc < MaxCcalls + Spare
    BY <1>3, <2>4
  <2>10. Cuts(x, SubSeq(lv, 1, m), r, m, y)
    BY <2>1, <2>2, <2>5, <2>6, <2>7, <2>8, <2>9, CutHolds
  <2>11. Len(y.cs) = m /\ y.cs[m] = x.cs[m] /\ lw[m] = lv[m] /\ y.cs # <<>>
    BY <1>1, <2>1, <2>10 DEF Cuts, lw
  <2>12. Runs(y, lw) /\ Last(y.cs).k \in {"exec", "call"} /\ Above(y, lw)
    <3>1. Last(y.cs) = x.cs[m]
      BY <2>11 DEF Last
    <3>2. Top(y.cs, lw, Len(y.cs)) = Top(x.cs, lv, m)
      BY <2>11 DEF Top
    <3>3. Len(r.ci) \in Nat
      BY RecIs
    <3>4. T(y) = r
      BY <2>10 DEF Cuts
    <3>5. Top(x.cs, lv, m) < Len(r.ci)
      BY <2>3, <3>3
    <3> QED BY <2>2, <2>10, <3>1, <3>2, <3>4, <3>5 DEF Above, Cuts, lw
  <2>13. Returns(y, lw, PosCall(y))
    BY <2>12, PosCallHolds
  <2> DEFINE z == PosCall(y)
  <2>14. Leads(y, z)
    <3> HIDE DEF z
    <3>0. Returns(y, lw, z)
      BY <2>13 DEF z
    <3>1. T(z).made = T(y).made /\ T(z).fresh = T(y).fresh
      <4>1. T(y) \in Rec
        BY <2>10 DEF Cuts
      <4> QED BY <3>0, <4>1 DEF Returns, Rec
    <3>2. Steady(y, z)
      <4>1. /\ z.cs = y.cs /\ z.may = y.may /\ z.out = y.out
            /\ \A th \in Thread \ {L(y)} : Look(z.t[th]) = Look(y.t[th])
        BY <3>0 DEF Returns
      <4> QED BY <2>11, <3>1, <4>1, SteadyHere
    <3> QED BY <3>0, <3>2 DEF Leads, Returns, Runs
  <2>15. Leads(x, y)
    BY <2>10 DEF Cuts, Leads, Runs
  <2>16. Proceeds(x, z)
    <3>1. Holds(y, lw)
      BY <2>12 DEF Runs
    <3> HIDE DEF z
    <3> QED BY <2>14, <2>15, <3>1, LeadsOn
  <2>17. Return(y) = z
    BY <2>11 DEF Return
  <2> QED BY <2>16, <2>17, ProceedsFares
<1> QED BY <1>4, <1>5

-----------------------------------------------------------------------------
(* Errors.                                                                    *)

(* restore_stack_limit changes the size alone. *)
LEMMA RestoreIs ==
  ASSUME NEW r \in Rec, Sized(r), 1 <= Len(r.ci), NEW q, q = RestoreStackLimit(r)
  PROVE  /\ q \in Rec /\ Sized(q) /\ q.ci = r.ci /\ q.status = r.status /\ q.ncc = r.ncc /\ q.baseCc = r.baseCc
         /\ q.errfunc = r.errfunc /\ q.fresh = r.fresh /\ q.made = r.made
<1>1. CASE r.size > MaxCalls /\ Len(r.ci) < MaxCalls
  <2>1. q = [r EXCEPT !.size = MaxCalls]
    BY <1>1 DEF RestoreStackLimit
  <2>2. MaxCalls \in Nat /\ Len(r.ci) \in Nat
    BY CallsAssumption, RecIs
  <2>3. /\ q \in Rec /\ q.size = MaxCalls /\ q.ci = r.ci /\ q.status = r.status /\ q.ncc = r.ncc /\ q.baseCc = r.baseCc
        /\ q.errfunc = r.errfunc /\ q.fresh = r.fresh /\ q.made = r.made
    BY <2>1, <2>2 DEF Rec
  <2>4. Sized(q)
    BY <1>1, <2>2, <2>3 DEF Sized
  <2> QED BY <2>3, <2>4
<1>2. CASE ~(r.size > MaxCalls /\ Len(r.ci) < MaxCalls)
  BY <1>2 DEF RestoreStackLimit
<1> QED BY <1>1, <1>2

(* A jump to luaD_pcall or lua_resume, or out of the program. *)
LEMMA ThrowHolds ==
  ASSUME NEW x, NEW lv, Holds(x, lv), T(x).status = "ok"
  PROVE  Fares(x, Throw(x))
<1> DEFINE n == Len(x.cs)
           l == L(x)
<1>1. /\ x \in World /\ x.t \in [Thread -> Rec] /\ x.cs \in Seq(Act) /\ Good(x.t, x.cs, lv) /\ x.cs # <<>> /\ x.out = "running"
      /\ Stacked(x.cs) /\ lv \in Seq(Nat) /\ Len(lv) = n
  BY DEF Holds, World, Good
<1>2. Stands(x, lv, n)
  BY <1>1, Standing
<1>3. /\ n \in Nat \ {0} /\ n \in 1 .. n /\ x.cs[n].th = l /\ l \in Thread /\ T(x) = x.t[l] /\ T(x) \in Rec /\ Sized(T(x))
      /\ T(x).ncc = Depth(x.cs, n) /\ T(x).ncc \in Nat /\ T(x).ci \in Seq(Frame) /\ Len(T(x).ci) \in Nat
      /\ T(x).size \in Nat /\ T(x).baseCc \in Nat
  <2>1. T(x).baseCc \in Nat
    BY <1>1, LastIs, RecIs
  <2> QED BY <1>2, <2>1 DEF Stands
<1>4. T(x).made /\ ~T(x).fresh
  BY <1>1, <1>3 DEF Good, Awake
<1>5. CASE Protected(x) = {}
  <2>1. l = Main
    <3> SUFFICES ASSUME l \in Coroutines PROVE FALSE
      BY <1>3 DEF Thread
    <3>1. PICK p \in 1 .. n : x.cs[p].k = "resume" /\ x.cs[p].th = x.cs[n].th
      BY <1>1, <1>3, ResumedBelow
    <3>2. p \in DOMAIN x.cs
      BY <1>1
    <3> QED BY <1>3, <1>5, <3>1, <3>2 DEF Protected
  <2> DEFINE q == [T(x) EXCEPT !.ci = <<"base">>, !.ncc = T(x).baseCc, !.errfunc = None]
             r == RestoreStackLimit(q)
  <2>2. q \in Rec /\ Sized(q) /\ 1 <= Len(q.ci) /\ q.baseCc = T(x).baseCc /\ q.made = T(x).made /\ q.fresh = T(x).fresh
    <3>1. <<"base">> \in Seq(Frame) /\ Len(<<"base">>) = 1 /\ None \in ErrFunc
      BY DEF Frame, ErrFunc
    <3>2. q \in Rec /\ q.ci = <<"base">> /\ q.size = T(x).size /\ q.baseCc = T(x).baseCc /\ q.made = T(x).made
          /\ q.fresh = T(x).fresh
      BY <1>3, <3>1 DEF Rec
    <3>3. Len(q.ci) = 1
      BY <3>1, <3>2
    <3> HIDE DEF q
    <3>4. Sized(q)
      BY <1>3, <3>2, <3>3 DEF Sized
    <3> QED BY <3>2, <3>3, <3>4
  <2>3. r = ResetStack(T(x))
    BY DEF ResetStack
  <2> HIDE DEF q
  <2>4. r \in Rec /\ Sized(r) /\ r.baseCc = T(x).baseCc /\ r.made = T(x).made /\ r.fresh = T(x).fresh
    <3>1. \A z : z = r => z \in Rec /\ Sized(z) /\ z.baseCc = q.baseCc /\ z.made = q.made /\ z.fresh = q.fresh
      BY <2>2, RestoreIs
    <3> HIDE DEF r
    <3> QED BY <2>2, <3>1
  <2> HIDE DEF r
  <2>5. r.baseCc = 0 /\ r.made /\ ~r.fresh
    BY <1>1, <1>3, <1>4, <2>1, <2>4 DEF Good, Counted
  <2>6. Throw(x) = [Goes(x, Main, r, <<>>, "no") EXCEPT !.out = "exit"]
    <3>1. Throw(x) = [Set(x, L(x), ResetStack(T(x))) EXCEPT !.cs = <<>>, !.raised = "no", !.out = "exit"]
      BY <1>5 DEF Throw
    <3>2. Throw(x) = [Set(x, Main, r) EXCEPT !.cs = <<>>, !.raised = "no", !.out = "exit"]
      BY <2>1, <2>3, <3>1
    <3> HIDE DEF l, n
    <3> QED BY <1>1, <3>2 DEF Set, Goes, World
  <2> QED BY <2>1, <2>4, <2>5, <2>6, EndHolds
<1>6. CASE Protected(x) # {}
  <2> DEFINE i == CHOOSE j \in Protected(x) : \A k \in Protected(x) : k <= j
             a == x.cs[i]
             below(y) == [y EXCEPT !.cs = SubSeq(y.cs, 1, i - 1), !.raised = "no"]
  <2>1. i \in Protected(x) /\ \A k \in Protected(x) : k <= i
    <3>1. Protected(x) \subseteq 1 .. n
      BY <1>1 DEF Protected
    <3> DEFINE D == {n - k : k \in Protected(x)}
    <3>2. D \in SUBSET Nat /\ D # {}
      BY <1>3, <1>6, <3>1
    <3> HIDE DEF D, n
    <3>3. PICK d \in D : \A e \in D : d <= e
      BY <3>2, NatMin
    <3>4. PICK j \in Protected(x) : d = n - j
      BY <3>3 DEF D
    <3>5. \A k \in Protected(x) : n - k \in D
      BY DEF D
    <3>6. \A k \in Protected(x) : k <= j
      BY <1>3, <3>1, <3>3, <3>4, <3>5
    <3> QED BY <3>4, <3>6
  <2> HIDE DEF i
  <2>2. /\ i \in 1 .. n /\ a.th = l /\ a.k \in {"pcall", "resume"} /\ i \in Nat \ {0} /\ a \in Act
        /\ \A j \in i .. n : x.cs[j].th = l
        /\ \A j \in i + 1 .. n : x.cs[j].k # "resume"
    <3>1. i \in 1 .. n /\ a.th = l /\ a.k \in {"pcall", "resume"}
      BY <1>1, <2>1 DEF Protected
    <3>2. ASSUME NEW j \in i + 1 .. n PROVE x.cs[j].th = l /\ x.cs[j].k # "resume"
      <4>1. i < n
        BY <1>3, <3>1, <3>2
      <4>2. x.cs[i].th = x.cs[n].th /\ i \in 1 .. Len(x.cs) /\ n \in 1 .. Len(x.cs) /\ n = Len(x.cs)
        BY <1>3, <3>1
      <4>3. \A m \in i + 1 .. n : x.cs[m].th = x.cs[i].th /\ x.cs[m].k # "resume"
        BY <1>1, <4>1, <4>2 DEF Stacked
      <4> QED BY <3>1, <4>3
    <3>3. ASSUME NEW j \in i .. n PROVE x.cs[j].th = l
      <4>1. CASE j = i
        BY <3>1, <4>1
      <4>2. CASE j # i
        <5>1. j \in i + 1 .. n
          BY <3>1, <4>2
        <5> QED BY <3>2, <5>1
      <4> QED BY <4>1, <4>2
    <3>4. i \in Nat \ {0}
      BY <3>1
    <3>5. a \in Act
      BY <1>1, <3>1
    <3> QED BY <3>1, <3>2, <3>3, <3>4, <3>5
  <2>3. CASE a.k = "pcall"
    <3> DEFINE q == [T(x) EXCEPT !.ncc = a.ncc, !.ci = SubSeq(T(x).ci, 1, a.ci), !.errfunc = a.errfunc]
               r == RestoreStackLimit(q)
               y == below(Caught(x, a))
    <3>1. a.ci = lv[i] /\ lv[i] \in Nat /\ 1 <= lv[i] /\ lv[i] <= Len(T(x).ci) /\ a.ncc \in Nat /\ a.errfunc \in ErrFunc
      <4>1. Saves(x.cs, lv, i) /\ Placed(x.t, x.cs, lv, i)
        BY <1>1, <2>2 DEF Good, Saved, Levels
      <4>2. a.ci = lv[i] /\ 1 <= lv[i]
        BY <2>3, <4>1 DEF Saves, Placed
      <4>3. lv[i] \in Nat /\ lv[i] <= Top(x.cs, lv, i) /\ Top(x.cs, lv, i) \in Nat
        BY <1>1, <2>2, Below
      <4>4. Top(x.cs, lv, i) <= Len(T(x).ci)
        BY <1>3, <2>2, <4>1 DEF Placed
      <4>5. a.ncc \in Nat /\ a.errfunc \in ErrFunc
        BY <2>2, <2>3, ActIs
      <4> HIDE DEF a
      <4> QED BY <1>3, <4>2, <4>3, <4>4, <4>5
    <3> HIDE DEF a
    <3>2. /\ SubSeq(T(x).ci, 1, a.ci) \in Seq(Frame) /\ Len(SubSeq(T(x).ci, 1, a.ci)) = a.ci
          /\ \A j \in 1 .. a.ci : SubSeq(T(x).ci, 1, a.ci)[j] = T(x).ci[j]
      BY <1>3, <3>1
    <3>3. /\ q \in Rec /\ q.ci = SubSeq(T(x).ci, 1, a.ci) /\ q.ncc = a.ncc /\ q.errfunc = a.errfunc /\ q.size = T(x).size
          /\ q.made = T(x).made /\ q.fresh = T(x).fresh /\ q.status = T(x).status /\ q.baseCc = T(x).baseCc
      <4>1. q \in Rec
        BY <1>3, <3>1, <3>2 DEF Rec
      <4> QED BY <1>3, <4>1 DEF Rec
    <3> HIDE DEF q
    <3>4. Sized(q) /\ Len(q.ci) = a.ci
      <4>1. Len(q.ci) = a.ci
        BY <3>2, <3>3
      <4> QED BY <1>3, <3>1, <3>3, <4>1 DEF Sized
    <3>5. /\ r \in Rec /\ Sized(r) /\ r.ci = q.ci /\ r.ncc = q.ncc /\ r.errfunc = q.errfunc
          /\ Alike(r, T(x))
      <4>1. 1 <= Len(q.ci)
        BY <3>1, <3>4
      <4>2. \A z : z = r => /\ z \in Rec /\ Sized(z) /\ z.ci = q.ci /\ z.ncc = q.ncc /\ z.errfunc = q.errfunc
                            /\ z.made = q.made /\ z.fresh = q.fresh /\ z.status = q.status /\ z.baseCc = q.baseCc
        BY <3>3, <3>4, <4>1, RestoreIs
      <4> HIDE DEF r
      <4> QED BY <3>3, <4>2 DEF Alike
    <3>6. Throw(x) = Return(y)
      <4>1. Throw(x) = IF x.cs[i].k = "pcall" THEN Return(below(Caught(x, x.cs[i]))) ELSE Refuse(below(MarkDead(x)))
        BY <1>6 DEF Throw, i
      <4> QED BY <2>3, <4>1 DEF a
    <3>7. y = Goes(x, L(x), r, SubSeq(x.cs, 1, i - 1), "no")
      <4>1. Caught(x, a) = Set(x, L(x), r)
        BY DEF Caught, q
      <4> HIDE DEF r
      <4>2. Caught(x, a).cs = x.cs
        BY <1>1, <4>1 DEF Set, World
      <4> QED BY <1>1, <4>1, <4>2 DEF Set, Goes, World
    <3>8. /\ lv[i] <= Len(r.ci) /\ \A j \in 1 .. lv[i] : r.ci[j] = T(x).ci[j]
          /\ \A j \in lv[i] + 1 .. Len(r.ci) : r.ci[j] # "lua"
      <4> HIDE DEF r
      <4>1. Len(r.ci) = lv[i] /\ r.ci = SubSeq(T(x).ci, 1, a.ci)
        BY <3>1, <3>3, <3>4, <3>5
      <4> QED BY <3>1, <3>2, <4>1
    <3> HIDE DEF y, r
    <3>9. Fares(x, Return(y))
      <4>1. x.cs[i].k = "pcall" /\ r.ncc = x.cs[i].ncc /\ r.errfunc = x.cs[i].errfunc
        BY <2>3, <3>3, <3>5 DEF a
      <4>2. T(x).status = "ok" /\ Holds(x, lv)
        OBVIOUS
      <4> QED BY <2>2, <3>5, <3>7, <3>8, <4>1, <4>2, PCallEnds
    <3> QED BY <3>6, <3>9
  <2>4. CASE a.k = "resume"
    <3> DEFINE r == [T(x) EXCEPT !.status = "err", !.ncc = T(x).ncc - 1]
               y == below(MarkDead(x))
               lw == SubSeq(lv, 1, i - 1)
    <3>1. T(x).ncc - 1 \in Nat
      <4>1. Depth(x.cs, 0) < Depth(x.cs, n) /\ Depth(x.cs, 0) = 0
        <5>1. 0 \in Nat /\ 0 <= n /\ i \in 0 + 1 .. n /\ x.cs[i].k \in {"call", "resume"} /\ n \in Nat
          BY <1>3, <2>2, <2>4
        <5> HIDE DEF n, a
        <5> QED BY <5>1, DepthRises, DepthStep
      <4> QED BY <1>3, <4>1
    <3> HIDE DEF a
    <3>2. /\ r \in Rec /\ r.ci = T(x).ci /\ r.size = T(x).size /\ r.status = "err"
          /\ r.made = T(x).made /\ r.fresh = T(x).fresh
      BY <1>3, <3>1 DEF Rec
    <3> HIDE DEF r
    <3>3. Sized(r) /\ Resting(r) /\ r.made /\ ~r.fresh
      BY <1>3, <1>4, <3>2 DEF Sized, Resting
    <3>4. Throw(x) = Refuse(y)
      <4>1. Throw(x) = IF x.cs[i].k = "pcall" THEN Return(below(Caught(x, x.cs[i]))) ELSE Refuse(below(MarkDead(x)))
        BY <1>6 DEF Throw, i
      <4> QED BY <2>4, <4>1 DEF a
    <3>5. y = Goes(x, L(x), r, SubSeq(x.cs, 1, i - 1), "no")
      <4>1. MarkDead(x).cs = x.cs
        BY <1>1 DEF MarkDead, World
      <4>2. MarkDead(x) = [x EXCEPT !.t[L(x)] = r]
        BY <1>1, <1>3 DEF MarkDead, World, r
      <4> HIDE DEF r
      <4> QED BY <1>1, <4>1, <4>2 DEF Goes, World
    <3> HIDE DEF y
    <3>6. Left(x, lw, L(x), r, y)
      <4>1. x.cs[i].k = "resume"
        BY <2>4 DEF a
      <4>2. Holds(x, lv)
        OBVIOUS
      <4> QED BY <2>2, <3>2, <3>3, <3>5, <4>1, <4>2, LeaveHolds
    <3>7. Leads(y, Refuse(y))
      BY <3>6, RefuseHolds DEF Left
    <3>8. Rest(Look(r)) = "dead"
      BY <3>2, <3>3 DEF Rest, Look
    <3>9. Proceeds(x, Refuse(y))
      <4>1. L(x) \in Thread
        BY <1>3
      <4> QED BY <3>6, <3>7, <3>8, <4>1, LeftOn
    <3> QED BY <3>4, <3>9, ProceedsFares
  <2> QED BY <2>2, <2>3, <2>4
<1> QED BY <1>5, <1>6

-----------------------------------------------------------------------------
(* Steps of the program.                                                      *)

(* Only what has just been resumed may have yielded. *)
LEMMA StatusOk ==
  ASSUME NEW x, NEW lv, Holds(x, lv), Last(x.cs).k # "resume"
  PROVE  T(x).status = "ok"
<1> DEFINE n == Len(x.cs)
<1>1. x \in World /\ x.cs # <<>> /\ Awake(x.t, x.cs)
  BY DEF Holds, Good
<1>2. n \in Nat \ {0} /\ Last(x.cs) = x.cs[n] /\ T(x) = x.t[L(x)] /\ L(x) = x.cs[n].th
  BY <1>1, LastIs
<1>3. n \in 1 .. n
  BY <1>2
<1> HIDE DEF n
<1> QED BY <1>1, <1>2, <1>3 DEF Awake, n

(* A program that is not over has levels. *)
LEMMA FitsHolds ==
  ASSUME NEW x, Fits(x), x.out = "running"
  PROVE  /\ \E lv : Holds(x, lv)
         /\ x.cs # <<>> /\ Last(x.cs).k # "resume" => T(x).status = "ok"
         /\ x.raised # "no" => Last(x.cs).k \in {"exec", "call"}
<1>1. PICK lv \in Seq(Nat) : Good(x.t, x.cs, lv)
  BY DEF Fits
<1>2. Holds(x, lv) /\ Limits(x)
  BY <1>1 DEF Fits, Holds
<1> QED BY <1>2, StatusOk DEF Limits

(* A Lua function on top belongs to the innermost luaV_execute. *)
LEMMA LuaOnTop ==
  ASSUME Fits(s), InLua
  PROVE  \E lv : Ready(s, lv) /\ Last(s.cs).k = "exec"
<1>1. s.out = "running" /\ s.raised = "no" /\ Last(s.cs).k = "exec" /\ Last(T(s).ci) = "lua"
  BY DEF InLua, Innermost
<1>2. PICK lv : Holds(s, lv)
  BY <1>1, FitsHolds
<1>3. T(s).status = "ok"
  BY <1>1, <1>2, StatusOk
<1> DEFINE n == Len(s.cs)
<1>4. Stands(s, lv, n)
  BY <1>2, <1>3, Standing
<1>5. /\ T(s).ci \in Seq(Frame) /\ Len(T(s).ci) \in Nat /\ Top(s.cs, lv, n) \in Nat /\ Top(s.cs, lv, n) <= Len(T(s).ci)
      /\ 1 <= Top(s.cs, lv, n)
      /\ \A j \in Top(s.cs, lv, n) + 1 .. Len(T(s).ci) : T(s).ci[j] # "lua"
  BY <1>4 DEF Stands
<1> HIDE DEF n
<1>6. Last(T(s).ci) = T(s).ci[Len(T(s).ci)]
  BY <1>5 DEF Last
<1>7. Top(s.cs, lv, n) = Len(T(s).ci)
  BY <1>1, <1>5, <1>6
<1> QED BY <1>1, <1>2, <1>3, <1>7 DEF Ready, Runs, n

(* What a step that leads on, or proceeds, comes to. *)
LEMMA LeadsFares ==
  ASSUME NEW x, NEW lv, Holds(x, lv), NEW y, Leads(x, y)
  PROVE  Fares(x, y)
BY LeadsOn, ProceedsFares

(* Functions that a program calls can be called, and so can a handler. *)
LEMMA MayCall ==
  ASSUME Fits(s)
  PROVE  /\ \A f \in s.may : Callable(f)
         /\ \A f \in ErrFunc \ {None, <<"nil">>} : Callable(f)
<1>1. s.may \in Programs
  BY DEF Fits, World
<1>2. ASSUME NEW f \in s.may PROVE Callable(f)
  <2>1. Function(f)
    BY <1>1, CallsAssumption
  <2>2. f[1] = "xpcall" => f[3] \in Handlers
    BY <1>1 DEF Handlers
  <2> QED BY <2>1, <2>2 DEF Function, Callable
<1>3. ASSUME NEW f \in ErrFunc \ {None, <<"nil">>} PROVE Callable(f)
  <2>1. f \in Handlers
    BY <1>3 DEF ErrFunc
  <2>2. PICK g \in UNION Programs : g[1] = "xpcall" /\ f = g[3]
    BY <2>1 DEF Handlers
  <2>3. Function(g)
    BY <2>2, CallsAssumption
  <2>4. ~Simple(g)
    BY <2>2 DEF Simple
  <2>5. Handler(f)
    BY <2>2, <2>3, <2>4 DEF Function
  <2>6. Simple(f) \/ (f[1] = "pcall" /\ Simple(f[2]))
    BY <1>3, <2>5 DEF Handler
  <2> QED BY <2>6 DEF Callable
<1> QED BY <1>2, <1>3

(* A Lua function calls a Lua function. *)
LEMMA CallLuaFares ==
  ASSUME Fits(s), CallLua
  PROVE  Fares(s, s')
<1>1. InLua /\ s' = EnterLua(s)
  BY DEF CallLua
<1>2. PICK lv : Ready(s, lv) /\ Last(s.cs).k = "exec"
  BY <1>1, LuaOnTop
<1>3. Leads(s, EnterLua(s)) /\ Holds(s, lv)
  BY <1>2, EnterLuaHolds DEF Ready, Runs
<1> QED BY <1>1, <1>3, LeadsFares

(* A tail call may find no room for its frame. *)
LEMMA TailCallFares ==
  ASSUME Fits(s), TailCall
  PROVE  Fares(s, s')
<1>1. InLua /\ s' = GrowCI(s)
  BY DEF TailCall
<1>2. PICK lv : Ready(s, lv) /\ Last(s.cs).k = "exec"
  BY <1>1, LuaOnTop
<1>3. Runs(s, lv) /\ Holds(s, lv)
  BY <1>2 DEF Ready, Runs
<1>4. Grows(s, lv, GrowCI(s))
  BY <1>2, <1>3, GrowHolds
<1>5. Leads(s, GrowCI(s))
  BY <1>3, <1>4, GrowLeads DEF Leads
<1> QED BY <1>1, <1>3, <1>5, LeadsFares

(* A call of a C function. *)
LEMMA CallCFares ==
  ASSUME Fits(s), CallC
  PROVE  Fares(s, s')
<1>1. PICK f \in Known : InLua /\ s' = Precall(s, f)
  BY DEF CallC
<1>2. PICK lv : Ready(s, lv)
  BY <1>1, LuaOnTop
<1>3. Callable(f)
  BY <1>1, MayCall DEF Known
<1>4. Proceeds(s, Precall(s, f))
  BY <1>2, <1>3, PrecallHolds
<1> QED BY <1>1, <1>4, ProceedsFares

(* A call from C. *)
LEMMA CallTMFares ==
  ASSUME Fits(s), CallTM
  PROVE  Fares(s, s')
<1>1. PICK f \in Known : InLua /\ s' = DCall(s, f, Precall)
  BY DEF CallTM
<1>2. PICK lv : Ready(s, lv) /\ Last(s.cs).k = "exec"
  BY <1>1, LuaOnTop
<1>3. Callable(f) /\ Calls(s, lv)
  BY <1>1, <1>2, MayCall DEF Known, Calls, Ready
<1>4. Proceeds(s, DCall(s, f, Precall))
  BY <1>3, DCallHolds
<1> QED BY <1>1, <1>4, ProceedsFares

(* An error in a Lua function. *)
LEMMA FailFares ==
  ASSUME Fits(s), Fail
  PROVE  Fares(s, s')
<1>1. InLua /\ s' = Raise(s, "error")
  BY DEF Fail
<1>2. PICK lv : Ready(s, lv) /\ Last(s.cs).k = "exec"
  BY <1>1, LuaOnTop
<1>3. Runs(s, lv) /\ Holds(s, lv)
  BY <1>2 DEF Ready, Runs
<1> DEFINE y == Raise(s, "error")
<1>4. Holds(y, lv) /\ y.cs = s.cs /\ y.may = s.may /\ y.t = s.t
  BY <1>2, <1>3, RaiseHolds
<1>5. s.out = "running" /\ y.out = "running" /\ s.cs # <<>>
  BY <1>3, <1>4 DEF Holds
<1> HIDE DEF y
<1>6. T(y) = T(s)
  BY <1>4 DEF T, L
<1>7. \A th \in Thread \ {L(s)} : Look(y.t[th]) = Look(s.t[th])
  BY <1>4
<1>8. Steady(s, y)
  BY <1>4, <1>5, <1>6, <1>7, SteadyHere
<1>9. Leads(s, y)
  BY <1>4, <1>8 DEF Leads
<1> QED BY <1>1, <1>3, <1>9, LeadsFares DEF y

(* luaV_execute or luaD_call returns to what called it. *)
LEMMA PopFares ==
  ASSUME NEW x, NEW lv, Runs(x, lv), NEW n, n = Len(x.cs), n > 1, x.cs[n].k \in {"exec", "call"},
         NEW r \in Rec, Alike(r, T(x)), Sized(r), r.errfunc = T(x).errfunc, r.ncc = Depth(x.cs, n - 1),
         lv[n] <= Len(r.ci), x.cs[n].k = "exec" => Len(r.ci) = lv[n],
         \A j \in 1 .. lv[n] : r.ci[j] = T(x).ci[j], \A j \in lv[n] + 1 .. Len(r.ci) : r.ci[j] # "lua",
         NEW y, y = Goes(x, L(x), r, SubSeq(x.cs, 1, n - 1), "no")
  PROVE  Fares(x, y)
<1> DEFINE m == n - 1
<1>1. /\ Holds(x, lv) /\ T(x).status = "ok" /\ x \in World /\ x.cs \in Seq(Act) /\ x.cs # <<>> /\ Good(x.t, x.cs, lv)
      /\ Stacked(x.cs) /\ Levels(x.t, x.cs, lv) /\ x.raised = "no" /\ Limits(x)
  BY DEF Runs, Holds, World, Good
<1>2. Stands(x, lv, n)
  BY <1>1, Standing
<1>3. /\ n \in Nat \ {0} /\ n \in 1 .. n /\ x.cs[n].th = L(x) /\ T(x).ncc = Depth(x.cs, n) /\ T(x).ncc \in Nat
      /\ Unprotected(x.cs, L(x), n) => T(x).errfunc = None
  BY <1>2 DEF Stands
<1>4. m \in Nat \ {0} /\ m \in 1 .. n /\ m + 1 = n /\ m < n
  BY <1>3
<1> HIDE DEF m
<1>5. Follows(x.cs[m], x.cs[n])
  <2>1. \A i \in 1 .. Len(x.cs) - 1 : Follows(x.cs[i], x.cs[i + 1])
    BY <1>1 DEF Stacked
  <2>2. m \in 1 .. Len(x.cs) - 1
    BY <1>4
  <2> QED BY <1>4, <2>1, <2>2
<1>6. x.cs[m].th = L(x) /\ <<x.cs[m].k, x.cs[n].k>> \in Nested
  BY <1>3, <1>5 DEF Follows
<1>7. /\ \A j \in Top(x.cs, lv, m) + 1 .. lv[n] : T(x).ci[j] # "lua"
      /\ x.cs[m].k = "resume" => lv[n] = 1 /\ x.cs[n].k = "exec"
  <2>1. Nests(x.t, x.cs, lv, m)
    <3>1. m \in 1 .. Len(x.cs) - 1
      BY <1>4
    <3> QED BY <1>1, <3>1 DEF Levels
  <2>2. x.cs[m + 1].k # "resume"
    BY <1>4
  <2>3. T(x) = x.t[x.cs[m].th]
    BY <1>6 DEF T
  <2>4. x.cs[m].k = "resume" => x.cs[n].k = "exec"
    BY <1>6 DEF Nested
  <2> QED BY <1>4, <2>1, <2>2, <2>3, <2>4 DEF Nests
<1>8. Top(x.cs, lv, m) \in Nat /\ lv[n] \in Nat /\ Top(x.cs, lv, m) <= lv[n]
  <2>1. m \in 1 .. Len(x.cs) /\ n \in 1 .. Len(x.cs) /\ m <= n /\ m < n /\ x.cs[m].th = x.cs[n].th
    BY <1>3, <1>4, <1>6
  <2>2. \A i \in 1 .. Len(x.cs) : lv[i] \in Nat /\ Top(x.cs, lv, i) \in Nat
    BY <1>1, Below
  <2>3. Top(x.cs, lv, m) <= lv[n]
    BY <1>1, <2>1, Below
  <2> QED BY <2>1, <2>2, <2>3
<1>9. r.ci \in Seq(Frame) /\ Len(r.ci) \in Nat
  BY RecIs
<1>10. /\ Top(x.cs, lv, m) <= Len(r.ci) /\ \A j \in 1 .. Top(x.cs, lv, m) : r.ci[j] = T(x).ci[j]
       /\ \A j \in Top(x.cs, lv, m) + 1 .. Len(r.ci) : r.ci[j] # "lua"
  <2>1. ASSUME NEW j \in Top(x.cs, lv, m) + 1 .. Len(r.ci) PROVE r.ci[j] # "lua"
    <3>1. CASE j <= lv[n]
      BY <1>7, <1>8, <1>9, <2>1, <3>1
    <3>2. CASE ~(j <= lv[n])
      BY <1>8, <1>9, <2>1, <3>2
    <3> QED BY <3>1, <3>2
  <2> QED BY <1>8, <1>9, <2>1
<1>11. x.cs[m].k = "resume" => Len(r.ci) = 1
  BY <1>7
<1>12. r.ncc = Depth(x.cs, m) /\ r.ncc < MaxCcalls + Spare
  <2>1. T(x).ncc < MaxCcalls + Spare
    BY <1>1 DEF Limits
  <2>2. r.ncc = Depth(x.cs, m)
    BY DEF m
  <2>3. Depth(x.cs, m) \in Nat /\ Depth(x.cs, m) <= Depth(x.cs, n)
    <3>1. m \in Nat /\ n \in Nat /\ m <= n
      BY <1>3, <1>4
    <3>2. Depth(x.cs, m) <= Depth(x.cs, n)
      BY <3>1, DepthRises
    <3>3. Depth(x.cs, m) \in Nat
      BY <3>1, DepthStep
    <3> QED BY <3>2, <3>3
  <2> QED BY <1>3, <2>1, <2>2, <2>3, CallsAssumption
<1>13. Unprotected(x.cs, L(x), m) => r.errfunc = None
  <2>1. ASSUME Unprotected(x.cs, L(x), m) PROVE Unprotected(x.cs, L(x), n)
    <3> SUFFICES ASSUME NEW j \in 1 .. n, x.cs[j].th = L(x) PROVE x.cs[j].k # "pcall"
      BY DEF Unprotected
    <3>1. CASE j = n
      BY <3>1
    <3>2. CASE j # n
      <4>1. j \in 1 .. m
        BY <1>4, <3>2
      <4> QED BY <2>1, <4>1 DEF Unprotected
    <3> QED BY <3>1, <3>2
  <2> QED BY <1>3, <2>1
<1>14. /\ \A i \in m .. n : x.cs[i].th = L(x)
       /\ \A i \in m + 1 .. n : x.cs[i].k # "resume"
  <2>1. ASSUME NEW i \in m .. n PROVE x.cs[i].th = L(x)
    <3>1. i = m \/ i = n
      BY <1>4
    <3> QED BY <1>3, <1>6, <3>1
  <2>2. ASSUME NEW i \in m + 1 .. n PROVE x.cs[i].k # "resume"
    <3>1. i = n
      BY <1>4
    <3> QED BY <3>1
  <2> QED BY <2>1, <2>2
<1>15. y = Goes(x, L(x), r, SubSeq(x.cs, 1, m), "no")
  BY DEF m
<1>16. Cuts(x, SubSeq(lv, 1, m), r, m, y)
  BY <1>1, <1>4, <1>10, <1>11, <1>12, <1>13, <1>14, <1>15, CutHolds
<1>17. Leads(x, y)
  BY <1>16 DEF Cuts, Runs, Leads
<1> QED BY <1>1, <1>17, LeadsFares

(* The innermost function of the thread, in what runs it. *)
Inside(lv, n) ==
  /\ Runs(s, lv) /\ Stands(s, lv, n) /\ n = Len(s.cs)
  /\ s \in World /\ s.t \in [Thread -> Rec] /\ s.cs \in Seq(Act) /\ Good(s.t, s.cs, lv)
  /\ s.cs # <<>> /\ Stacked(s.cs) /\ s.out = "running" /\ s.raised = "no"

(* It is there when nothing is raised and nothing yields. *)
LEMMA IsInside ==
  ASSUME NEW lv, Runs(s, lv)
  PROVE  Inside(lv, Len(s.cs))
<1>1. Holds(s, lv) /\ T(s).status = "ok" /\ s.raised = "no"
  BY DEF Runs
<1>2. Stands(s, lv, Len(s.cs))
  BY <1>1, Standing
<1> QED BY <1>1, <1>2 DEF Inside, Holds, World, Good

(* A Lua function returns: to another run by the same luaV_execute, or to what called that. *)
LEMMA LuaReturnFares ==
  ASSUME Fits(s), LuaReturn
  PROVE  Fares(s, s')
<1> DEFINE n == Len(s.cs)
           k == s.cs[n].n - 1
           r == [T(s) EXCEPT !.ci = Front(T(s).ci)]
           x == [PosCall(s) EXCEPT !.cs[Len(s.cs)].n = @ - 1]
<1>1. InLua /\ s' = IF Last(x.cs).n = 0 THEN Pop(x) ELSE x
  BY DEF LuaReturn
<1>2. PICK lv : Ready(s, lv) /\ Last(s.cs).k = "exec"
  BY <1>1, LuaOnTop
<1>3. Runs(s, lv) /\ Inside(lv, n) /\ Top(s.cs, lv, n) = Len(T(s).ci)
  BY <1>2, IsInside DEF Ready
<1>4. /\ n \in Nat \ {0} /\ n \in 1 .. n /\ s.cs[n].k = "exec" /\ s.cs[n] \in Act /\ s.cs[n].th = L(s)
      /\ T(s) \in Rec /\ T(s) = s.t[L(s)] /\ L(s) \in Thread /\ Sized(T(s)) /\ Last(s.cs) = s.cs[n]
      /\ T(s).ci \in Seq(Frame) /\ Len(T(s).ci) \in Nat /\ lv[n] \in Nat /\ 1 <= lv[n]
      /\ \A j \in lv[n] + 1 .. Top(s.cs, lv, n) : T(s).ci[j] = "lua"
      /\ Top(s.cs, lv, n) = lv[n] + Own(s.cs[n]) /\ T(s).ncc = Depth(s.cs, n)
  BY <1>2, <1>3 DEF Inside, Stands
<1>5. s.cs[n].n \in Nat \ {0} /\ Own(s.cs[n]) = s.cs[n].n /\ k \in Nat
  BY <1>4, ActIs
<1> HIDE DEF n
<1>6. Len(T(s).ci) = lv[n] + k + 1 /\ T(s).ci # <<>>
  BY <1>3, <1>4, <1>5
<1>7. /\ Front(T(s).ci) \in Seq(Frame) /\ Len(Front(T(s).ci)) = lv[n] + k
      /\ \A j \in 1 .. lv[n] + k : Front(T(s).ci)[j] = T(s).ci[j]
  <2>1. /\ Front(T(s).ci) \in Seq(Frame) /\ Len(Front(T(s).ci)) = Len(T(s).ci) - 1
        /\ \A j \in 1 .. Len(T(s).ci) - 1 : Front(T(s).ci)[j] = T(s).ci[j]
    BY <1>4, <1>6, Frames
  <2>2. Len(T(s).ci) - 1 = lv[n] + k
    BY <1>4, <1>5, <1>6
  <2> HIDE DEF k
  <2> QED BY <2>1, <2>2
<1> HIDE DEF k
<1>8. r \in Rec /\ Alike(r, T(s)) /\ r.ci = Front(T(s).ci) /\ r.errfunc = T(s).errfunc /\ r.ncc = T(s).ncc /\ r.size = T(s).size
  BY <1>4, <1>7 DEF Rec, Alike
<1> HIDE DEF r
<1>9. Sized(r)
  <2>1. Len(r.ci) = lv[n] + k
    BY <1>7, <1>8
  <2>2. T(s).size \in Nat
    BY <1>4, RecIs
  <2>3. Len(T(s).ci) <= T(s).size /\ 2 <= T(s).size /\ T(s).size <= 2 * MaxCalls
    BY <1>4 DEF Sized
  <2>4. Len(r.ci) <= r.size
    <3>1. r.size = T(s).size
      BY <1>8
    <3>2. lv[n] \in Nat /\ k \in Nat /\ Len(T(s).ci) = lv[n] + k + 1
      BY <1>4, <1>5, <1>6
    <3>3. lv[n] + k <= T(s).size
      <4> HIDE DEF T
      <4> QED BY <2>2, <2>3, <3>2
    <3> QED BY <2>1, <3>1, <3>3
  <2> QED BY <1>8, <2>3, <2>4 DEF Sized
<1>10. x = Goes(s, L(s), r, [s.cs EXCEPT ![n].n = k], "no")
  <2>1. s.cs[Len(s.cs)] = s.cs[n] /\ s.cs[n].n - 1 = k
    BY DEF k, n
  <2>2. PosCall(s) = [s EXCEPT !.t[L(s)] = r]
    BY <1>3, <1>4 DEF PosCall, r, Inside, World, Rec
  <2>3. PosCall(s).cs = s.cs
    BY <1>3 DEF PosCall, Inside, World
  <2>4. x = [PosCall(s) EXCEPT !.cs = [s.cs EXCEPT ![n].n = k]]
    BY <1>3, <2>1, <2>2, <2>3 DEF n, k, Inside, World
  <2> HIDE DEF x
  <2> QED BY <1>3, <2>2, <2>4 DEF Goes, Inside, World
<1> HIDE DEF x
<1>11. x.cs = [s.cs EXCEPT ![n].n = k] /\ Last(x.cs).n = k /\ Front(x.cs) = SubSeq(s.cs, 1, n - 1)
  <2>1. x.cs = [s.cs EXCEPT ![n].n = k]
    BY <1>3, <1>10 DEF Goes, Inside, World
  <2>2. s.cs \in Seq(Act) /\ n = Len(s.cs)
    BY <1>3 DEF Inside
  <2>3. Len(x.cs) = n /\ x.cs[n].n = k
    BY <1>4, <2>1, <2>2 DEF Act
  <2>4. Last(x.cs).n = k
    BY <2>3 DEF Last
  <2>5. [s.cs EXCEPT ![n].n = k] = [i \in 1 .. n |-> IF i = n THEN [s.cs[n] EXCEPT !.n = k] ELSE s.cs[i]]
    BY <2>2
  <2>6. Front(x.cs) = [i \in 1 .. n - 1 |-> s.cs[i]]
    BY <1>4, <2>1, <2>3, <2>5 DEF Front
  <2>7. SubSeq(s.cs, 1, n - 1) = [i \in 1 .. n - 1 |-> s.cs[i]]
    BY <1>4, <2>2
  <2> QED BY <2>1, <2>4, <2>6, <2>7
<1>12. \A j \in 1 .. lv[n] : r.ci[j] = T(s).ci[j]
  BY <1>4, <1>5, <1>7, <1>8 DEF k
<1>13. CASE k = 0
  <2> DEFINE y == Pop(x)
  <2>1. s' = y
    BY <1>1, <1>11, <1>13
  <2>2. y = Goes(s, L(s), r, SubSeq(s.cs, 1, n - 1), "no")
    <3>1. y = [x EXCEPT !.cs = SubSeq(s.cs, 1, n - 1)]
      BY <1>11 DEF Pop
    <3> HIDE DEF y
    <3> QED BY <1>3, <1>10, <3>1 DEF Goes, Inside, World
  <2> HIDE DEF y
  <2>3. Len(r.ci) = lv[n]
    BY <1>4, <1>7, <1>8, <1>13
  <2>4. n > 1
    <3>1. s.cs # <<>> => s.cs[1].k \in {"pcall", "call"}
      BY <1>3 DEF Inside, Stacked
    <3>2. n # 1
      BY <1>3, <1>4, <3>1 DEF Inside
    <3> QED BY <1>4, <3>2
  <2>5. r.ncc = Depth(s.cs, n - 1)
    <3>1. n - 1 \in Nat /\ (n - 1) + 1 = n
      BY <1>4
    <3>2. Depth(s.cs, (n - 1) + 1) = Depth(s.cs, n - 1) + (IF s.cs[(n - 1) + 1].k \in {"call", "resume"} THEN 1 ELSE 0)
      BY <3>1, DepthStep
    <3>3. Depth(s.cs, n - 1) \in Nat
      BY <3>1, DepthStep
    <3> QED BY <1>4, <1>8, <3>1, <3>2, <3>3
  <2>6. n = Len(s.cs) /\ s.cs[n].k \in {"exec", "call"} /\ lv[n] <= Len(r.ci) /\ \A j \in lv[n] + 1 .. Len(r.ci) : r.ci[j] # "lua"
    BY <1>4, <2>3 DEF n
  <2> QED BY <1>3, <1>8, <1>9, <1>12, <2>1, <2>2, <2>3, <2>4, <2>5, <2>6, PopFares
<1>14. CASE k # 0
  <2>1. s' = x
    BY <1>1, <1>11, <1>14
  <2>2. k \in Nat \ {0}
    BY <1>4, <1>5, <1>14 DEF k
  <2>3. Laid(r.ci, T(s).ci, lv[n], lv[n], lv[n] + k)
    <3>1. \A j \in lv[n] + 1 .. lv[n] + k : r.ci[j] = "lua"
      <4> SUFFICES ASSUME NEW j \in lv[n] + 1 .. lv[n] + k PROVE r.ci[j] = "lua"
        OBVIOUS
      <4>1. j \in 1 .. lv[n] + k /\ j \in lv[n] + 1 .. Top(s.cs, lv, n)
        BY <1>3, <1>4, <1>6, <2>2
      <4> QED BY <1>4, <1>7, <1>8, <4>1
    <3>2. Len(r.ci) = lv[n] + k
      BY <1>7, <1>8
    <3> QED BY <1>4, <1>12, <2>2, <3>1, <3>2 DEF Laid
  <2>4. n = Len(s.cs)
    BY DEF n
  <2>5. Holds(x, lv) /\ Steady(s, x)
    BY <1>2, <1>3, <1>8, <1>9, <1>10, <2>2, <2>3, <2>4, RunHolds
  <2>6. Leads(s, x) /\ Holds(s, lv)
    BY <1>3, <2>5 DEF Leads, Runs
  <2> QED BY <2>1, <2>6, LeadsFares
<1> QED BY <1>13, <1>14

(* The innermost activation is of kind k. *)
LEMMA OfKind ==
  ASSUME Fits(s), NEW k, Innermost(k)
  PROVE  /\ \E lv : Holds(s, lv)
         /\ k # "resume" => \E lv : Inside(lv, Len(s.cs)) /\ s.cs[Len(s.cs)].k = k
<1>1. s.out = "running" /\ s.raised = "no" /\ Last(s.cs).k = k
  BY DEF Innermost
<1>2. PICK lv : Holds(s, lv)
  BY <1>1, FitsHolds
<1>3. ASSUME k # "resume" PROVE Inside(lv, Len(s.cs)) /\ s.cs[Len(s.cs)].k = k
  <2>1. Runs(s, lv)
    BY <1>1, <1>2, <1>3, StatusOk DEF Runs
  <2>2. Inside(lv, Len(s.cs))
    BY <2>1, IsInside
  <2> QED BY <1>1, <2>2 DEF Inside, Stands
<1> QED BY <1>2, <1>3

(* A coroutine is created, suspended. *)
LEMMA CoCreateFares ==
  ASSUME Fits(s), CoCreate
  PROVE  Fares(s, s')
<1> DEFINE q == [NewThread EXCEPT !.made = TRUE, !.fresh = TRUE]
<1>1. PICK c \in Coroutines : InLua /\ ~s.t[c].made /\ s' = Set(s, c, q)
  BY DEF CoCreate
<1>2. PICK lv : Runs(s, lv)
  BY <1>1, LuaOnTop DEF Ready
<1>3. Holds(s, lv) /\ Awake(s.t, s.cs) /\ c \in Thread /\ L(s) \in On(s.cs) /\ s.t \in [Thread -> Rec]
  <2>1. Shows(s)
    BY <1>2, Showing DEF Runs
  <2> QED BY <1>2, <2>1 DEF Runs, Holds, Good, Thread, World, Shows
<1>4. c \notin On(s.cs)
  BY <1>1, <1>3 DEF On, Awake
<1>5. q \in Rec /\ Len(q.ci) = 1 /\ q.ci[1] # "lua" /\ q.errfunc = None /\ q.status = "ok" /\ q.made /\ q.fresh /\ q.size = BasicCI
  <2>1. <<"base">> \in Seq(Frame) /\ Len(<<"base">>) = 1 /\ None \in ErrFunc /\ BasicCI \in Nat
    BY CallsAssumption DEF Frame, ErrFunc
  <2> QED BY <2>1 DEF NewThread, Rec
<1> HIDE DEF q
<1>6. Sized(q) /\ Resting(q)
  BY <1>5, CallsAssumption DEF Sized, Resting
<1> DEFINE y == Set(s, c, q)
<1>7. Idles(s, lv, c, q, y)
  BY <1>2, <1>4, <1>5, <1>6, IdleHolds
<1> HIDE DEF y
<1>8. /\ View(y) = [state |-> [View(s).state EXCEPT ![c] = Rest(Look(q))], resumer |-> View(s).resumer,
                    begun |-> (View(s).begun \ {c}) \cup (IF q.made /\ ~q.fresh THEN {c} ELSE {})]
      /\ View(s).state[c] = Rest(Look(s.t[c])) /\ (c \in View(s).begun <=> s.t[c].made /\ ~s.t[c].fresh)
  BY <1>2, <1>4, <1>7, IdleView
<1>9. Rest(Look(q)) = "suspended" /\ Rest(Look(s.t[c])) = "none"
  <2>1. \A i : i = 1 => ~(i > 1)
    OBVIOUS
  <2>2. ~(Len(q.ci) > 1)
    BY <1>5, <2>1
  <2>3. Rest(Look(q)) = "suspended"
    BY <1>5, <2>2 DEF Rest, Look
  <2>4. Rest(Look(s.t[c])) = "none"
    BY <1>1 DEF Rest, Look
  <2> QED BY <2>3, <2>4
<1>10. (View(s).begun \ {c}) \cup (IF q.made /\ ~q.fresh THEN {c} ELSE {}) = View(s).begun
  BY <1>1, <1>5, <1>8
<1>11. Creates(View(s), c, View(y))
  BY <1>8, <1>9, <1>10 DEF Creates
<1>12. Proceeds(s, y)
  BY <1>3, <1>7, <1>11 DEF Proceeds, MayTurn, Idles, Runs
<1> QED BY <1>1, <1>12, ProceedsFares DEF y

(* luaD_call returns, to the host or to who called it. *)
LEMMA CallReturnsFares ==
  ASSUME Fits(s), CallReturns
  PROVE  Fares(s, s')
<1> DEFINE n == Len(s.cs)
           r == [T(s) EXCEPT !.ncc = T(s).ncc - 1]
           x == Pop([s EXCEPT !.t[L(s)].ncc = @ - 1])
<1>1. Innermost("call") /\ s' = IF x.cs = <<>> THEN Return(x) ELSE x
  BY DEF CallReturns
<1>2. PICK lv : Inside(lv, n) /\ s.cs[n].k = "call"
  <2>1. \E lv : Inside(lv, Len(s.cs)) /\ s.cs[Len(s.cs)].k = "call"
    BY <1>1, OfKind
  <2> QED BY <2>1
<1>3. /\ n \in Nat \ {0} /\ n \in 1 .. n /\ s.cs[n] \in Act /\ s.cs[n].th = L(s)
      /\ T(s) \in Rec /\ T(s) = s.t[L(s)] /\ L(s) \in Thread /\ Sized(T(s))
      /\ T(s).ci \in Seq(Frame) /\ Len(T(s).ci) \in Nat /\ lv[n] \in Nat /\ 1 <= lv[n]
      /\ Top(s.cs, lv, n) = lv[n] + Own(s.cs[n]) /\ T(s).ncc = Depth(s.cs, n) /\ T(s).ncc \in Nat
      /\ Top(s.cs, lv, n) <= Len(T(s).ci) /\ \A j \in Top(s.cs, lv, n) + 1 .. Len(T(s).ci) : T(s).ci[j] # "lua"
  BY <1>2 DEF Inside, Stands
<1>4. Top(s.cs, lv, n) = lv[n]
  <2>1. Own(s.cs[n]) = 0
    BY <1>2, <1>3, ActIs
  <2> QED BY <1>3, <2>1
<1>5. T(s).made /\ ~T(s).fresh
  BY <1>2, <1>3 DEF Inside, Good, Awake
<1>6. n = Len(s.cs) /\ s.cs \in Seq(Act)
  BY <1>2 DEF Inside
<1> HIDE DEF n
<1>7. n - 1 \in Nat /\ Depth(s.cs, n - 1) \in Nat /\ T(s).ncc = Depth(s.cs, n - 1) + 1
  <2>1. n - 1 \in Nat /\ (n - 1) + 1 = n
    BY <1>3
  <2>2. Depth(s.cs, (n - 1) + 1) = Depth(s.cs, n - 1) + (IF s.cs[(n - 1) + 1].k \in {"call", "resume"} THEN 1 ELSE 0)
    BY <2>1, DepthStep
  <2>3. Depth(s.cs, n - 1) \in Nat
    BY <2>1, DepthStep
  <2> QED BY <1>2, <1>3, <2>1, <2>2, <2>3
<1>8. /\ r \in Rec /\ Alike(r, T(s)) /\ r.ci = T(s).ci /\ r.errfunc = T(s).errfunc /\ r.ncc = T(s).ncc - 1
      /\ r.size = T(s).size /\ r.baseCc = T(s).baseCc /\ r.made = T(s).made /\ r.fresh = T(s).fresh
  <2>1. T(s).ncc - 1 \in Nat
    BY <1>7
  <2> QED BY <1>3, <2>1 DEF Rec, Alike
<1>9. x = Goes(s, L(s), r, SubSeq(s.cs, 1, n - 1), "no")
  <2>1. [s EXCEPT !.t[L(s)].ncc = @ - 1] = [s EXCEPT !.t[L(s)] = r]
    BY <1>2, <1>3 DEF Inside, World, Rec
  <2>2. [s EXCEPT !.t[L(s)].ncc = @ - 1].cs = s.cs
    BY <1>2 DEF Inside, World
  <2>3. Front(s.cs) = SubSeq(s.cs, 1, n - 1)
    BY <1>6 DEF Front
  <2>4. x = [[s EXCEPT !.t[L(s)].ncc = @ - 1] EXCEPT !.cs = SubSeq(s.cs, 1, n - 1)]
    BY <2>2, <2>3 DEF Pop
  <2> HIDE DEF r, x
  <2> QED BY <1>2, <2>1, <2>4 DEF Goes, Inside, World
<1> HIDE DEF r, x
<1>10. Sized(r)
  BY <1>3, <1>8 DEF Sized
<1>11. x.cs = SubSeq(s.cs, 1, n - 1) /\ Len(x.cs) = n - 1
  <2>1. x.cs = SubSeq(s.cs, 1, n - 1)
    BY <1>2, <1>9 DEF Goes, Inside, World
  <2> QED BY <1>3, <1>6, <2>1
<1>12. CASE n = 1
  <2>1. L(s) = Main
    BY <1>2, <1>3, <1>12 DEF Inside, Stacked
  <2>2. SubSeq(s.cs, 1, n - 1) = <<>>
    BY <1>6, <1>12
  <2>3. s' = [x EXCEPT !.out = "done"]
    BY <1>1, <1>11, <2>2 DEF Return
  <2>4. x = Goes(s, Main, r, <<>>, "no")
    BY <1>9, <2>1, <2>2
  <2>5. r.baseCc = 0
    BY <1>2, <1>3, <1>8, <2>1 DEF Inside, Good, Counted
  <2>6. s' = [Goes(s, Main, r, <<>>, "no") EXCEPT !.out = "done"]
    BY <2>3, <2>4
  <2>7. Holds(s, lv) /\ r.made /\ ~r.fresh
    BY <1>2, <1>5, <1>8 DEF Inside, Runs
  <2> QED BY <1>8, <1>10, <2>1, <2>5, <2>6, <2>7, EndHolds
<1>13. CASE n # 1
  <2>1. x.cs # <<>>
    <3>1. Len(x.cs) # 0
      BY <1>3, <1>11, <1>13
    <3>2. Len(<<>>) = 0
      OBVIOUS
    <3> HIDE DEF x
    <3> QED BY <3>1, <3>2
  <2>2. s' = x
    BY <1>1, <2>1
  <2>3. n > 1 /\ s.cs[n].k \in {"exec", "call"} /\ s.cs[n].k # "exec" /\ r.ncc = Depth(s.cs, n - 1)
    BY <1>2, <1>3, <1>7, <1>8, <1>13
  <2>4. /\ lv[n] <= Len(r.ci) /\ \A j \in 1 .. lv[n] : r.ci[j] = T(s).ci[j]
        /\ \A j \in lv[n] + 1 .. Len(r.ci) : r.ci[j] # "lua"
    BY <1>3, <1>4, <1>8
  <2>5. Runs(s, lv)
    BY <1>2 DEF Inside
  <2> QED BY <1>6, <1>8, <1>9, <1>10, <2>2, <2>3, <2>4, <2>5, PopFares
<1> QED BY <1>12, <1>13

(* luaD_pcall returns. *)
LEMMA PCallReturnsFares ==
  ASSUME Fits(s), PCallReturns
  PROVE  Fares(s, s')
<1> DEFINE n == Len(s.cs)
           r == [T(s) EXCEPT !.errfunc = s.cs[n].errfunc]
           x == Pop([s EXCEPT !.t[L(s)].errfunc = Last(s.cs).errfunc])
<1>1. Innermost("pcall") /\ s' = Return(x)
  BY DEF PCallReturns
<1>2. PICK lv : Inside(lv, n) /\ s.cs[n].k = "pcall"
  <2>1. \E lv : Inside(lv, Len(s.cs)) /\ s.cs[Len(s.cs)].k = "pcall"
    BY <1>1, OfKind
  <2> QED BY <2>1
<1>3. /\ n \in Nat \ {0} /\ n \in 1 .. n /\ s.cs[n] \in Act /\ s.cs[n].th = L(s) /\ Last(s.cs) = s.cs[n]
      /\ T(s) \in Rec /\ T(s) = s.t[L(s)] /\ L(s) \in Thread /\ Sized(T(s))
      /\ T(s).ci \in Seq(Frame) /\ Len(T(s).ci) \in Nat /\ lv[n] \in Nat /\ 1 <= lv[n]
      /\ Top(s.cs, lv, n) = lv[n] + Own(s.cs[n]) /\ T(s).ncc = Depth(s.cs, n) /\ T(s).ncc \in Nat
      /\ Top(s.cs, lv, n) <= Len(T(s).ci) /\ \A j \in Top(s.cs, lv, n) + 1 .. Len(T(s).ci) : T(s).ci[j] # "lua"
  BY <1>2 DEF Inside, Stands
<1>4. Top(s.cs, lv, n) = lv[n] /\ s.cs[n].errfunc \in ErrFunc
  <2>1. Own(s.cs[n]) = 0 /\ s.cs[n].errfunc \in ErrFunc
    BY <1>2, <1>3, ActIs
  <2> QED BY <1>3, <2>1
<1>5. n = Len(s.cs) /\ s.cs \in Seq(Act)
  BY <1>2 DEF Inside
<1>6. s.cs[n].ncc = Depth(s.cs, n)
  BY <1>2, <1>3, <1>5 DEF Inside, Good, Saved, Saves
<1> HIDE DEF n
<1>7. /\ r \in Rec /\ Alike(r, T(s)) /\ r.ci = T(s).ci /\ r.errfunc = s.cs[n].errfunc /\ r.ncc = T(s).ncc
      /\ r.size = T(s).size
  BY <1>3, <1>4 DEF Rec, Alike
<1>8. x = Goes(s, L(s), r, SubSeq(s.cs, 1, n - 1), "no")
  <2>1. [s EXCEPT !.t[L(s)].errfunc = Last(s.cs).errfunc] = [s EXCEPT !.t[L(s)] = r]
    BY <1>2, <1>3 DEF Inside, World, Rec
  <2>2. [s EXCEPT !.t[L(s)].errfunc = Last(s.cs).errfunc].cs = s.cs
    BY <1>2 DEF Inside, World
  <2>3. Front(s.cs) = SubSeq(s.cs, 1, n - 1)
    BY <1>5 DEF Front
  <2>4. x = [[s EXCEPT !.t[L(s)].errfunc = Last(s.cs).errfunc] EXCEPT !.cs = SubSeq(s.cs, 1, n - 1)]
    BY <2>2, <2>3 DEF Pop
  <2> HIDE DEF r, x
  <2> QED BY <1>2, <2>1, <2>4 DEF Goes, Inside, World
<1> HIDE DEF r, x
<1>9. Sized(r)
  BY <1>3, <1>7 DEF Sized
<1>10. /\ lv[n] <= Len(r.ci) /\ \A j \in 1 .. lv[n] : r.ci[j] = T(s).ci[j]
       /\ \A j \in lv[n] + 1 .. Len(r.ci) : r.ci[j] # "lua"
  BY <1>3, <1>4, <1>7
<1>11. Holds(s, lv) /\ T(s).status = "ok" /\ r.ncc = s.cs[n].ncc
  BY <1>2, <1>3, <1>6, <1>7 DEF Inside, Runs
<1>12. (\A j \in n .. n : s.cs[j].th = L(s)) /\ (\A j \in n + 1 .. n : s.cs[j].k # "resume")
  BY <1>3
<1> QED BY <1>1, <1>2, <1>3, <1>5, <1>7, <1>8, <1>9, <1>10, <1>11, <1>12, PCallEnds

(* lua_resume returns: the coroutine has ended, or it waits where it yielded. *)
LEMMA ResumeReturnsFares ==
  ASSUME Fits(s), ResumeReturns
  PROVE  Fares(s, s')
<1> DEFINE n == Len(s.cs)
           r == [T(s) EXCEPT !.ncc = T(s).ncc - 1]
           y == Pop([s EXCEPT !.t[L(s)].ncc = @ - 1])
<1>1. Innermost("resume") /\ s' = PosCall(y)
  BY DEF ResumeReturns
<1>2. PICK lv : Holds(s, lv)
  BY <1>1, OfKind
<1>3. s \in World /\ s.cs # <<>> /\ Good(s.t, s.cs, lv) /\ s.cs \in Seq(Act) /\ s.t \in [Thread -> Rec] /\ Last(s.cs).k = "resume"
  BY <1>1, <1>2 DEF Holds, World, Innermost
<1>4. /\ n \in Nat \ {0} /\ n \in 1 .. n /\ s.cs[n] \in Act /\ s.cs[n].th = L(s) /\ s.cs[n].k = "resume" /\ n = Len(s.cs)
      /\ T(s) \in Rec /\ T(s) = s.t[L(s)] /\ L(s) \in Thread
  <2>1. n \in Nat \ {0} /\ Last(s.cs) = s.cs[n] /\ Last(s.cs) \in Act /\ T(s) \in Rec /\ T(s) = s.t[L(s)] /\ L(s) \in Thread /\ L(s) = s.cs[n].th
    BY <1>3, LastIs
  <2> HIDE DEF n
  <2>2. n = Len(s.cs)
    BY DEF n
  <2> QED BY <1>3, <2>1, <2>2
<1> HIDE DEF n
<1>5. Sized(T(s)) /\ T(s).ncc = Depth(s.cs, n)
  <2>1. Ends(s.cs, n)
    BY <1>4 DEF Ends
  <2> QED BY <1>3, <1>4, <2>1 DEF Good, Counted
<1>6. T(s).made /\ ~T(s).fresh /\ (T(s).status = "ok" \/ (T(s).status = "yield" /\ Suspended(T(s))))
  BY <1>3, <1>4 DEF Good, Awake
<1>7. T(s).status = "ok" => Len(T(s).ci) = 1 /\ T(s).ci[1] # "lua" /\ T(s).errfunc = None
  <2> SUFFICES ASSUME T(s).status = "ok" PROVE Len(T(s).ci) = 1 /\ T(s).ci[1] # "lua" /\ T(s).errfunc = None
    OBVIOUS
  <2>1. Stands(s, lv, n)
    BY <1>2, <1>4, Standing
  <2>2. Placed(s.t, s.cs, lv, n)
    BY <1>3, <1>4 DEF Good, Levels
  <2>3. T(s).ci[1] # "lua"
    BY <1>4, <2>2 DEF Placed
  <2>4. Unprotected(s.cs, L(s), n)
    <3>1. \A i \in 1 .. n - 1 : s.cs[i].th # s.cs[n].th
      BY <1>3, <1>4, Resumer
    <3> SUFFICES ASSUME NEW j \in 1 .. n, s.cs[j].th = L(s) PROVE s.cs[j].k # "pcall"
      BY DEF Unprotected
    <3>2. CASE j = n
      BY <1>4, <3>2
    <3>3. CASE j # n
      <4>1. j \in 1 .. n - 1
        BY <1>4, <3>3
      <4> QED BY <1>4, <3>1, <4>1
    <3> QED BY <3>2, <3>3
  <2> QED BY <1>4, <2>1, <2>3, <2>4 DEF Stands
<1>8. T(s).ncc - 1 \in Nat
  <2>1. n - 1 \in Nat /\ (n - 1) + 1 = n
    BY <1>4
  <2>2. Depth(s.cs, (n - 1) + 1) = Depth(s.cs, n - 1) + (IF s.cs[(n - 1) + 1].k \in {"call", "resume"} THEN 1 ELSE 0)
    BY <2>1, DepthStep
  <2>3. Depth(s.cs, n - 1) \in Nat
    BY <2>1, DepthStep
  <2> QED BY <1>4, <1>5, <2>1, <2>2, <2>3
<1>9. /\ r \in Rec /\ r.ci = T(s).ci /\ r.errfunc = T(s).errfunc /\ r.size = T(s).size /\ r.status = T(s).status
      /\ r.made = T(s).made /\ r.fresh = T(s).fresh
  BY <1>4, <1>8 DEF Rec
<1>10. y = Goes(s, L(s), r, SubSeq(s.cs, 1, n - 1), "no")
  <2>1. [s EXCEPT !.t[L(s)].ncc = @ - 1] = [s EXCEPT !.t[L(s)] = r]
    BY <1>3, <1>4 DEF World, Rec
  <2>2. [s EXCEPT !.t[L(s)].ncc = @ - 1].cs = s.cs
    BY <1>3 DEF World
  <2>3. Front(s.cs) = SubSeq(s.cs, 1, n - 1)
    BY <1>4 DEF Front
  <2>4. y = [[s EXCEPT !.t[L(s)].ncc = @ - 1] EXCEPT !.cs = SubSeq(s.cs, 1, n - 1)]
    BY <2>2, <2>3 DEF Pop
  <2>5. s.raised = "no"
    BY <1>1 DEF Innermost
  <2> HIDE DEF r, y
  <2> QED BY <1>3, <2>1, <2>4, <2>5 DEF Goes, World
<1> HIDE DEF r, y
<1>11. Sized(r) /\ r.made /\ ~r.fresh /\ Resting(r)
  BY <1>5, <1>6, <1>7, <1>9 DEF Sized, Resting, Suspended
<1>12. Left(s, SubSeq(lv, 1, n - 1), L(s), r, y)
  <2>1. (\A i \in n .. n : s.cs[i].th = L(s)) /\ (\A i \in n + 1 .. n : s.cs[i].k # "resume")
    BY <1>4
  <2> QED BY <1>2, <1>4, <1>9, <1>10, <1>11, <2>1, LeaveHolds
<1>13. Leads(y, PosCall(y))
  BY <1>12, PosCallLeads DEF Left
<1>14. Rest(Look(r)) \in {"suspended", "dead"}
  <2>1. CASE T(s).status = "ok"
    <3>1. Len(r.ci) = 1
      BY <1>7, <1>9, <2>1
    <3>2. \A i : i = 1 => ~(i > 1)
      OBVIOUS
    <3>3. ~(Len(r.ci) > 1)
      BY <3>1, <3>2
    <3> QED BY <1>9, <1>11, <2>1, <3>3 DEF Rest, Look
  <2>2. CASE T(s).status = "yield"
    BY <1>9, <1>11, <2>2 DEF Rest, Look
  <2> QED BY <1>6, <2>1, <2>2
<1>15. Proceeds(s, PosCall(y))
  BY <1>4, <1>12, <1>13, <1>14, LeftOn
<1> QED BY <1>1, <1>15, ProceedsFares

(* An error is caught, or its handler called first. *)
LEMMA ErrorMsgFares ==
  ASSUME Fits(s), ErrorMsg
  PROVE  Fares(s, s')
<1> DEFINE n == Len(s.cs)
           a == [k |-> "handler", th |-> L(s)]
           x == Raise(s, "no")
           y == Push(x, a)
<1>1. /\ s.raised = "error"
      /\ s' = IF T(s).errfunc \in {None, <<"nil">>} THEN Throw(s) ELSE DCall(y, T(s).errfunc, Precall)
  BY DEF ErrorMsg
<1>2. s.out = "running"
  BY <1>1 DEF Fits, World
<1>3. PICK lv : Holds(s, lv)
  BY <1>2, FitsHolds
<1>4. Last(s.cs).k \in {"exec", "call"} /\ T(s).status = "ok"
  BY <1>1, <1>2, <1>3, FitsHolds, StatusOk
<1>5. CASE T(s).errfunc \in {None, <<"nil">>}
  BY <1>1, <1>3, <1>4, <1>5, ThrowHolds
<1>6. CASE T(s).errfunc \notin {None, <<"nil">>}
  <2>1. s \in World /\ s.cs \in Seq(Act) /\ s.cs # <<>> /\ Limits(s)
    BY <1>3 DEF Holds, World
  <2>2. Stands(s, lv, n)
    BY <1>3, <1>4, Standing
  <2>3. /\ n \in Nat \ {0} /\ s.cs[n] = Last(s.cs) /\ L(s) \in Thread /\ T(s) \in Rec /\ Sized(T(s)) /\ T(s) = s.t[L(s)]
        /\ Top(s.cs, lv, n) \in Nat /\ lv[n] \in Nat /\ 1 <= lv[n] /\ lv[n] <= Top(s.cs, lv, n) /\ Top(s.cs, lv, n) <= Len(T(s).ci)
        /\ \A j \in Top(s.cs, lv, n) + 1 .. Len(T(s).ci) : T(s).ci[j] # "lua"
        /\ T(s).ci \in Seq(Frame) /\ Len(T(s).ci) \in Nat /\ T(s).ncc \in Nat
    BY <2>2 DEF Stands
  <2>4. n = Len(s.cs)
    OBVIOUS
  <2> HIDE DEF n
  <2>5. x = Goes(s, L(s), T(s), s.cs, "no")
    <3>1. Goes(s, L(s), s.t[L(s)], s.cs, "no") = [s EXCEPT !.raised = "no"]
      BY <2>1, <2>3, GoesNowhere
    <3> QED BY <2>3, <3>1 DEF Raise
  <2> HIDE DEF x
  <2>6. Alike(T(s), T(s)) /\ Within(T(s).ncc, "no")
    BY <1>1, <2>1 DEF Alike, Within, Limits
  <2>7. Stays(s, lv, T(s), "no", x)
    BY <1>3, <1>4, <2>3, <2>4, <2>5, <2>6, StayHolds
  <2>8. /\ Runs(x, lv) /\ x.cs = s.cs /\ L(x) = L(s) /\ T(x) = T(s) /\ x.may = s.may /\ x.out = s.out /\ Holds(x, lv)
        /\ \A th \in Thread \ {L(s)} : x.t[th] = s.t[th]
    BY <2>7 DEF Stays
  <2>9. Leads(s, x)
    <3>1. \A th \in Thread \ {L(s)} : Look(x.t[th]) = Look(s.t[th])
      BY <2>8
    <3>2. Steady(s, x)
      BY <2>1, <2>8, <3>1, SteadyHere
    <3> QED BY <2>8, <3>2 DEF Leads
  <2>10. a \in Act /\ a.th = L(x) /\ a.k = "handler" /\ Own(a) = 0
    BY <2>3, <2>8 DEF Act, Own
  <2>11. y = Goes(x, L(x), T(x), Append(x.cs, a), "no")
    <3>1. y = [x EXCEPT !.cs = Append(x.cs, a)]
      BY DEF Push
    <3>2. x \in World /\ x.raised = "no" /\ x.t[L(x)] = T(x)
      BY <2>8 DEF Runs, Holds, T
    <3> HIDE DEF y, a
    <3>3. [x.t EXCEPT ![L(x)] = T(x)] = x.t
      BY <3>2 DEF World
    <3> QED BY <3>1, <3>2, <3>3 DEF Goes, World
  <2> HIDE DEF y, a
  <2> DEFINE v == Len(T(x).ci)
  <2>12. v \in Nat /\ Laid(T(x).ci, T(x).ci, Top(x.cs, lv, n), v, v + Own(a))
    BY <2>3, <2>8, <2>10 DEF Laid
  <2>13. <<x.cs[n].k, a.k>> \in Nested /\ x.cs[n].k # "resume" /\ a.k \notin {"pcall", "call", "exec"}
    BY <1>4, <2>3, <2>8, <2>10 DEF Nested
  <2> HIDE DEF v
  <2>14. Alike(T(x), T(x)) /\ T(x) \in Rec /\ Sized(T(x)) /\ n = Len(x.cs) /\ Within(T(x).ncc, "no")
         /\ T(x).ncc = T(x).ncc + (IF a.k = "call" THEN 1 ELSE 0)
    BY <2>3, <2>4, <2>6, <2>8, <2>13
  <2>15. Pushes(x, Append(lv, v), T(x), a, "no", y)
    BY <2>8, <2>10, <2>11, <2>12, <2>13, <2>14, PushHolds
  <2>16. Runs(y, Append(lv, v)) /\ Last(y.cs) = a /\ Holds(y, Append(lv, v))
    BY <2>15 DEF Pushes
  <2>17. Leads(x, y)
    <3>1. \A th \in Thread \ {L(x)} : Look(y.t[th]) = Look(x.t[th])
      BY <2>15 DEF Pushes
    <3>2. /\ y.cs = Append(x.cs, a) /\ y.may = x.may /\ y.out = x.out /\ T(y) = T(x)
      BY <2>15 DEF Pushes
    <3>3. Steady(x, y)
      BY <2>1, <2>8, <2>10, <3>1, <3>2, SteadyPush
    <3> QED BY <2>16, <3>3 DEF Leads
  <2>18. Calls(y, Append(lv, v))
    BY <2>10, <2>16 DEF Calls
  <2>19. Callable(T(s).errfunc)
    <3>1. T(s).errfunc \in ErrFunc
      BY <2>3, RecIs
    <3> QED BY <1>6, <3>1, MayCall
  <2>20. Proceeds(y, DCall(y, T(s).errfunc, Precall))
    BY <2>18, <2>19, DCallHolds
  <2>21. Proceeds(s, DCall(y, T(s).errfunc, Precall))
    <3>1. Proceeds(x, DCall(y, T(s).errfunc, Precall))
      BY <2>8, <2>17, <2>20, LeadsOn
    <3> QED BY <1>3, <2>9, <3>1, LeadsOn
  <2>22. s' = DCall(y, T(s).errfunc, Precall)
    BY <1>1, <1>6 DEF y, x, a
  <2> QED BY <2>21, <2>22, ProceedsFares
<1> QED BY <1>5, <1>6

(* The handler has returned, and the error goes on. *)
LEMMA HandlerReturnsFares ==
  ASSUME Fits(s), HandlerReturns
  PROVE  Fares(s, s')
<1>1. Innermost("handler") /\ s' = Throw(s)
  BY DEF HandlerReturns
<1>2. PICK lv : Inside(lv, Len(s.cs))
  BY <1>1, OfKind
<1>3. Holds(s, lv) /\ T(s).status = "ok"
  BY <1>2 DEF Inside, Runs
<1> QED BY <1>1, <1>3, ThrowHolds

(* An error while an error is handled. *)
LEMMA ErrorInErrorFares ==
  ASSUME Fits(s), ErrorInError
  PROVE  Fares(s, s')
<1>1. s.raised = "errerr" /\ s' = Throw(s)
  BY DEF ErrorInError
<1>2. s.out = "running"
  BY <1>1 DEF Fits, World
<1>3. PICK lv : Holds(s, lv)
  BY <1>2, FitsHolds
<1>4. T(s).status = "ok"
  BY <1>1, <1>2, <1>3, FitsHolds, StatusOk
<1> QED BY <1>1, <1>3, <1>4, ThrowHolds

(* Every step leads to a state of the program, and takes the coroutines a program *)
(* sees one step of their life, or none.                                          *)
LEMMA StepFares ==
  ASSUME Fits(s), [Next]_s
  PROVE  Fares(s, s')
<1>1. CASE s' = s
  <2>1. Fits(s') /\ View(s) = View(s')
    BY <1>1
  <2> QED BY <2>1 DEF Fares, MayTurn
<1>2. CASE Ended
  BY <1>1, <1>2 DEF Ended
<1> QED
  BY <1>1, <1>2, CallLuaFares, TailCallFares, CallCFares, CallTMFares, LuaReturnFares, FailFares, CoCreateFares,
     CallReturnsFares, PCallReturnsFares, ResumeReturnsFares, ErrorMsgFares, HandlerReturnsFares, ErrorInErrorFares
  DEF Next

(* The host has called, and its thread runs the chunk's Lua function. *)
Starting(lv) ==
  /\ Fits(s) /\ Holds(s, lv) /\ L(s) = Main /\ On(s.cs) = {Main} /\ Resumed(s.cs) = {}
  /\ s.t[Main].made /\ ~s.t[Main].fresh /\ \A c \in Coroutines : ~s.t[c].made

(* The activations of the host's call, and the threads. *)
HostStack(cs, n) ==
  /\ n \in {2, 3} /\ n = Len(cs) /\ cs \in Seq(Act)
  /\ \A i \in 1 .. n : cs[i].th = Main
  /\ cs[n].k = "exec" /\ cs[n - 1].k = "call" /\ (n = 3 => cs[1].k = "pcall")
  /\ cs[n].n = 1
  /\ n = 3 => cs[1].ncc = 0 /\ cs[1].ci = 1 /\ cs[1].errfunc = None
HostThreads(t) ==
  /\ t[Main] = [NewThread EXCEPT !.made = TRUE, !.ncc = 1, !.ci = <<"base", "lua">>]
  /\ \A th \in Thread \ {Main} : t[th] = NewThread
HostState(x) == x \in World /\ x.out = "running" /\ x.raised = "no"
Hosting(n) == HostStack(s.cs, n) /\ HostThreads(s.t) /\ HostState(s)

(* They fit each other, and each was called with one frame. *)
LEMMA HostHolds ==
  ASSUME NEW n, Hosting(n), NEW lv \in Seq(Nat), Len(lv) = n, \A i \in 1 .. n : lv[i] = 1
  PROVE  Starting(lv)
<1>h. HostStack(s.cs, n) /\ HostThreads(s.t) /\ HostState(s)
  BY DEF Hosting
<1>k. /\ n = 3 => s.cs[1].k = "pcall"
      /\ n = 3 => s.cs[1].ncc = 0 /\ s.cs[1].ci = 1 /\ s.cs[1].errfunc = None
  BY <1>h DEF HostStack
<1>0. /\ n \in Nat \ {0} /\ (n = 2 \/ n = 3) /\ n = Len(s.cs) /\ s.cs \in Seq(Act) /\ \A i \in 1 .. n : s.cs[i].th = Main
      /\ s.cs[n].k = "exec" /\ s.cs[n - 1].k = "call" /\ s.cs[n].n = 1
  <2>1. n \in {2, 3}
    BY <1>h DEF HostStack
  <2>2. n \in Nat \ {0} /\ (n = 2 \/ n = 3)
    BY <2>1
  <2> QED BY <1>h, <2>2 DEF HostStack
<1>1. /\ 1 \in 1 .. n /\ n \in 1 .. n /\ s.cs # <<>> /\ Main \in Thread
      /\ \A i \in 1 .. n : i \in {n, n - 1} \/ (n = 3 /\ i = 1)
      /\ s.cs[1].k \in {"pcall", "call"} /\ s.cs[1].th = Main
  <2>1. 1 \in 1 .. n /\ n \in 1 .. n /\ s.cs # <<>> /\ Main \in Thread
    BY <1>0 DEF Thread
  <2>2. \A i \in 1 .. n : i \in {n, n - 1} \/ (n = 3 /\ i = 1)
    <3>1. \A h \in {2, 3} : \A i \in 1 .. h : i = h \/ i = h - 1 \/ (h = 3 /\ i = 1)
      OBVIOUS
    <3> QED BY <1>0, <3>1
  <2>3. n = 2 => 1 = n - 1
    OBVIOUS
  <2>4. s.cs[1].k \in {"pcall", "call"}
    BY <1>0, <1>k, <2>3
  <2> QED BY <1>0, <2>1, <2>2, <2>4
<1>2. /\ s.t[Main].made /\ ~s.t[Main].fresh /\ s.t[Main].status = "ok" /\ s.t[Main].ncc = 1 /\ s.t[Main].baseCc = 0
      /\ s.t[Main].errfunc = None /\ s.t[Main].size = BasicCI /\ s.t[Main].ci = <<"base", "lua">>
      /\ Len(s.t[Main].ci) = 2 /\ s.t[Main].ci[1] = "base" /\ s.t[Main].ci[2] = "lua"
  <2>1. s.t[Main] = [NewThread EXCEPT !.made = TRUE, !.ncc = 1, !.ci = <<"base", "lua">>]
    BY <1>h DEF HostThreads
  <2>2. /\ s.t[Main].made /\ ~s.t[Main].fresh /\ s.t[Main].status = "ok" /\ s.t[Main].ncc = 1 /\ s.t[Main].baseCc = 0
        /\ s.t[Main].errfunc = None /\ s.t[Main].size = BasicCI /\ s.t[Main].ci = <<"base", "lua">>
    BY <2>1 DEF NewThread
  <2>3. Len(<<"base", "lua">>) = 2 /\ <<"base", "lua">>[1] = "base" /\ <<"base", "lua">>[2] = "lua"
    OBVIOUS
  <2> QED BY <2>2, <2>3
<1>3. ASSUME NEW c \in Thread \ {Main} PROVE s.t[c] = NewThread
  BY <1>h DEF HostThreads
<1>4. Main \notin Coroutines
  BY CallsAssumption
<1>8. \A i \in 1 .. n : s.cs[i].k \in {"exec", "call", "pcall"} /\ (s.cs[i].k = "exec" <=> i = n)
  <2> TAKE i \in 1 .. n
  <2>1. CASE i = n
    BY <1>0, <2>1
  <2>2. CASE i = n - 1
    BY <1>0, <2>2
  <2>3. CASE n = 3 /\ i = 1
    BY <1>k, <2>3
  <2> QED BY <1>1, <2>1, <2>2, <2>3
<1>5. \A i \in 1 .. n : Own(s.cs[i]) = IF i = n THEN 1 ELSE 0
  BY <1>0, <1>8 DEF Own
<1>6. \A i \in 1 .. n : Top(s.cs, lv, i) = IF i = n THEN 2 ELSE 1
  BY <1>5 DEF Top
<1>7. Depth(s.cs, n) = 1 /\ (n = 3 => Depth(s.cs, 1) = 0)
  <2>1. \A m \in Nat : \A h : h = m + 1 => Depth(s.cs, h) = Depth(s.cs, m) + (IF s.cs[h].k \in {"call", "resume"} THEN 1 ELSE 0)
    BY DepthStep
  <2>2. Depth(s.cs, 0) = 0
    BY DepthStep
  <2>3. Depth(s.cs, 1) = IF s.cs[1].k = "call" THEN 1 ELSE 0
    <3>1. Depth(s.cs, 1) = Depth(s.cs, 0) + (IF s.cs[1].k \in {"call", "resume"} THEN 1 ELSE 0)
      BY <2>1
    <3> QED BY <1>1, <2>2, <3>1
  <2>4. Depth(s.cs, 2) = Depth(s.cs, 1) + (IF s.cs[2].k \in {"call", "resume"} THEN 1 ELSE 0)
    BY <2>1
  <2>5. Depth(s.cs, 3) = Depth(s.cs, 2) + (IF s.cs[3].k \in {"call", "resume"} THEN 1 ELSE 0)
    BY <2>1
  <2>6. CASE n = 2
    <3>1. s.cs[1].k = "call" /\ s.cs[2].k = "exec"
      BY <1>0, <2>6
    <3>2. Depth(s.cs, 1) = 1
      BY <2>3, <3>1
    <3>3. Depth(s.cs, 2) = 1
      BY <2>4, <3>1, <3>2
    <3> QED BY <2>6, <3>3
  <2>7. CASE n = 3
    <3>1. s.cs[1].k = "pcall" /\ s.cs[2].k = "call" /\ s.cs[3].k = "exec"
      BY <1>0, <1>k, <2>7
    <3>2. Depth(s.cs, 1) = 0
      BY <2>3, <3>1
    <3>3. Depth(s.cs, 2) = 1
      BY <2>4, <3>1, <3>2
    <3>4. Depth(s.cs, 3) = 1
      BY <2>5, <3>1, <3>3
    <3> QED BY <2>7, <3>2, <3>4
  <2> QED BY <1>0, <2>6, <2>7
<1>9. Stacked(s.cs)
  <2>1. s.cs[1].th = Main /\ s.cs[1].k \in {"pcall", "call"}
    BY <1>1
  <2>2. ASSUME NEW i \in 1 .. Len(s.cs) - 1 PROVE Follows(s.cs[i], s.cs[i + 1])
    <3>1. i \in 1 .. n /\ i + 1 \in 1 .. n /\ i <= n - 1
      BY <1>0
    <3>2. <<s.cs[i].k, s.cs[i + 1].k>> \in Nested
      <4>1. CASE i = n - 1
        <5>1. i + 1 = n
          BY <1>0, <4>1
        <5>2. s.cs[i].k = "call" /\ s.cs[i + 1].k = "exec"
          BY <1>0, <4>1, <5>1
        <5> QED BY <5>2 DEF Nested
      <4>2. CASE i # n - 1
        <5>0. \A h \in {2, 3} : i \in 1 .. h /\ i <= h - 1 /\ i # h - 1 => h = 3 /\ i = 1 /\ i + 1 = h - 1
          OBVIOUS
        <5>1. n = 3 /\ i = 1 /\ i + 1 = n - 1
          BY <1>0, <3>1, <4>2, <5>0
        <5>2. s.cs[i].k = "pcall" /\ s.cs[i + 1].k = "call"
          BY <1>0, <1>k, <5>1
        <5> QED BY <5>2 DEF Nested
      <4> QED BY <4>1, <4>2
    <3>3. s.cs[i].th = s.cs[i + 1].th
      BY <1>0, <3>1
    <3> QED BY <3>2, <3>3 DEF Follows
  <2>3. ASSUME NEW i \in 1 .. Len(s.cs), NEW j \in 1 .. Len(s.cs), i < j, NEW m \in i + 1 .. j
        PROVE  s.cs[m].th = s.cs[i].th /\ s.cs[m].k # "resume"
    <3>1. m \in 1 .. n /\ i \in 1 .. n
      BY <1>0, <2>3
    <3> QED BY <1>0, <1>8, <3>1
  <2> QED BY <2>1, <2>2, <2>3 DEF Stacked
<1>10. Levels(s.t, s.cs, lv)
  <2>1. ASSUME NEW i \in 1 .. Len(s.cs) PROVE Placed(s.t, s.cs, lv, i) /\ Closes(s.t, s.cs, lv, i)
    <3>1. i \in 1 .. n /\ s.cs[i].th = Main /\ lv[i] = 1 /\ (i # n => i < n) /\ s.cs[i].k # "resume"
      BY <1>0, <1>8
    <3>2. ~(Ends(s.cs, i) /\ i < n)
      <4> SUFFICES ASSUME i < n PROVE ~Ends(s.cs, i)
        OBVIOUS
      <4>1. i + 1 \in 1 .. n
        BY <1>0, <3>1
      <4> QED BY <1>0, <1>8, <3>1, <4>1 DEF Ends
    <3>3. Placed(s.t, s.cs, lv, i)
      <4>1. Top(s.cs, lv, i) = IF i = n THEN 2 ELSE 1
        BY <1>6, <3>1
      <4>2. Top(s.cs, lv, i) <= 2 /\ \A j \in 1 + 1 .. Top(s.cs, lv, i) : j = 2
        BY <4>1
      <4>3. \A j \in 1 + 1 .. Top(s.cs, lv, i) : s.t[Main].ci[j] = "lua"
        BY <1>2, <4>2
      <4>4. s.t[Main].ci[1] # "lua"
        BY <1>2
      <4>5. Top(s.cs, lv, i) <= Len(s.t[Main].ci)
        BY <1>2, <4>2
      <4> QED BY <3>1, <4>3, <4>4, <4>5 DEF Placed
    <3>4. Closes(s.t, s.cs, lv, i)
      <4> SUFFICES ASSUME Ends(s.cs, i) PROVE Closes(s.t, s.cs, lv, i)
        BY DEF Closes
      <4>1. i = n
        BY <3>1, <3>2
      <4>2. Top(s.cs, lv, i) = 2
        BY <1>6, <3>1, <4>1
      <4>3. i = Len(s.cs)
        BY <1>0, <4>1
      <4> QED BY <1>2, <3>1, <4>2, <4>3 DEF Closes
    <3> QED BY <3>3, <3>4
  <2>2. ASSUME NEW i \in 1 .. Len(s.cs) - 1 PROVE Nests(s.t, s.cs, lv, i)
    <3>1. i \in 1 .. n /\ i + 1 \in 1 .. n /\ i # n
      BY <1>0
    <3>2. Top(s.cs, lv, i) = 1 /\ lv[i + 1] = 1
      BY <1>6, <3>1
    <3>3. s.cs[i + 1].k # "pcall" /\ s.cs[i].k # "resume"
      <4>1. i + 1 = n \/ i + 1 = n - 1
        BY <1>0, <3>1
      <4>2. s.cs[i + 1].k \in {"exec", "call"}
        BY <1>0, <4>1
      <4>3. s.cs[i].k \in {"exec", "call", "pcall"}
        BY <1>8, <3>1
      <4> QED BY <4>2, <4>3
    <3> QED BY <3>2, <3>3 DEF Nests
  <2>3. ASSUME NEW i \in 1 .. Len(s.cs), NEW j \in 1 .. Len(s.cs), i < j PROVE Top(s.cs, lv, i) <= lv[j]
    <3>1. i \in 1 .. n /\ j \in 1 .. n /\ i # n
      BY <1>0, <2>3
    <3>2. Top(s.cs, lv, i) = 1 /\ lv[j] = 1
      BY <1>6, <3>1
    <3> QED BY <3>2
  <2> QED BY <2>1, <2>2, <2>3 DEF Levels
<1>11. Saved(s.t, s.cs, lv)
  <2>1. ASSUME NEW i \in 1 .. Len(s.cs) PROVE Saves(s.cs, lv, i)
    <3> SUFFICES ASSUME s.cs[i].k = "pcall" PROVE Saves(s.cs, lv, i)
      BY DEF Saves
    <3>1. n = 3 /\ i = 1
      BY <1>0, <1>1
    <3>2. Depth(s.cs, 1) = 0 /\ 0 < MaxCcalls + Spare
      BY <1>7, <3>1, CallsAssumption
    <3>3. s.cs[1].ncc = 0 /\ s.cs[1].ci = 1 /\ s.cs[1].errfunc = None /\ lv[1] = 1
      BY <1>1, <1>k, <3>1
    <3> QED BY <3>1, <3>2, <3>3 DEF Saves
  <2>2. ASSUME NEW th \in On(s.cs) PROVE s.t[th].errfunc = None
    <3>1. th = Main
      BY <1>0 DEF On
    <3> QED BY <1>2, <3>1
  <2> QED BY <2>1, <2>2 DEF Saved
<1>12. Counted(s.t, s.cs)
  <2>1. ASSUME NEW i \in 1 .. Len(s.cs), Ends(s.cs, i) PROVE s.t[s.cs[i].th].ncc = Depth(s.cs, i)
    <3>1. i = n
      <4> SUFFICES ASSUME i # n PROVE FALSE
        OBVIOUS
      <4>1. i + 1 \in 1 .. n
        BY <1>0
      <4> QED BY <1>0, <1>8, <2>1, <4>1 DEF Ends
    <3> QED BY <1>0, <1>1, <1>2, <1>7, <3>1
  <2> QED BY <1>0, <1>2, <1>8, <2>1 DEF Counted
<1>13. Awake(s.t, s.cs)
  BY <1>0, <1>2 DEF Awake
<1>14. Rests(s.t, s.cs)
  <2> SUFFICES ASSUME NEW c \in Coroutines PROVE Resting(s.t[c])
    BY DEF Rests
  <2>1. s.t[c] = NewThread
    BY <1>3, <1>4 DEF Thread
  <2>2. Len(<<"base">>) = 1
    OBVIOUS
  <2> QED BY <2>1, <2>2 DEF Resting, NewThread
<1>15. ASSUME NEW th \in Thread PROVE Sized(s.t[th])
  <2>1. CASE th = Main
    BY <1>2, <2>1, CallsAssumption DEF Sized
  <2>2. CASE th # Main
    <3>1. s.t[th].ci = <<"base">> /\ s.t[th].size = BasicCI
      BY <1>3, <2>2 DEF NewThread
    <3>2. Len(s.t[th].ci) = 1
      BY <3>1
    <3> QED BY <3>1, <3>2, CallsAssumption DEF Sized
  <2> QED BY <2>1, <2>2
<1>16. Good(s.t, s.cs, lv)
  BY <1>0, <1>9, <1>10, <1>11, <1>12, <1>13, <1>14, <1>15 DEF Good
<1>17. L(s) = Main /\ T(s) = s.t[Main] /\ s \in World /\ s.out = "running" /\ s.raised = "no"
  <2>1. s \in World /\ s.out = "running" /\ s.raised = "no"
    BY <1>h DEF HostState
  <2>2. L(s) = s.cs[Len(s.cs)].th /\ T(s) = s.t[L(s)]
    BY <1>1, <2>1, LastIs
  <2> QED BY <1>0, <1>1, <2>1, <2>2
<1>18. Limits(s)
  BY <1>2, <1>17, CallsAssumption DEF Limits
<1>19. Holds(s, lv) /\ Fits(s)
  BY <1>1, <1>16, <1>17, <1>18 DEF Holds, Fits
<1>20. On(s.cs) = {Main}
  BY <1>0, <1>1 DEF On
<1>21. Resumed(s.cs) = {}
  <2>1. \A j \in 2 .. Len(s.cs) : j \in 1 .. n /\ s.cs[j].k # "resume"
    BY <1>0, <1>8
  <2> QED BY <2>1 DEF Resumed
<1>22. ASSUME NEW c \in Coroutines PROVE ~s.t[c].made
  BY <1>3, <1>4 DEF Thread, NewThread
<1> QED BY <1>2, <1>17, <1>19, <1>20, <1>21, <1>22 DEF Starting

(* So the program starts. *)
LEMMA InitHolds ==
  ASSUME Init
  PROVE  \E lv : Starting(lv)
<1> DEFINE host == [k |-> "pcall", th |-> Main, ncc |-> 0, ci |-> 1, errfunc |-> None]
           call == [k |-> "call", th |-> Main]
           exec == [k |-> "exec", th |-> Main, n |-> 1]
           first == [th \in Thread |-> IF th = Main THEN [NewThread EXCEPT !.made = TRUE] ELSE NewThread]
           x(may) == [t |-> first, cs |-> <<>>, may |-> may, raised |-> "no", out |-> "running"]
<1>1. PICK protected \in BOOLEAN, may \in Programs :
        s = [x(may) EXCEPT !.cs = IF protected THEN <<host, call, exec>> ELSE <<call, exec>>,
                           !.t[Main].ncc = 1, !.t[Main].ci = <<"base", "lua">>]
  BY DEF Init
<1>2. host \in Act /\ call \in Act /\ exec \in Act
  BY DEF Act, Thread, ErrFunc
<1>3. s.cs = IF protected THEN <<host, call, exec>> ELSE <<call, exec>>
  BY <1>1
<1>4. s.may = may /\ s.raised = "no" /\ s.out = "running"
  BY <1>1
<1>5. s.t = [first EXCEPT ![Main] = [first[Main] EXCEPT !.ncc = 1, !.ci = <<"base", "lua">>]]
  BY <1>1 DEF Thread
<1>6. /\ DOMAIN s.t = Thread
      /\ \A th \in Thread : s.t[th] = IF th = Main THEN [NewThread EXCEPT !.made = TRUE, !.ncc = 1, !.ci = <<"base", "lua">>]
                                      ELSE NewThread
  BY <1>5 DEF Thread, NewThread
<1>7. \A th \in Thread : s.t[th] \in Rec
  <2>1. /\ <<"base", "lua">> \in Seq(Frame) /\ <<"base">> \in Seq(Frame) /\ None \in ErrFunc /\ BasicCI \in Nat
    BY CallsAssumption DEF Frame, ErrFunc
  <2>2. NewThread \in Rec
    BY <2>1 DEF Rec, NewThread
  <2>3. \A r \in Rec : [r EXCEPT !.made = TRUE, !.ncc = 1, !.ci = <<"base", "lua">>] \in Rec
    BY <2>1 DEF Rec
  <2>4. [NewThread EXCEPT !.made = TRUE, !.ncc = 1, !.ci = <<"base", "lua">>] \in Rec
    BY <2>2, <2>3
  <2> QED BY <1>6, <2>2, <2>4
<1> HIDE DEF host, call, exec, first
<1>8. <<host, call, exec>> \in Seq(Act) /\ <<call, exec>> \in Seq(Act)
  BY <1>2
<1>9. s \in World
  <2>1. s.t = [th \in Thread |-> s.t[th]]
    BY <1>5 DEF first
  <2>2. s.t \in [Thread -> Rec]
    BY <1>7, <2>1
  <2>3. s = [t |-> s.t, cs |-> s.cs, may |-> s.may, raised |-> s.raised, out |-> s.out]
    BY <1>1
  <2> QED BY <1>3, <1>4, <1>8, <2>2, <2>3 DEF World
<1>10. CASE protected
  <2> DEFINE lv == [i \in 1 .. 3 |-> 1]
  <2>1. s.cs = <<host, call, exec>> /\ Len(s.cs) = 3 /\ s.cs[1] = host /\ s.cs[2] = call /\ s.cs[3] = exec
    BY <1>3, <1>10
  <2>2. \A i \in 1 .. 3 : i = 1 \/ i = 2 \/ i = 3
    OBVIOUS
  <2>3. \A i \in 1 .. 3 : s.cs[i].th = Main
    BY <2>1, <2>2 DEF host, call, exec
  <2>4. /\ s.cs[3].k = "exec" /\ s.cs[2].k = "call" /\ s.cs[1].k = "pcall" /\ s.cs[3].n = 1
        /\ s.cs[1].ncc = 0 /\ s.cs[1].ci = 1 /\ s.cs[1].errfunc = None
    BY <2>1 DEF host, call, exec
  <2>5. Hosting(3)
    <3>1. 3 - 1 = 2 /\ 3 \in {2, 3}
      OBVIOUS
    <3>2. s.cs \in Seq(Act)
      BY <1>8, <2>1
    <3>3. HostStack(s.cs, 3)
      BY <2>1, <2>3, <2>4, <3>1, <3>2 DEF HostStack
    <3>4. HostThreads(s.t)
      BY <1>6 DEF HostThreads, Thread
    <3>5. HostState(s)
      BY <1>4, <1>9 DEF HostState
    <3> QED BY <3>3, <3>4, <3>5 DEF Hosting
  <2>6. lv \in Seq(Nat) /\ Len(lv) = 3 /\ \A i \in 1 .. 3 : lv[i] = 1
    OBVIOUS
  <2>7. Starting(lv)
    <3> HIDE DEF lv
    <3> QED BY <2>5, <2>6, HostHolds
  <2> QED BY <2>7
<1>11. CASE ~protected
  <2> DEFINE lv == [i \in 1 .. 2 |-> 1]
  <2>1. s.cs = <<call, exec>> /\ Len(s.cs) = 2 /\ s.cs[1] = call /\ s.cs[2] = exec
    BY <1>3, <1>11
  <2>2. \A i \in 1 .. 2 : i = 1 \/ i = 2
    OBVIOUS
  <2>3. \A i \in 1 .. 2 : s.cs[i].th = Main
    BY <2>1, <2>2 DEF call, exec
  <2>4. s.cs[2].k = "exec" /\ s.cs[1].k = "call" /\ s.cs[2].n = 1
    BY <2>1 DEF call, exec
  <2>5. Hosting(2)
    <3>1. 2 - 1 = 1 /\ 2 \in {2, 3} /\ 2 # 3
      OBVIOUS
    <3>2. s.cs \in Seq(Act)
      BY <1>8, <2>1
    <3>3. HostStack(s.cs, 2)
      BY <2>1, <2>3, <2>4, <3>1, <3>2 DEF HostStack
    <3>4. HostThreads(s.t)
      BY <1>6 DEF HostThreads, Thread
    <3>5. HostState(s)
      BY <1>4, <1>9 DEF HostState
    <3> QED BY <3>3, <3>4, <3>5 DEF Hosting
  <2>6. lv \in Seq(Nat) /\ Len(lv) = 2 /\ \A i \in 1 .. 2 : lv[i] = 1
    OBVIOUS
  <2>7. Starting(lv)
    <3> HIDE DEF lv
    <3> QED BY <2>5, <2>6, HostHolds
  <2> QED BY <2>7
<1> QED BY <1>10, <1>11

-----------------------------------------------------------------------------
(* What the states of the program show.                                       *)

(* The threads and the C stack of a state, whether the program runs or not. *)
LEMMA FitsGood ==
  ASSUME Fits(s)
  PROVE  \E lv : /\ Good(s.t, s.cs, lv) /\ Stacked(s.cs) /\ Levels(s.t, s.cs, lv) /\ Counted(s.t, s.cs)
                 /\ s.cs \in Seq(Act) /\ s.t \in [Thread -> Rec] /\ DOMAIN s.cs = 1 .. Len(s.cs) /\ Len(s.cs) \in Nat
<1>1. PICK lv : Good(s.t, s.cs, lv)
  BY DEF Fits
<1> QED BY <1>1 DEF Fits, Good, World

(* The activations of a thread lie together, from f to e, and f is the host's *)
(* call or the resume.                                                        *)
Segment(cs, th, f, e) ==
  /\ f \in 1 .. Len(cs) /\ e \in f .. Len(cs) /\ e \in 1 .. Len(cs)
  /\ {j \in 1 .. Len(cs) : cs[j].th = th} = f .. e
  /\ \A j \in f + 1 .. e : cs[j].k # "resume"
  /\ Ends(cs, e)
  /\ IF th = Main THEN f = 1 /\ cs[f].k \in {"pcall", "call"} ELSE cs[f].k = "resume"

(* So they do. *)
LEMMA HasSegment ==
  ASSUME NEW t \in [Thread -> Rec], NEW cs \in Seq(Act), NEW lv, Good(t, cs, lv),
         NEW i \in 1 .. Len(cs), NEW th, th = cs[i].th
  PROVE  \E f, e : Segment(cs, th, f, e)
<1>1. Stacked(cs) /\ Len(cs) \in Nat /\ th \in Thread
  <2>1. cs[i] \in Act
    OBVIOUS
  <2> QED BY <2>1, ActIs DEF Good
<1>2. PICK e \in i .. Len(cs) : cs[e].th = th /\ Ends(cs, e) /\ \A j \in 1 .. Len(cs) : cs[j].th = th => j <= e
  BY <1>1, EndsAbove
<1>3. e \in 1 .. Len(cs) /\ e \in Nat /\ i \in Nat /\ i <= e /\ cs # <<>>
  BY <1>1
<1>4. \A f \in 1 .. Len(cs) : f <= e /\ cs[f].th = th =>
         \A m \in f + 1 .. e : cs[m].th = th /\ cs[m].k # "resume"
  <2> SUFFICES ASSUME NEW f \in 1 .. Len(cs), f <= e, cs[f].th = th, NEW m \in f + 1 .. e
               PROVE  cs[m].th = th /\ cs[m].k # "resume"
    OBVIOUS
  <2>1. f < e /\ cs[f].th = cs[e].th
    BY <1>2, <1>3
  <2> QED BY <1>1, <1>3, <2>1 DEF Stacked
<1>5. ASSUME NEW f \in 1 .. e, cs[f].th = th, \A j \in 1 .. f - 1 : cs[j].th # th,
             IF th = Main THEN f = 1 /\ cs[f].k \in {"pcall", "call"} ELSE cs[f].k = "resume"
      PROVE  Segment(cs, th, f, e)
  <2>1. f \in 1 .. Len(cs) /\ e \in f .. Len(cs) /\ f <= e /\ f \in Nat
    BY <1>1, <1>3
  <2>2. \A m \in f + 1 .. e : cs[m].th = th /\ cs[m].k # "resume"
    BY <1>4, <1>5, <2>1
  <2>3. ASSUME NEW j \in 1 .. Len(cs) PROVE cs[j].th = th <=> j \in f .. e
    <3>1. CASE j < f
      <4>1. j \in 1 .. f - 1
        BY <1>1, <2>1, <3>1
      <4> QED BY <1>5, <2>1, <3>1, <4>1
    <3>2. CASE j = f
      BY <1>5, <2>1, <3>2
    <3>3. CASE j > f
      BY <1>2, <1>1, <1>3, <2>1, <2>2, <3>3
    <3> QED BY <1>1, <2>1, <3>1, <3>2, <3>3
  <2>4. {j \in 1 .. Len(cs) : cs[j].th = th} = f .. e
    BY <1>1, <1>3, <2>1, <2>3
  <2> QED BY <1>2, <1>3, <1>5, <2>1, <2>2, <2>4 DEF Segment
<1>6. CASE th = Main
  <2>1. 1 \in 1 .. e /\ cs[1].th = th /\ cs[1].k \in {"pcall", "call"}
    BY <1>1, <1>3, <1>6 DEF Stacked
  <2>2. \A j \in 1 .. 1 - 1 : cs[j].th # th
    OBVIOUS
  <2>3. Segment(cs, th, 1, e)
    BY <1>5, <1>6, <2>1, <2>2
  <2> QED BY <2>3
<1>7. CASE th # Main
  <2>1. cs[i].th \in Coroutines
    BY <1>1, <1>7 DEF Thread
  <2>2. PICK p \in 1 .. i : cs[p].k = "resume" /\ cs[p].th = th
    BY <1>1, <2>1, ResumedBelow
  <2>3. p \in 1 .. Len(cs) /\ p \in 1 .. e
    BY <1>1, <1>3
  <2>4. \A j \in 1 .. p - 1 : cs[j].th # cs[p].th
    BY <2>2, <2>3, Resumer
  <2>5. Segment(cs, th, p, e)
    BY <1>5, <1>7, <2>2, <2>3, <2>4
  <2> QED BY <2>5
<1> QED BY <1>6, <1>7

(* Calls are counted up to an activation and above it. *)
LEMMA DepthSplit ==
  ASSUME NEW cs, NEW p \in Nat, NEW e \in Nat, p <= e
  PROVE  /\ Depth(cs, p) \in Nat /\ Cardinality({j \in p + 1 .. e : cs[j].k \in {"call", "resume"}}) \in Nat
         /\ Depth(cs, e) = Depth(cs, p) + Cardinality({j \in p + 1 .. e : cs[j].k \in {"call", "resume"}})
<1> DEFINE A == {j \in 1 .. p : cs[j].k \in {"call", "resume"}}
           B == {j \in p + 1 .. e : cs[j].k \in {"call", "resume"}}
           C == {j \in 1 .. e : cs[j].k \in {"call", "resume"}}
<1>1. IsFiniteSet(A) /\ IsFiniteSet(B)
  <2>1. IsFiniteSet(1 .. p) /\ IsFiniteSet(p + 1 .. e)
    BY FS_Interval
  <2>2. A \subseteq 1 .. p /\ B \subseteq p + 1 .. e
    OBVIOUS
  <2> QED BY <2>1, <2>2, FS_Subset
<1>2. A \cap B = {} /\ C = A \cup B
  <2>1. A \cap B = {}
    OBVIOUS
  <2>2. \A j \in 1 .. e : j \in 1 .. p \/ j \in p + 1 .. e
    OBVIOUS
  <2>3. \A j : j \in 1 .. p \/ j \in p + 1 .. e => j \in 1 .. e
    OBVIOUS
  <2> QED BY <2>1, <2>2, <2>3
<1>3. Depth(cs, p) = Cardinality(A) /\ Depth(cs, e) = Cardinality(C)
  BY DEF Depth
<1> HIDE DEF A, B, C
<1>4. Cardinality(A) \in Nat /\ Cardinality(B) \in Nat
  BY <1>1, FS_CardinalityType
<1>5. Cardinality(A \cup B) = Cardinality(A) + Cardinality(B) - Cardinality(A \cap B)
  BY <1>1, FS_Union
<1>6. Cardinality(A \cap B) = 0
  BY <1>2, FS_EmptySet
<1>7. Cardinality(C) = Cardinality(A) + Cardinality(B)
  BY <1>2, <1>4, <1>5, <1>6
<1> QED BY <1>3, <1>4, <1>7 DEF B

(* The counters agree with the C stack. *)
LEMMA CountsAgree ==
  ASSUME Fits(s)
  PROVE  CallsCounted
<1>1. PICK lv : /\ Good(s.t, s.cs, lv) /\ Stacked(s.cs) /\ Levels(s.t, s.cs, lv) /\ Counted(s.t, s.cs)
                /\ s.cs \in Seq(Act) /\ s.t \in [Thread -> Rec] /\ DOMAIN s.cs = 1 .. Len(s.cs) /\ Len(s.cs) \in Nat
  BY FitsGood
<1>2. ASSUME NEW th \in Thread, OnStack(th)
      PROVE  s.t[th].ncc = s.t[th].baseCc + Cardinality(Activations(th, "call"))
  <2>1. PICK i \in 1 .. Len(s.cs) : s.cs[i].th = th
    BY <1>1, <1>2 DEF OnStack
  <2>2. PICK f, e : Segment(s.cs, th, f, e)
    BY <1>1, <2>1, HasSegment
  <2>3. /\ f \in 1 .. Len(s.cs) /\ e \in 1 .. Len(s.cs) /\ f <= e /\ f \in Nat \ {0} /\ e \in Nat
        /\ {j \in 1 .. Len(s.cs) : s.cs[j].th = th} = f .. e
        /\ \A j \in f + 1 .. e : s.cs[j].k # "resume"
        /\ Ends(s.cs, e) /\ s.cs[e].th = th /\ s.cs[f].th = th
    <3>1. f \in 1 .. Len(s.cs) /\ e \in 1 .. Len(s.cs) /\ e \in f .. Len(s.cs)
      BY <2>2 DEF Segment
    <3>2. f <= e /\ f \in Nat \ {0} /\ e \in Nat
      BY <1>1, <3>1
    <3>3. e \in f .. e /\ f \in f .. e
      BY <3>2
    <3> QED BY <2>2, <3>1, <3>2, <3>3 DEF Segment
  <2>4. s.t[th].ncc = Depth(s.cs, e)
    BY <1>1, <2>3 DEF Counted
  <2> DEFINE B(p) == {j \in p + 1 .. e : s.cs[j].k \in {"call", "resume"}}
  <2>5. ASSUME NEW p \in Nat, p <= e, s.t[th].baseCc = Depth(s.cs, p), Activations(th, "call") = B(p)
        PROVE  s.t[th].ncc = s.t[th].baseCc + Cardinality(Activations(th, "call"))
    BY <2>3, <2>4, <2>5, DepthSplit
  <2>6. \A j : j \in Activations(th, "call") <=> j \in f .. e /\ s.cs[j].k = "call"
    <3>1. \A j : j \in 1 .. Len(s.cs) /\ s.cs[j].th = th <=> j \in f .. e
      BY <2>3
    <3> QED BY <1>1, <3>1 DEF Activations
  <2>7. CASE th = Main
    <3>1. f = 1 /\ s.cs[1].k # "resume"
      BY <2>2, <2>7 DEF Segment
    <3>2. ASSUME NEW j PROVE j \in Activations(th, "call") <=> j \in B(0)
      <4>1. j \in f .. e => s.cs[j].k # "resume" /\ j \in 0 + 1 .. e
        <5> SUFFICES ASSUME j \in f .. e PROVE s.cs[j].k # "resume" /\ j \in 0 + 1 .. e
          OBVIOUS
        <5>1. CASE j = f
          BY <2>3, <3>1, <5>1
        <5>2. CASE j # f
          BY <2>3, <3>1, <5>2
        <5> QED BY <5>1, <5>2
      <4>2. j \in 0 + 1 .. e => j \in f .. e
        BY <3>1
      <4> QED BY <2>6, <4>1, <4>2
    <3>3. Activations(th, "call") = B(0)
      BY <3>2
    <3>4. s.t[th].baseCc = Depth(s.cs, 0)
      <4>1. Depth(s.cs, 0) = 0
        BY DepthStep
      <4> QED BY <1>1, <2>7, <4>1 DEF Counted
    <3> QED BY <2>3, <2>5, <3>3, <3>4
  <2>8. CASE th # Main
    <3>1. s.cs[f].k = "resume"
      BY <2>2, <2>8 DEF Segment
    <3>2. ASSUME NEW j PROVE j \in Activations(th, "call") <=> j \in B(f)
      <4>1. j \in f .. e /\ s.cs[j].k = "call" => j \in f + 1 .. e
        BY <2>3, <3>1
      <4>2. j \in f + 1 .. e => j \in f .. e
        BY <2>3
      <4> QED BY <2>3, <2>6, <4>1, <4>2
    <3>3. Activations(th, "call") = B(f)
      BY <3>2
    <3>4. s.t[th].baseCc = Depth(s.cs, f)
      BY <1>1, <2>3, <3>1 DEF Counted
    <3> QED BY <2>3, <2>5, <3>3, <3>4
  <2> QED BY <2>7, <2>8
<1>3. ASSUME NEW i \in DOMAIN s.cs, s.cs[i].k = "resume"
      PROVE  s.t[s.cs[i].th].baseCc = s.t[s.cs[i - 1].th].ncc + 1
  <2>1. i \in 1 .. Len(s.cs)
    BY <1>1
  <2>2. i - 1 \in 1 .. Len(s.cs)
    BY <1>1, <1>3, <2>1, Resumer
  <2>3. i - 1 \in Nat /\ (i - 1) + 1 = i
    BY <2>1, <2>2
  <2>4. Ends(s.cs, i - 1)
    BY <1>3, <2>3 DEF Ends
  <2>5. s.t[s.cs[i - 1].th].ncc = Depth(s.cs, i - 1) /\ s.t[s.cs[i].th].baseCc = Depth(s.cs, i)
    BY <1>1, <1>3, <2>1, <2>2, <2>4 DEF Counted
  <2>6. Depth(s.cs, (i - 1) + 1) = Depth(s.cs, i - 1) + (IF s.cs[(i - 1) + 1].k \in {"call", "resume"} THEN 1 ELSE 0)
    BY <2>3, DepthStep
  <2> QED BY <1>3, <2>3, <2>5, <2>6
<1> QED BY <1>2, <1>3 DEF CallsCounted

(* What yielded waits in Lua. *)
LEMMA YieldedInLua ==
  ASSUME Fits(s)
  PROVE  SuspendedInLua
<1>1. PICK lv : /\ Good(s.t, s.cs, lv) /\ s.cs \in Seq(Act) /\ DOMAIN s.cs = 1 .. Len(s.cs) /\ Len(s.cs) \in Nat
  BY FitsGood
<1> SUFFICES ASSUME NEW c \in Coroutines, s.t[c].status = "yield", s.t[c].made
             PROVE  /\ s.t[c].errfunc = None /\ Activations(c, "exec") = {} /\ Activations(c, "call") = {}
                    /\ \A i \in 2 .. Len(s.t[c].ci) - 1 : s.t[c].ci[i] = "lua"
  BY DEF SuspendedInLua
<1>2. CASE c \in On(s.cs)
  <2>1. \A i \in 1 .. Len(s.cs) : s.cs[i].th = c => s.cs[i].k = "resume" /\ Suspended(s.t[c])
    BY <1>1 DEF Good, Awake
  <2>2. Suspended(s.t[c])
    BY <1>2, <2>1 DEF On
  <2>3. Activations(c, "exec") = {} /\ Activations(c, "call") = {}
    BY <1>1, <2>1 DEF Activations
  <2> QED BY <2>2, <2>3 DEF Suspended
<1>3. CASE c \notin On(s.cs)
  <2>1. Suspended(s.t[c])
    BY <1>1, <1>3 DEF Good, Rests, Resting
  <2>2. Activations(c, "exec") = {} /\ Activations(c, "call") = {}
    BY <1>1, <1>3 DEF Activations, On
  <2> QED BY <2>1, <2>2 DEF Suspended
<1> QED BY <1>2, <1>3

(* Calls and frames stay within their limits. *)
LEMMA StaysBounded ==
  ASSUME Fits(s)
  PROVE  Bounded
<1>1. PICK lv : /\ Good(s.t, s.cs, lv) /\ Counted(s.t, s.cs) /\ s.cs \in Seq(Act)
                /\ DOMAIN s.cs = 1 .. Len(s.cs) /\ Len(s.cs) \in Nat
  BY FitsGood
<1>2. Depth(s.cs, Len(s.cs)) <= MaxCcalls + Spare
  <2>1. CASE s.cs = <<>>
    <3>1. Depth(s.cs, 0) = 0 /\ Len(s.cs) = 0
      BY <2>1, DepthStep
    <3> QED BY <3>1, CallsAssumption
  <2>2. CASE s.cs # <<>>
    <3>1. s.out = "running" /\ Limits(s) /\ s \in World
      BY <2>2 DEF Fits
    <3>2. L(s) = s.cs[Len(s.cs)].th /\ T(s) = s.t[L(s)] /\ T(s) \in Rec /\ Len(s.cs) \in Nat \ {0}
      BY <2>2, <3>1, LastIs
    <3>3. Len(s.cs) \in 1 .. Len(s.cs) /\ Ends(s.cs, Len(s.cs))
      BY <3>2 DEF Ends
    <3>4. T(s).ncc = Depth(s.cs, Len(s.cs))
      BY <1>1, <3>2, <3>3 DEF Counted
    <3>5. T(s).ncc \in Nat
      BY <3>2, RecIs
    <3>6. T(s).ncc <= MaxCcalls + Spare
      BY <3>1, <3>5, CallsAssumption DEF Limits
    <3> QED BY <3>4, <3>6
  <2> QED BY <2>1, <2>2
<1>3. {i \in DOMAIN s.cs : s.cs[i].k \in {"call", "resume"}} = {i \in 1 .. Len(s.cs) : s.cs[i].k \in {"call", "resume"}}
  BY <1>1
<1>4. \A th \in Thread : Len(s.t[th].ci) <= s.t[th].size /\ s.t[th].size <= 2 * MaxCalls
  BY <1>1 DEF Good, Sized
<1> QED BY <1>2, <1>3, <1>4 DEF Bounded, Depth

(* Frames above b: none of a Lua function up to v, then k of them. *)
LEMMA LuaFrames ==
  ASSUME NEW ci, NEW b \in Nat, NEW v \in Nat, NEW k \in Nat, b <= v,
         \A j \in b + 1 .. v : ci[j] # "lua", \A j \in v + 1 .. v + k : ci[j] = "lua"
  PROVE  /\ Cardinality({j \in 1 .. b : ci[j] = "lua"}) \in Nat
         /\ Cardinality({j \in 1 .. v + k : ci[j] = "lua"}) = Cardinality({j \in 1 .. b : ci[j] = "lua"}) + k
<1> DEFINE A == {j \in 1 .. b : ci[j] = "lua"}
           B == v + 1 .. v + k
           C == {j \in 1 .. v + k : ci[j] = "lua"}
<1>1. IsFiniteSet(A) /\ IsFiniteSet(B)
  <2>1. IsFiniteSet(1 .. b) /\ IsFiniteSet(B)
    BY FS_Interval
  <2>2. A \subseteq 1 .. b
    OBVIOUS
  <2> QED BY <2>1, <2>2, FS_Subset
<1>2. Cardinality(B) = k
  <2>1. v + 1 \in Int /\ v + k \in Int
    OBVIOUS
  <2>2. Cardinality(B) = IF v + 1 > v + k THEN 0 ELSE (v + k) - (v + 1) + 1
    BY <2>1, FS_Interval
  <2> HIDE DEF B
  <2> QED BY <2>2
<1>3. A \cap B = {}
  OBVIOUS
<1>4. C = A \cup B
  <2>1. ASSUME NEW j \in C PROVE j \in A \cup B
    <3>1. j \in 1 .. b \/ j \in b + 1 .. v \/ j \in B
      OBVIOUS
    <3> QED BY <2>1, <3>1
  <2>2. ASSUME NEW j \in A PROVE j \in C
    OBVIOUS
  <2>3. ASSUME NEW j \in B PROVE j \in C
    OBVIOUS
  <2> HIDE DEF A, B, C
  <2> QED BY <2>1, <2>2, <2>3
<1> HIDE DEF A, B, C
<1>5. Cardinality(A) \in Nat
  BY <1>1, FS_CardinalityType
<1>6. Cardinality(A \cup B) = Cardinality(A) + Cardinality(B) - Cardinality(A \cap B)
  BY <1>1, FS_Union
<1>7. Cardinality(A \cap B) = 0
  BY <1>3, FS_EmptySet
<1>8. Cardinality(C) = Cardinality(A) + k
  BY <1>2, <1>4, <1>5, <1>6, <1>7
<1> QED BY <1>5, <1>8 DEF A, C

(* A running sum exists. *)
LEMMA SumExists ==
  ASSUME NEW a, NEW n \in Nat
  PROVE  \E f : f = [i \in 0 .. n |-> IF i = 0 THEN 0 ELSE f[i - 1] + a[i]]
<1> DEFINE Is(f, j) == f = [i \in 0 .. j |-> IF i = 0 THEN 0 ELSE f[i - 1] + a[i]]
           S == {j \in Nat : \E f : Is(f, j)}
<1>1. 0 \in S
  <2> DEFINE f == [i \in 0 .. 0 |-> 0]
  <2>1. Is(f, 0)
    OBVIOUS
  <2> QED BY <2>1
<1>2. ASSUME NEW j \in Nat, j \in S PROVE j + 1 \in S
  <2>1. PICK f : Is(f, j)
    BY <1>2
  <2> DEFINE g == [i \in 0 .. j + 1 |-> IF i = 0 THEN 0 ELSE f[i - 1] + a[i]]
  <2>2. \A i \in 0 .. j : f[i] = IF i = 0 THEN 0 ELSE f[i - 1] + a[i]
    BY <2>1
  <2>3. \A i \in 0 .. j + 1 : i # 0 => i - 1 \in 0 .. j
    OBVIOUS
  <2>4. \A i \in 0 .. j : i \in 0 .. j + 1
    OBVIOUS
  <2>5. \A i \in 0 .. j : g[i] = f[i]
    BY <2>2, <2>4
  <2>6. Is(g, j + 1)
    <3> SUFFICES g = [i \in 0 .. j + 1 |-> IF i = 0 THEN 0 ELSE g[i - 1] + a[i]]
      OBVIOUS
    <3> QED BY <2>3, <2>5
  <2>7. j + 1 \in Nat
    OBVIOUS
  <2> HIDE DEF g, Is
  <2> QED BY <2>6, <2>7
<1> HIDE DEF S
<1>3. Nat \subseteq S
  BY <1>1, <1>2, NatSetInduction
<1> QED BY <1>3 DEF S

(* The frames that the luaV_executes of a thread will return from, summed up. *)
Sums(th, w) ==
  /\ w[0] = 0
  /\ \A i \in 1 .. Len(s.cs) : w[i] = w[i - 1] + (IF i \in Activations(th, "exec") THEN s.cs[i].n ELSE 0)

(* That is what ExecCalls adds up. *)
LEMMA ExecCallsSums ==
  ASSUME Len(s.cs) \in Nat, NEW th
  PROVE  \E w : Sums(th, w) /\ ExecCalls(th) = w[Len(s.cs)]
<1> DEFINE n == Len(s.cs)
           own(i) == IF i \in Activations(th, "exec") THEN s.cs[i].n ELSE 0
           a == [i \in 1 .. n |-> own(i)]
           w == CHOOSE f : f = [i \in 0 .. n |-> IF i = 0 THEN 0 ELSE f[i - 1] + own(i)]
<1>1. \E f : f = [i \in 0 .. n |-> IF i = 0 THEN 0 ELSE f[i - 1] + own(i)]
  <2>1. PICK f : f = [i \in 0 .. n |-> IF i = 0 THEN 0 ELSE f[i - 1] + a[i]]
    <3> HIDE DEF a
    <3> QED BY SumExists
  <2>2. \A i \in 0 .. n : i # 0 => a[i] = own(i)
    OBVIOUS
  <2> HIDE DEF a, own, n
  <2>3. [i \in 0 .. n |-> IF i = 0 THEN 0 ELSE f[i - 1] + a[i]] = [i \in 0 .. n |-> IF i = 0 THEN 0 ELSE f[i - 1] + own(i)]
    BY <2>2
  <2>4. f = [i \in 0 .. n |-> IF i = 0 THEN 0 ELSE f[i - 1] + own(i)]
    BY <2>1, <2>3
  <2> QED BY <2>4
<1>2. w = [i \in 0 .. n |-> IF i = 0 THEN 0 ELSE w[i - 1] + own(i)]
  <2> HIDE DEF own, n
  <2> QED BY <1>1
<1>3. ExecCalls(th) = w[n]
  BY DEF ExecCalls
<1> HIDE DEF w
<1>4. 0 \in 0 .. n /\ \A i \in 1 .. n : i \in 0 .. n /\ i # 0
  OBVIOUS
<1>5. w[0] = 0
  <2> HIDE DEF own
  <2> QED BY <1>2, <1>4
<1>6. \A i \in 1 .. n : w[i] = w[i - 1] + own(i)
  <2> HIDE DEF own
  <2> QED BY <1>2, <1>4
<1> QED BY <1>3, <1>5, <1>6 DEF Sums

(* Up to an activation, the thread has as many Lua frames as are owned. *)
LEMMA FramesUpTo ==
  ASSUME NEW lv, Good(s.t, s.cs, lv), s.t \in [Thread -> Rec], s.cs \in Seq(Act), DOMAIN s.cs = 1 .. Len(s.cs),
         NEW th, NEW f, NEW e, Segment(s.cs, th, f, e), NEW w, Sums(th, w),
         NEW m \in f .. e
  PROVE  w[m] = Cardinality({j \in 1 .. Top(s.cs, lv, m) : s.t[th].ci[j] = "lua"})
<1> DEFINE ci == s.t[th].ci
           C(b) == Cardinality({j \in 1 .. b : ci[j] = "lua"})
           n == Len(s.cs)
<1>1. /\ f \in 1 .. n /\ e \in 1 .. n /\ f <= e /\ f \in Nat /\ e \in Nat /\ n \in Nat
      /\ \A j \in 1 .. n : s.cs[j].th = th <=> j \in f .. e
      /\ \A j \in f + 1 .. e : s.cs[j].k # "resume"
      /\ s.cs[f].k \in {"pcall", "call", "resume"} /\ (f = 1 \/ s.cs[f].k = "resume")
  <2>1. f \in 1 .. n /\ e \in 1 .. n /\ n \in Nat /\ e \in f .. n
    BY DEF Segment
  <2>2. \A j \in 1 .. n : j \in {i \in 1 .. n : s.cs[i].th = th} <=> j \in f .. e
    BY DEF Segment
  <2> QED BY <2>1, <2>2 DEF Segment
<1>2. \A j \in 1 .. n : /\ lv[j] \in Nat /\ Own(s.cs[j]) \in Nat /\ Top(s.cs, lv, j) \in Nat
                        /\ Top(s.cs, lv, j) = lv[j] + Own(s.cs[j]) /\ lv[j] <= Top(s.cs, lv, j)
  BY Below DEF Top
<1> HIDE DEF n
<1>3. \A j \in 1 .. n : /\ s.cs[j] \in Act
                        /\ w[j] = w[j - 1] + (IF s.cs[j].th = th THEN Own(s.cs[j]) ELSE 0)
  <2> TAKE j \in 1 .. n
  <2>1. s.cs[j] \in Act
    BY DEF n
  <2>2. w[j] = w[j - 1] + (IF j \in Activations(th, "exec") THEN s.cs[j].n ELSE 0)
    BY DEF Sums, n
  <2>3. j \in Activations(th, "exec") <=> s.cs[j].th = th /\ s.cs[j].k = "exec"
    BY DEF Activations, n
  <2>4. (s.cs[j].k = "exec" => Own(s.cs[j]) = s.cs[j].n) /\ (s.cs[j].k # "exec" => Own(s.cs[j]) = 0)
    BY <2>1, ActIs
  <2> HIDE DEF n
  <2>5. (IF j \in Activations(th, "exec") THEN s.cs[j].n ELSE 0) = (IF s.cs[j].th = th THEN Own(s.cs[j]) ELSE 0)
    BY <2>3, <2>4
  <2> QED BY <2>1, <2>2, <2>5
<1>4. w[f - 1] = 0
  <2> DEFINE Z == {j \in Nat : j < f => w[j] = 0}
  <2>1. 0 \in Z
    BY DEF Sums
  <2>2. ASSUME NEW j \in Nat, j \in Z PROVE j + 1 \in Z
    <3> SUFFICES ASSUME j + 1 < f PROVE w[j + 1] = 0
      OBVIOUS
    <3>1. j + 1 \in 1 .. n /\ j + 1 \notin f .. e /\ (j + 1) - 1 = j
      BY <1>1
    <3>2. s.cs[j + 1].th # th /\ w[j] = 0
      BY <1>1, <2>2, <3>1
    <3> QED BY <1>3, <3>1, <3>2
  <2>3. Nat \subseteq Z
    <3> HIDE DEF Z
    <3> QED BY <2>1, <2>2, NatSetInduction
  <2>4. f - 1 \in Nat /\ f - 1 < f
    BY <1>1
  <2> QED BY <2>3, <2>4
<1> DEFINE Y == {j \in Nat : f + j <= e => w[f + j] = C(Top(s.cs, lv, f + j))}
<1>5. 0 \in Y
  <2>1. s.cs[f].th = th /\ f + 0 = f /\ f \in f .. e
    BY <1>1
  <2>2. Placed(s.t, s.cs, lv, f)
    BY <1>1 DEF Good, Levels, n
  <2>3. lv[f] = 1 /\ ci[1] # "lua"
    BY <1>1, <2>1, <2>2 DEF Placed
  <2>4. Own(s.cs[f]) = 0
    BY <1>1, <1>3, ActIs
  <2>5. Top(s.cs, lv, f) = 1
    BY <1>1, <1>2, <2>3, <2>4
  <2>6. {j \in 1 .. 1 : ci[j] = "lua"} = {}
    BY <2>3
  <2>7. C(1) = 0
    <3> HIDE DEF ci
    <3> QED BY <2>6, FS_EmptySet
  <2>8. w[f] = 0
    <3>1. f \in 1 .. n
      BY <1>1
    <3>2. w[f] = w[f - 1] + (IF s.cs[f].th = th THEN Own(s.cs[f]) ELSE 0)
      BY <1>3, <3>1
    <3>3. w[f] = 0 + 0
      BY <1>4, <2>1, <2>4, <3>2
    <3> QED BY <3>3
  <2> HIDE DEF C
  <2> QED BY <2>1, <2>5, <2>7, <2>8
<1>6. ASSUME NEW j \in Nat, j \in Y PROVE j + 1 \in Y
  <2> SUFFICES ASSUME f + (j + 1) <= e PROVE w[f + (j + 1)] = C(Top(s.cs, lv, f + (j + 1)))
    OBVIOUS
  <2> DEFINE p == f + j
  <2>1. p \in Nat /\ p \in 1 .. n /\ p + 1 \in 1 .. n /\ p + 1 = f + (j + 1) /\ p \in f .. e /\ p + 1 \in f .. e /\ p + 1 \in f + 1 .. e
        /\ p <= e /\ (p + 1) - 1 = p /\ p \in 1 .. n - 1
    BY <1>1
  <2>2. w[p] = C(Top(s.cs, lv, p))
    BY <1>6, <2>1
  <2> HIDE DEF p
  <2>3. s.cs[p].th = th /\ s.cs[p + 1].th = th /\ s.cs[p + 1].k # "resume"
    BY <1>1, <2>1
  <2>4. Nests(s.t, s.cs, lv, p) /\ Placed(s.t, s.cs, lv, p + 1)
    BY <2>1 DEF Good, Levels, n
  <2>5. \A i \in Top(s.cs, lv, p) + 1 .. lv[p + 1] : ci[i] # "lua"
    BY <2>3, <2>4 DEF Nests
  <2>6. \A i \in lv[p + 1] + 1 .. Top(s.cs, lv, p + 1) : ci[i] = "lua"
    BY <2>3, <2>4 DEF Placed
  <2>7. Top(s.cs, lv, p) <= lv[p + 1]
    <3>1. p \in 1 .. Len(s.cs) /\ p + 1 \in 1 .. Len(s.cs) /\ p <= p + 1 /\ p < p + 1 /\ s.cs[p].th = s.cs[p + 1].th
      BY <2>1, <2>3 DEF n
    <3> QED BY <3>1, Below
  <2>8. C(Top(s.cs, lv, p + 1)) = C(Top(s.cs, lv, p)) + Own(s.cs[p + 1])
    <3> DEFINE b == Top(s.cs, lv, p)
               v == lv[p + 1]
               k == Own(s.cs[p + 1])
    <3>1. b \in Nat /\ v \in Nat /\ k \in Nat /\ b <= v /\ Top(s.cs, lv, p + 1) = v + k
      BY <1>2, <2>1, <2>7
    <3>2. (\A i \in b + 1 .. v : ci[i] # "lua") /\ \A i \in v + 1 .. v + k : ci[i] = "lua"
      BY <2>5, <2>6, <3>1
    <3> HIDE DEF b, v, k, ci
    <3>3. C(v + k) = C(b) + k
      BY <3>1, <3>2, LuaFrames
    <3> HIDE DEF C
    <3>4. C(Top(s.cs, lv, p + 1)) = C(b) + k
      BY <3>1, <3>3
    <3> QED BY <3>4 DEF b, k
  <2>9. w[p + 1] = w[p] + Own(s.cs[p + 1])
    BY <1>3, <2>1, <2>3
  <2> HIDE DEF C
  <2> QED BY <2>1, <2>2, <2>8, <2>9
<1>7. Nat \subseteq Y
  <2> HIDE DEF Y
  <2> QED BY <1>5, <1>6, NatSetInduction
<1>8. m - f \in Nat /\ f + (m - f) = m /\ f + (m - f) <= e
  BY <1>1
<1> QED BY <1>7, <1>8

(* Every Lua frame is owned. *)
LEMMA FramesAreOwned ==
  ASSUME Fits(s)
  PROVE  FramesOwned
<1>1. PICK lv : /\ Good(s.t, s.cs, lv) /\ Levels(s.t, s.cs, lv)
                /\ s.cs \in Seq(Act) /\ s.t \in [Thread -> Rec] /\ DOMAIN s.cs = 1 .. Len(s.cs) /\ Len(s.cs) \in Nat
  BY FitsGood
<1> SUFFICES ASSUME NEW th \in Thread, OnStack(th), s.t[th].status # "yield"
             PROVE  Cardinality({i \in DOMAIN s.t[th].ci : s.t[th].ci[i] = "lua"}) = ExecCalls(th)
  BY DEF FramesOwned
<1>2. PICK i \in 1 .. Len(s.cs) : s.cs[i].th = th
  BY <1>1 DEF OnStack
<1>3. PICK f, e : Segment(s.cs, th, f, e)
  BY <1>1, <1>2, HasSegment
<1>4. PICK w : Sums(th, w) /\ ExecCalls(th) = w[Len(s.cs)]
  BY <1>1, ExecCallsSums
<1> DEFINE n == Len(s.cs)
           ci == s.t[th].ci
           b == Top(s.cs, lv, e)
<1>5. /\ e \in 1 .. n /\ e \in f .. e /\ e \in Nat /\ f \in Nat /\ Ends(s.cs, e) /\ s.cs[e].th = th
      /\ \A j \in e + 1 .. n : s.cs[j].th # th
  <2>1. f \in 1 .. n /\ e \in 1 .. n /\ e \in f .. n /\ Ends(s.cs, e)
    BY <1>3 DEF Segment
  <2>2. \A j \in 1 .. n : j \in {h \in 1 .. n : s.cs[h].th = th} <=> j \in f .. e
    BY <1>3 DEF Segment
  <2>3. e \in f .. e /\ e \in Nat /\ f \in Nat
    BY <1>1, <2>1
  <2>4. \A j \in e + 1 .. n : j \in 1 .. n /\ j \notin f .. e
    BY <1>1, <2>3
  <2> QED BY <2>1, <2>2, <2>3, <2>4
<1>6. w[e] = Cardinality({j \in 1 .. b : ci[j] = "lua"})
  BY <1>1, <1>3, <1>4, <1>5, FramesUpTo
<1>7. w[n] = w[e]
  <2> DEFINE Z == {j \in Nat : e + j <= n => w[e + j] = w[e]}
  <2>1. 0 \in Z
    BY <1>5
  <2>2. ASSUME NEW j \in Nat, j \in Z PROVE j + 1 \in Z
    <3> SUFFICES ASSUME e + (j + 1) <= n PROVE w[e + (j + 1)] = w[e]
      OBVIOUS
    <3>1. e + (j + 1) \in 1 .. n /\ e + (j + 1) \in e + 1 .. n /\ (e + (j + 1)) - 1 = e + j /\ e + j <= n
      BY <1>1, <1>5
    <3>2. e + (j + 1) \notin Activations(th, "exec")
      BY <1>5, <3>1 DEF Activations
    <3>3. w[e + (j + 1)] = w[(e + (j + 1)) - 1] + 0
      BY <1>4, <3>1, <3>2 DEF Sums
    <3>4. w[e + j] = w[e]
      BY <2>2, <3>1
    <3>5. w[e] \in Nat
      <4>1. /\ IsFiniteSet({h \in 1 .. b : ci[h] = "lua"})
        <5>1. Top(s.cs, lv, e) \in Nat
          BY <1>1, <1>5, Below
        <5>2. IsFiniteSet(1 .. b)
          BY <5>1, FS_Interval
        <5>3. {h \in 1 .. b : ci[h] = "lua"} \subseteq 1 .. b
          OBVIOUS
        <5> QED BY <5>2, <5>3, FS_Subset
      <4> QED BY <1>6, <4>1, FS_CardinalityType
    <3> QED BY <3>1, <3>3, <3>4, <3>5
  <2>3. Nat \subseteq Z
    <3> HIDE DEF Z
    <3> QED BY <2>1, <2>2, NatSetInduction
  <2>4. n - e \in Nat /\ e + (n - e) = n /\ e + (n - e) <= n
    BY <1>1, <1>5
  <2> QED BY <2>3, <2>4
<1>8. /\ \A j \in b + 1 .. Len(ci) : ci[j] # "lua"
      /\ b \in Nat /\ b <= Len(ci) /\ Len(ci) \in Nat /\ DOMAIN ci = 1 .. Len(ci)
  <2>1. Placed(s.t, s.cs, lv, e) /\ Closes(s.t, s.cs, lv, e)
    BY <1>1, <1>5 DEF Levels
  <2>2. b \in Nat
    BY <1>1, <1>5, Below
  <2>3. ci \in Seq(Frame)
    BY <1>1, RecIs
  <2>4. b <= Len(ci)
    BY <1>5, <2>1 DEF Placed
  <2>5. \A j \in b + 1 .. Len(ci) : ci[j] # "lua"
    BY <1>5, <2>1 DEF Closes
  <2> QED BY <2>2, <2>3, <2>4, <2>5
<1> HIDE DEF ci, b, n
<1>9. {j \in DOMAIN ci : ci[j] = "lua"} = {j \in 1 .. b : ci[j] = "lua"}
  <2>1. \A j \in 1 .. Len(ci) : j \in 1 .. b \/ j \in b + 1 .. Len(ci)
    BY <1>8
  <2>2. \A j \in 1 .. b : j \in 1 .. Len(ci)
    BY <1>8
  <2> QED BY <1>8, <2>1, <2>2
<1> QED BY <1>4, <1>6, <1>7, <1>9 DEF ci, n

-----------------------------------------------------------------------------
(* The coroutines a program sees are those of LuaCoroutines.                  *)

(* ResumerOf, of any state. *)
ResumesOf(x, c) == {i \in DOMAIN x.cs : x.cs[i].th = c /\ x.cs[i].k = "resume"}
Before(cs, J) == IF J = {} THEN Main ELSE cs[(CHOOSE i \in J : TRUE) - 1].th
WaitsFor(x, c) == Before(x.cs, ResumesOf(x, c))

(* A coroutine is resumed once on the C stack, by who waits for it. *)
LEMMA WaitsIs ==
  ASSUME NEW x, Fits(x), NEW c
  PROVE  WaitsFor(x, c) = Waits(x, c)
<1>1. PICK lv : Good(x.t, x.cs, lv)
  BY DEF Fits
<1>2. /\ Stacked(x.cs) /\ x.cs \in Seq(Act) /\ x.t \in [Thread -> Rec] /\ DOMAIN x.cs = 1 .. Len(x.cs) /\ Len(x.cs) \in Nat
      /\ \A i \in 1 .. Len(x.cs) : x.cs[i].th \in Thread
  <2>1. x.cs \in Seq(Act) /\ x.t \in [Thread -> Rec] /\ Stacked(x.cs)
    BY <1>1 DEF Fits, Good, World
  <2>2. \A i \in 1 .. Len(x.cs) : x.cs[i] \in Act
    BY <2>1
  <2> QED BY <2>1, <2>2, ActIs
<1>3. \A i, j \in ResumesOf(x, c) : i = j
  <2> SUFFICES ASSUME NEW i \in ResumesOf(x, c), NEW j \in ResumesOf(x, c), i < j PROVE FALSE
    BY <1>2 DEF ResumesOf
  <2>1. i \in 1 .. Len(x.cs) /\ j \in 1 .. Len(x.cs) /\ x.cs[i].th = x.cs[j].th /\ x.cs[j].k = "resume" /\ j \in i + 1 .. j
    BY <1>2 DEF ResumesOf
  <2> QED BY <1>2, <2>1 DEF Stacked
<1>4. \A i \in ResumesOf(x, c) : i \in 1 .. Len(x.cs) /\ i - 1 \in 1 .. Len(x.cs) /\ x.cs[i].k = "resume" /\ x.cs[i].th = c
  <2> TAKE i \in ResumesOf(x, c)
  <2>1. i \in 1 .. Len(x.cs) /\ x.cs[i].k = "resume" /\ x.cs[i].th = c
    BY <1>2 DEF ResumesOf
  <2> QED BY <1>1, <1>2, <2>1, Resumer
<1>5. \A r : <<r, c>> \in Resumed(x.cs) <=> \E i \in ResumesOf(x, c) : r = x.cs[i - 1].th
  <2> TAKE r
  <2>1. ASSUME <<r, c>> \in Resumed(x.cs) PROVE \E i \in ResumesOf(x, c) : r = x.cs[i - 1].th
    <3>1. PICK i \in 2 .. Len(x.cs) : x.cs[i].k = "resume" /\ <<r, c>> = <<x.cs[i - 1].th, x.cs[i].th>>
      BY <2>1 DEF Resumed
    <3>2. i \in 1 .. Len(x.cs) /\ r = x.cs[i - 1].th /\ c = x.cs[i].th
      BY <1>2, <3>1
    <3> QED BY <1>2, <3>1, <3>2 DEF ResumesOf
  <2>2. ASSUME NEW i \in ResumesOf(x, c), r = x.cs[i - 1].th PROVE <<r, c>> \in Resumed(x.cs)
    <3>1. i \in 2 .. Len(x.cs) /\ x.cs[i].k = "resume" /\ x.cs[i].th = c
      BY <1>2, <1>4
    <3> QED BY <2>2, <3>1 DEF Resumed
  <2> QED BY <2>1, <2>2
<1>6. CASE ResumesOf(x, c) = {}
  BY <1>5, <1>6 DEF WaitsFor, Before, Waits
<1>7. CASE ResumesOf(x, c) # {}
  <2> DEFINE i == CHOOSE j \in ResumesOf(x, c) : TRUE
  <2>1. i \in ResumesOf(x, c)
    BY <1>7
  <2>2. WaitsFor(x, c) = x.cs[i - 1].th
    BY <1>7 DEF WaitsFor, Before
  <2> HIDE DEF i
  <2>3. \A r : <<r, c>> \in Resumed(x.cs) <=> r = x.cs[i - 1].th
    BY <1>3, <1>5, <2>1
  <2>4. x.cs[i - 1].th \in Thread
    BY <1>2, <1>4, <2>1
  <2>5. Waits(x, c) = x.cs[i - 1].th
    <3>1. \E r \in Thread : <<r, c>> \in Resumed(x.cs)
      BY <2>3, <2>4
    <3>2. (CHOOSE r \in Thread : <<r, c>> \in Resumed(x.cs)) = x.cs[i - 1].th
      BY <2>3, <2>4
    <3> QED BY <3>1, <3>2 DEF Waits
  <2> QED BY <2>2, <2>5
<1> QED BY <1>6, <1>7

(* What a program sees, before a step and after. *)
Shown ==
  /\ View(s).state = [c \in Thread |-> StateOf(c)]
  /\ View(s).resumer = [c \in Thread |-> ResumerOf(c)]
  /\ View(s).begun = Begun

(* That is what is shown. *)
LEMMA ViewShown ==
  ASSUME Fits(s)
  PROVE  Shown
<1>1. \A c \in Thread : StateOf(c) = StateIn(s, c)
  BY DEF StateOf, StateIn, running, Running
<1>2. \A c \in Thread : ResumerOf(c) = Waits(s, c)
  <2> TAKE c \in Thread
  <2>1. Activations(c, "resume") = ResumesOf(s, c)
    BY DEF Activations, ResumesOf
  <2>2. ResumerOf(c) = Before(s.cs, Activations(c, "resume"))
    BY DEF ResumerOf, Before
  <2>3. WaitsFor(s, c) = Before(s.cs, ResumesOf(s, c))
    BY DEF WaitsFor
  <2>4. ResumerOf(c) = WaitsFor(s, c)
    BY <2>1, <2>2, <2>3
  <2> QED BY <2>4, WaitsIs
<1> QED BY <1>1, <1>2 DEF Shown, View, Begun, BegunIn

(* And after a step. *)
LEMMA ViewShownNext ==
  ASSUME Fits(s')
  PROVE  Shown'
<1>1. \A c \in Thread : StateOf(c)' = StateIn(s', c)
  BY DEF StateOf, StateIn, running, Running
<1>2. \A c \in Thread : ResumerOf(c)' = Waits(s', c)
  <2> TAKE c \in Thread
  <2>1. Activations(c, "resume")' = ResumesOf(s', c)
    BY DEF Activations, ResumesOf
  <2>2. ResumerOf(c)' = Before(s'.cs, Activations(c, "resume")')
    BY DEF ResumerOf, Before
  <2>3. WaitsFor(s', c) = Before(s'.cs, ResumesOf(s', c))
    BY DEF WaitsFor
  <2>4. ResumerOf(c)' = WaitsFor(s', c)
    BY <2>1, <2>2, <2>3
  <2> QED BY <2>4, WaitsIs
<1> QED BY <1>1, <1>2 DEF Shown, View, Begun, BegunIn

(* One runs at first. *)
LEMMA InitSeen ==
  ASSUME Init
  PROVE  Seen!CInit
<1>1. PICK lv : Starting(lv)
  BY InitHolds
<1>2. Shown /\ Shows(s) /\ L(s) = Main /\ On(s.cs) = {Main} /\ Resumed(s.cs) = {} /\ Main \in Thread
  BY <1>1, ViewShown, Showing DEF Starting, Thread
<1>3. \A c \in Coroutines : ~s.t[c].made
  BY <1>1 DEF Starting
<1>4. ASSUME NEW c \in Thread PROVE StateIn(s, c) = IF c = Main THEN "running" ELSE "none"
  <2>1. CASE c = Main
    BY <1>2, <2>1 DEF Shows
  <2>2. CASE c # Main
    <3>1. c \in Coroutines /\ c \notin On(s.cs) /\ c # L(s)
      BY <1>2, <2>2 DEF Thread
    <3>2. Rest(Look(s.t[c])) = "none"
      BY <1>3, <3>1 DEF Rest, Look
    <3> QED BY <1>2, <2>2, <3>1, <3>2 DEF Shows
  <2> QED BY <2>1, <2>2
<1>5. \A c \in Thread : Waits(s, c) = Main
  BY <1>2 DEF Waits
<1>6. BegunIn(s) = {}
  BY <1>3 DEF BegunIn, Thread
<1>7. /\ View(s).state = [c \in Thread |-> IF c = Main THEN "running" ELSE "none"]
      /\ View(s).resumer = [c \in Thread |-> Main] /\ View(s).begun = {}
  BY <1>4, <1>5, <1>6 DEF View
<1> QED BY <1>2, <1>7 DEF Seen!CInit, Shown

(* And every step is one of their life, or none. *)
LEMMA NextSeen ==
  ASSUME Fits(s), [Next]_s
  PROVE  [Seen!CNext]_(Seen!cvars)
<1> DEFINE v == View(s)
           w == View(s')
<1>1. Fits(s') /\ MayTurn(v, w)
  BY StepFares DEF Fares
<1>2. Shown /\ Shown'
  BY <1>1, ViewShown, ViewShownNext
<1>3. /\ v.state = [c \in Thread |-> StateOf(c)] /\ v.resumer = [c \in Thread |-> ResumerOf(c)] /\ v.begun = Begun
      /\ w.state = [c \in Thread |-> StateOf(c)]' /\ w.resumer = [c \in Thread |-> ResumerOf(c)]' /\ w.begun = Begun'
  BY <1>2 DEF Shown
<1> HIDE DEF v, w
<1>4. CASE v = w
  BY <1>3, <1>4 DEF Seen!cvars
<1>5. ASSUME NEW c \in Thread, Creates(v, c, w) PROVE Seen!CNext
  <2>1. v.state[c] = "none" /\ w.state = [v.state EXCEPT ![c] = "suspended"] /\ w.resumer = v.resumer /\ w.begun = v.begun
    BY <1>5 DEF Creates
  <2>2. Seen!Create(c)
    BY <1>3, <2>1 DEF Seen!Create
  <2> QED BY <2>2 DEF Seen!CNext
<1>6. ASSUME NEW c \in Thread, Loses(v, c, w) PROVE Seen!CNext
  <2>1. /\ v.state[c] = "suspended" /\ c \notin v.begun /\ w.state = [v.state EXCEPT ![c] = "dead"]
        /\ w.resumer = v.resumer /\ w.begun = v.begun \cup {c}
    BY <1>6 DEF Loses
  <2>2. Seen!Lose(c)
    BY <1>3, <2>1 DEF Seen!Lose
  <2> QED BY <2>2 DEF Seen!CNext
<1>7. ASSUME NEW c \in Thread, NEW r \in Thread, Starts(v, r, c, w) PROVE Seen!CNext
  <2>1. /\ v.state[r] = "running" /\ v.state[c] = "suspended" /\ w.state = [v.state EXCEPT ![r] = "normal", ![c] = "running"]
        /\ w.resumer = [v.resumer EXCEPT ![c] = r] /\ w.begun = v.begun \cup {c}
    BY <1>7 DEF Starts
  <2>2. Seen!Resume(r, c)
    BY <1>3, <2>1 DEF Seen!Resume
  <2> QED BY <2>2 DEF Seen!CNext
<1>8. ASSUME NEW c \in Thread, NEW as \in {"suspended", "dead"}, Leaves(v, c, as, w) PROVE Seen!CNext
  <2>1. /\ v.state[c] = "running" /\ c # Main /\ v.state[v.resumer[c]] = "normal"
        /\ w.state = [v.state EXCEPT ![c] = as, ![v.resumer[c]] = "running"]
        /\ w.resumer = [v.resumer EXCEPT ![c] = Main] /\ w.begun = v.begun
    BY <1>8 DEF Leaves
  <2>2. Seen!Leave(c, as)
    BY <1>3, <2>1 DEF Seen!Leave
  <2> QED BY <2>2 DEF Seen!CNext
<1> QED BY <1>1, <1>4, <1>5, <1>6, <1>7, <1>8 DEF MayTurn

-----------------------------------------------------------------------------
(* The theorems.                                                              *)

(* The states of the program: the threads, the C stack and the frames fit each *)
(* other after every step (ldo.c), calls, yields and errors alike.             *)
THEOREM StatesFit ==
  Spec => []Fits(s)
<1>1. Init => Fits(s)
  BY InitHolds DEF Starting
<1>2. Fits(s) /\ [Next]_s => Fits(s)'
  <2> SUFFICES ASSUME Fits(s), [Next]_s PROVE Fits(s')
    OBVIOUS
  <2> QED BY StepFares DEF Fares
<1> QED BY <1>1, <1>2, PTL DEF Spec

(* nCcalls and baseCcalls agree with the C stack, which lua_resume asserts     *)
(* (ldo.c:434) and lua_yield relies on (ldo.c:446); every Lua frame is         *)
(* returned from by one luaV_execute (nexeccalls, lvm.c:641); and what has     *)
(* yielded waits in Lua functions alone, whatever was thrown.                  *)
THEOREM AccountsHold ==
  Spec => []Accounts
<1>1. Fits(s) => Accounts
  BY CountsAgree, FramesAreOwned, YieldedInLua DEF Accounts
<1> QED BY <1>1, StatesFit, PTL

(* Calls stay within LUAI_MAXCCALLS and its spare (ldo.c:370), and the frames  *)
(* within their arrays (growCI, ldo.c:169).                                    *)
THEOREM BoundedHolds ==
  Spec => []Bounded
<1>1. Fits(s) => Bounded
  BY StaysBounded
<1> QED BY <1>1, StatesFit, PTL

(* The calls implement the coroutines (LuaCoroutines): what coroutine.status   *)
(* tells (lbaselib.c:490) is one life of each.                                 *)
THEOREM CallsAreCoroutines ==
  Spec => IsCoroutines
<1>1. Fits(s) /\ [Next]_s => [Seen!CNext]_(Seen!cvars)
  BY NextSeen
<1> QED BY <1>1, StatesFit, InitSeen, PTL DEF Spec, IsCoroutines, Seen!CSpec

=============================================================================
