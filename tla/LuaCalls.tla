------------------------------ MODULE LuaCalls ------------------------------
(* Calls, errors and coroutines of the Lua distribution: lua/src/ldo.c with *)
(* lua_getstack and luaG_errormsg of ldebug.c, the calling half of lapi.c,  *)
(* luaV_execute's CALL, TAILCALL and RETURN, and the coroutines and         *)
(* protected calls of lbaselib.c.  What a Lua function does next is any of  *)
(* these; values and the stack of values are left out (LuaVM has them).     *)
(*                                                                          *)
(* s.cs is the C stack: the activations of luaD_call ("call"),              *)
(* luaV_execute ("exec", with nexeccalls in n), luaD_pcall, lua_resume and  *)
(* luaG_errormsg ("handler"), each for a thread.  A step belongs to the     *)
(* innermost; when that is not luaV_execute, what it called has returned.   *)
(* s.t is each lua_State: its CallInfos ci by function, size_ci, status,    *)
(* nCcalls, baseCcalls, errfunc, and whether the function given to          *)
(* coroutine.create still lies on its stack (fresh).                        *)
EXTENDS Integers, Sequences, FiniteSets, SequencesExt

CONSTANTS Main, Coroutines,
          BasicCI,      \* BASIC_CI_SIZE
          MaxCalls,     \* LUAI_MAXCALLS
          MaxCcalls,    \* LUAI_MAXCCALLS
          Spare,        \* LUAI_MAXCCALLS >> 3
          Programs      \* each program: the functions it calls

VARIABLE s

Thread == Coroutines \cup {Main}

\* Functions are <<"lua">>, and of C <<"yield">>, <<"resume", co>>, <<"wrap", co>>,
\* <<"pcall", f>>, <<"xpcall", f, handler>>; <<"nil">> is a handler that is no function.
None == <<>>
Simple(f) == f[1] \in {"lua", "yield"} \/ (f[1] \in {"resume", "wrap"} /\ f[2] \in Coroutines)
Handler(f) == f = <<"nil">> \/ Simple(f) \/ (f[1] = "pcall" /\ Simple(f[2]))
Function(f) ==
  Simple(f) \/ (f[1] = "pcall" /\ Simple(f[2])) \/ (f[1] = "xpcall" /\ Simple(f[2]) /\ Handler(f[3]))

ASSUME CallsAssumption ==
  /\ Main \notin Coroutines
  /\ {BasicCI, MaxCalls, MaxCcalls, Spare} \subseteq Nat \ {0}
  /\ 2 <= BasicCI /\ BasicCI <= 2 * MaxCalls
  /\ \A may \in Programs : \A f \in may : Function(f)
L(x) == Last(x.cs).th
T(x) == x.t[L(x)]
Set(x, th, r) == [x EXCEPT !.t[th] = r]
Push(x, a) == [x EXCEPT !.cs = Append(@, a)]
Pop(x) == [x EXCEPT !.cs = Front(@)]
Raise(x, what) == [x EXCEPT !.raised = what]

\* preinit_state, stack_init
NewThread == [ci |-> <<"base">>, size |-> BasicCI, status |-> "ok", ncc |-> 0, baseCc |-> 0,
              errfunc |-> None, fresh |-> FALSE, made |-> FALSE]
-----------------------------------------------------------------------------
(* Frames.                                                                  *)

\* inc_ci and growCI, before the new frame is entered.
GrowCI(x) ==
  IF Len(T(x).ci) < T(x).size THEN x
  ELSE IF T(x).size > MaxCalls THEN Raise(x, "errerr")
  ELSE Raise([x EXCEPT !.t[L(x)].size = 2 * @], IF 2 * T(x).size > MaxCalls THEN "error" ELSE "no")

RestoreStackLimit(r) ==
  IF r.size > MaxCalls /\ Len(r.ci) < MaxCalls THEN [r EXCEPT !.size = MaxCalls] ELSE r

PosCall(x) == [x EXCEPT !.t[L(x)].ci = Front(@)]

EnterCI(x, f, then(_)) ==
  LET y == GrowCI(x)
  IN  IF y.raised # "no" THEN y ELSE then([y EXCEPT !.t[L(x)].ci = Append(@, f)])

\* lua_yield
MutLuaYield(x) == Pop([x EXCEPT !.t[L(x)].status = "yield"])   \* across C calls too
LuaYield(x) ==
  IF T(x).ncc > T(x).baseCc THEN Raise(x, "error")
  ELSE LET y == [x EXCEPT !.t[L(x)].status = "yield"]
       IN  IF Last(x.cs).k = "exec" THEN Pop(y) ELSE y
-----------------------------------------------------------------------------
(* Coroutines.                                                              *)

\* costatus, as thread l sees it
CoStatus(x, l, co) ==
  LET r == x.t[co]
  IN  CASE l = co -> "running"
        [] r.status = "yield" /\ l # co -> "suspended"
        [] r.status = "err" /\ l # co -> "dead"
        [] OTHER -> IF Len(r.ci) > 1 THEN "normal" ELSE IF r.fresh THEN "suspended" ELSE "dead"

\* What auxresume's caller makes of an error: false, or luaB_auxwrap's error.
Refuse(x) == IF Last(T(x).ci) = "wrap" THEN Raise(x, "error") ELSE PosCall(x)

\* resume: the start of the function, or the end of the call that yielded.
ResumeBody(x) ==
  LET r == T(x)
      q == IF r.status = "ok" THEN [r EXCEPT !.fresh = FALSE, !.ci = Append(@, "lua")]
           ELSE [r EXCEPT !.status = "ok", !.ci = IF Last(@) = "lua" THEN @ ELSE Front(@)]
  IN  Push(Set(x, L(x), q), [k |-> "exec", th |-> L(x), n |-> Len(q.ci) - 1])

\* lua_setlevel: co counts the C calls of the thread that resumes it, too.
MutSetLevel(x, co) == x.t[co]   \* its own only
SetLevel(x, co) == [x.t[co] EXCEPT !.ncc = T(x).ncc]

\* auxresume and lua_resume
AuxResume(x, co) ==
  LET r == SetLevel(x, co)
  IN  IF CoStatus(x, L(x), co) # "suspended" THEN Refuse(x)
      ELSE IF r.status # "yield" /\ (r.status # "ok" \/ Len(r.ci) > 1) THEN Refuse(Set(x, co, r))
      ELSE IF r.ncc >= MaxCcalls THEN Refuse(Set(x, co, [r EXCEPT !.fresh = FALSE]))
      ELSE ResumeBody(Push(Set(x, co, [r EXCEPT !.ncc = @ + 1, !.baseCc = r.ncc + 1]),
                           [k |-> "resume", th |-> co]))
-----------------------------------------------------------------------------
(* Calls and errors.                                                        *)

\* luaD_call up to the call itself; luaB_pcall and luaD_pcall call it protected.
DCall(x, f, precall(_, _)) ==
  LET y == Push([x EXCEPT !.t[L(x)].ncc = @ + 1], [k |-> "call", th |-> L(x)])
  IN  IF T(y).ncc = MaxCcalls THEN Raise(y, "error")
      ELSE IF T(y).ncc >= MaxCcalls + Spare THEN Raise(y, "errerr")
      ELSE precall(y, f)

PCall(x, ef) ==
  Push([x EXCEPT !.t[L(x)].errfunc = ef],
       [k |-> "pcall", th |-> L(x), ncc |-> T(x).ncc, ci |-> Len(T(x).ci), errfunc |-> T(x).errfunc])

\* luaD_precall: a Lua function is entered, a C function does its work.
EnterLua(x) ==
  EnterCI(x, "lua", LAMBDA y : IF Last(y.cs).k = "exec" THEN [y EXCEPT !.cs[Len(y.cs)].n = @ + 1]
                               ELSE Push(y, [k |-> "exec", th |-> L(y), n |-> 1]))
PrecallSimple(x, f) ==
  IF f[1] = "lua" THEN EnterLua(x)
  ELSE EnterCI(x, f[1], LAMBDA y : IF f[1] = "yield" THEN LuaYield(y) ELSE AuxResume(y, f[2]))
Precall(x, f) ==
  CASE f[1] = "pcall"  -> EnterCI(x, "pcall", LAMBDA y : DCall(PCall(y, None), f[2], PrecallSimple))
    [] f[1] = "xpcall" -> EnterCI(x, "xpcall", LAMBDA y : DCall(PCall(y, f[3]), f[2], PrecallSimple))
    [] OTHER -> PrecallSimple(x, f)

\* luaD_throw: a jump to the innermost luaD_pcall or lua_resume of the thread,
\* or, when it has none, resetstack, the panic function and exit.
Protected(x) == {i \in DOMAIN x.cs : x.cs[i].th = L(x) /\ x.cs[i].k \in {"pcall", "resume"}}
ResetStack(r) ==
  RestoreStackLimit([r EXCEPT !.ci = <<"base">>, !.ncc = r.baseCc, !.errfunc = None])
Return(x) == IF x.cs = <<>> THEN [x EXCEPT !.out = "done"] ELSE PosCall(x)

Caught(x, a) ==
  LET r == [T(x) EXCEPT !.ncc = a.ncc, !.ci = SubSeq(@, 1, a.ci), !.errfunc = a.errfunc]
  IN  Set(x, L(x), RestoreStackLimit(r))

\* What lua_resume does of an error: the thread is marked dead, as it stands.
MutMarkDead(x) == [x EXCEPT !.t[L(x)].ncc = @ - 1]   \* not marked
MarkDead(x) == [x EXCEPT !.t[L(x)].status = "err", !.t[L(x)].ncc = @ - 1]

Throw(x) ==
  IF Protected(x) = {} THEN [Set(x, L(x), ResetStack(T(x))) EXCEPT !.cs = <<>>, !.raised = "no", !.out = "exit"]
  ELSE LET i == CHOOSE i \in Protected(x) : \A j \in Protected(x) : j <= i
           below(y) == [y EXCEPT !.cs = SubSeq(@, 1, i - 1), !.raised = "no"]
       IN  IF x.cs[i].k = "pcall" THEN Return(below(Caught(x, x.cs[i])))
           ELSE Refuse(below(MarkDead(x)))
-----------------------------------------------------------------------------
\* The host calls a chunk, protected (lua_pcall) or not (lua_call).
Init ==
  \E protected \in BOOLEAN, may \in Programs :
    LET x == [t |-> [th \in Thread |-> IF th = Main THEN [NewThread EXCEPT !.made = TRUE] ELSE NewThread],
              cs |-> <<>>, may |-> may, raised |-> "no", out |-> "running"]
        host == [k |-> "pcall", th |-> Main, ncc |-> 0, ci |-> 1, errfunc |-> None]
        call == [k |-> "call", th |-> Main]
        exec == [k |-> "exec", th |-> Main, n |-> 1]
    IN  s = [x EXCEPT !.cs = IF protected THEN <<host, call, exec>> ELSE <<call, exec>>,
                      !.t[Main].ncc = 1, !.t[Main].ci = <<"base", "lua">>]

Innermost(k) == s.out = "running" /\ s.raised = "no" /\ Last(s.cs).k = k
InLua == Innermost("exec") /\ Last(T(s).ci) = "lua"

Names(f, c) == f \in {<<"resume", c>>, <<"wrap", c>>, <<"pcall", <<"resume", c>>>>}
Known == {f \in s.may : \A c \in Coroutines : Names(f, c) => s.t[c].made}

CallLua == InLua /\ <<"lua">> \in s.may /\ s' = EnterLua(s)

\* The frame of the called function takes the place of the caller's.
TailCall == InLua /\ <<"lua">> \in s.may /\ s' = GrowCI(s)

CallC == InLua /\ \E f \in Known \ {<<"lua">>} : s' = Precall(s, f)

\* luaV_execute calls from C: metamethods and the iterators of for.
CallTM == InLua /\ \E f \in Known : s' = DCall(s, f, Precall)

LuaReturn ==
  /\ InLua
  /\ LET x == [PosCall(s) EXCEPT !.cs[Len(s.cs)].n = @ - 1]
     IN  s' = IF Last(x.cs).n = 0 THEN Pop(x) ELSE x

Fail == InLua /\ s' = Raise(s, "error")

\* luaB_cocreate, luaB_cowrap
CoCreate ==
  /\ InLua
  /\ \E c \in Coroutines :
       /\ ~s.t[c].made /\ \E f \in s.may : Names(f, c)
       /\ s' = Set(s, c, [NewThread EXCEPT !.made = TRUE, !.fresh = TRUE])

\* What luaD_call, luaD_pcall and lua_resume do when what they called returns.
CallReturns ==
  /\ Innermost("call")
  /\ LET x == Pop([s EXCEPT !.t[L(s)].ncc = @ - 1]) IN s' = IF x.cs = <<>> THEN Return(x) ELSE x
PCallReturns ==
  Innermost("pcall") /\ s' = Return(Pop([s EXCEPT !.t[L(s)].errfunc = Last(s.cs).errfunc]))
ResumeReturns ==
  Innermost("resume") /\ s' = PosCall(Pop([s EXCEPT !.t[L(s)].ncc = @ - 1]))

\* luaG_errormsg: the handler is called where the error is, then the error is thrown.
ErrorMsg ==
  /\ s.raised = "error"
  /\ s' = IF T(s).errfunc \in {None, <<"nil">>} THEN Throw(s)
          ELSE DCall(Push(Raise(s, "no"), [k |-> "handler", th |-> L(s)]), T(s).errfunc, Precall)
HandlerReturns == Innermost("handler") /\ s' = Throw(s)
ErrorInError == s.raised = "errerr" /\ s' = Throw(s)

Ended == s.out \in {"done", "exit"} /\ UNCHANGED s

Next ==
  \/ CallLua \/ TailCall \/ CallC \/ CallTM \/ LuaReturn \/ Fail \/ CoCreate
  \/ CallReturns \/ PCallReturns \/ ResumeReturns
  \/ ErrorMsg \/ HandlerReturns \/ ErrorInError
  \/ Ended

Spec == Init /\ [][Next]_s
-----------------------------------------------------------------------------
Activations(th, k) == {i \in DOMAIN s.cs : s.cs[i].th = th /\ s.cs[i].k = k}
OnStack(th) == \E i \in DOMAIN s.cs : s.cs[i].th = th

\* The counters agree with the C stack: a thread counts the calls through C
\* since it was resumed and, below them, those of its resumer; lua_resume's
\* assertion that nCcalls is back at baseCcalls follows, and so does that a
\* yield never cuts through a C function.
CallsCounted ==
  /\ \A th \in Thread : OnStack(th) => s.t[th].ncc = s.t[th].baseCc + Cardinality(Activations(th, "call"))
  /\ \A i \in DOMAIN s.cs : s.cs[i].k = "resume" =>
       LET r == s.t[s.cs[i].th] IN r.baseCc = s.t[s.cs[i - 1].th].ncc + 1

\* Each luaV_execute runs the Lua frames it will return from: no Lua frame is
\* returned from twice, or left to nobody, whatever was thrown or yielded.
ExecCalls(th) ==
  LET sum[i \in 0 .. Len(s.cs)] ==
        IF i = 0 THEN 0 ELSE sum[i - 1] + (IF i \in Activations(th, "exec") THEN s.cs[i].n ELSE 0)
  IN  sum[Len(s.cs)]
FramesOwned ==
  \A th \in Thread :
    OnStack(th) /\ s.t[th].status # "yield" =>
      Cardinality({i \in DOMAIN s.t[th].ci : s.t[th].ci[i] = "lua"}) = ExecCalls(th)

\* A coroutine that yielded runs nowhere, and holds nothing but Lua frames below
\* the yield, so that one luaV_execute continues all of them.
SuspendedInLua ==
  \A c \in Coroutines :
    s.t[c].status = "yield" /\ s.t[c].made =>
      /\ s.t[c].errfunc = None /\ Activations(c, "exec") = {} /\ Activations(c, "call") = {}
      /\ \A i \in 2 .. Len(s.t[c].ci) - 1 : s.t[c].ci[i] = "lua"
Accounts == CallsCounted /\ FramesOwned /\ SuspendedInLua

\* However the program recurses, in one thread or through coroutines that resume
\* others, and whatever fails while an error is handled, the calls nested on the
\* C stack stay within LUAI_MAXCCALLS and its spare, and the frames of a thread
\* within the array allocated for them (restore_stack_limit cuts it back).
Bounded ==
  /\ Cardinality({i \in DOMAIN s.cs : s.cs[i].k \in {"call", "resume"}}) <= MaxCcalls + Spare
  /\ \A th \in Thread : Len(s.t[th].ci) <= s.t[th].size /\ s.t[th].size <= 2 * MaxCalls
-----------------------------------------------------------------------------
(* The coroutines a program sees.                                           *)
running == IF s.cs = <<>> THEN Main ELSE L(s)
StateOf(c) == IF s.t[c].made THEN CoStatus(s, running, c) ELSE "none"
ResumerOf(c) == IF Activations(c, "resume") = {} THEN Main
                ELSE s.cs[(CHOOSE i \in Activations(c, "resume") : TRUE) - 1].th
Begun == {c \in Thread : s.t[c].made /\ c # Main /\ ~s.t[c].fresh}

Seen == INSTANCE LuaCoroutines WITH state <- [c \in Thread |-> StateOf(c)],
                                    resumer <- [c \in Thread |-> ResumerOf(c)], begun <- Begun
\* coroutine.status, asked by whoever runs, tells the life of a coroutine: one
\* runs, control passes to suspended ones and back to who resumed them, through
\* yields, ends and errors alike, and the dead stay dead.
IsCoroutines == Seen!CSpec
=============================================================================
