------------------------------- MODULE LuaGC --------------------------------
(* The incremental collector of the Lua distribution (lua/src/lgc.c), with  *)
(* the upvalues of lfunc.c and the shared strings of lstring.c, under a     *)
(* program that allocates, stores, closes upvalues and switches coroutines  *)
(* between any two of its steps.  A table has one entry, a closure one      *)
(* upvalue, a udata its environment; the lists gray, grayagain and weak are *)
(* sets, taken from in any order, and the sweep goes over single objects,   *)
(* as the code's does over forty at a time in a heap of thousands.          *)
EXTENDS Integers, FiniteSets, Sequences

CONSTANTS Tables, Udata, Closures, Upvals, Threads, Strings,
          GcUdata,          \* the udata whose metatable has __gc
          Slots,            \* the stack of a thread: 1 .. number of slots
          Modes,            \* what __mode may say: subsets of {"k", "v"}
          registry, mainthread, None,
          Closes            \* whether lua_close is called

Obj == Tables \cup Udata \cup Closures \cup Upvals \cup Threads \cup Strings
Values == (Obj \ Upvals) \cup {None}

ASSUME ObjAssumption ==
  /\ registry \in Tables /\ mainthread \in Threads /\ GcUdata \subseteq Udata
  /\ None \notin Obj \cup Threads \X Slots
  /\ {} \in Modes /\ \A md \in Modes : md \subseteq {"k", "v"}

\* An object is of one kind (tt), and the memory is finite.
ASSUME KindAssumption ==
  /\ IsFiniteSet(Obj)
  /\ Tables \cap (Udata \cup Closures \cup Upvals \cup Threads \cup Strings) = {}
  /\ Udata \cap (Closures \cup Upvals \cup Threads \cup Strings) = {}
  /\ Closures \cap (Upvals \cup Threads \cup Strings) = {}
  /\ Upvals \cap (Threads \cup Strings) = {} /\ Threads \cap Strings = {}

VARIABLES
  alloc,        \* the objects that exist
  color,        \* "w0", "w1", "gray", "black"
  key, val,     \* key of a table's entry; its value, a udata's environment,
                \* a closure's upvalue, a closed upvalue's value
  mode,         \* the weakness of a table
  stack,        \* the stack of every thread
  open,         \* <<thread, slot>> of an open upvalue, else None
  running,      \* the coroutines that have resumed one another, L the last
  gcstate, currentwhite, gray, grayagain, weak,
  unswept,      \* what the sweep has not met yet
  tmudata,      \* udata to be finalized
  finalized,    \* the FINALIZEDBIT of udata
  called,       \* how often __gc was called for it
  full,         \* luaC_fullgc: "no", "sweep" the old cycle, "mark" a new one
  closing       \* lua_close: "no", "yes", "gctm" in a finalizer it calls, "done"

heap == <<key, val, mode, stack, open, running>>
lists == <<gray, grayagain, weak>>
vars == <<alloc, color, heap, gcstate, currentwhite, lists, unswept, tmudata,
          finalized, called, full, closing>>

L == running[Len(running)]
Other(w) == IF w = "w0" THEN "w1" ELSE "w0"
otherwhite == Other(currentwhite)
White == {"w0", "w1"}
IsDead(o) == color[o] = otherwhite

\* What a thread refers to: its slots and, in the frame of luaB_coresume (or
\* the closure of luaB_auxwrap), the coroutine it waits for.
Resumed(h) == {running[i] : i \in {j \in 2 .. Len(running) : running[j - 1] = h}}
OfThread(h) == {stack[h][s] : s \in Slots} \cup Resumed(h)

\* The value of an upvalue: in the stack while it is open.
UpvalValue(u) == IF open[u] = None THEN val[u] ELSE stack[open[u][1]][open[u][2]]
-----------------------------------------------------------------------------
(* Marking.  A record m carries what marking changes.                       *)

Marks == [color |-> color, key |-> key, gray |-> gray, again |-> grayagain, weak |-> weak]

WhiteOf(m, S) == {o \in S \ {None} : m.color[o] \in White}

\* What a mark on the white objects of S reaches at once: an upvalue passes it
\* to its value and a udata to its environment.
Hit(m, S) ==
  LET one == WhiteOf(m, S)
      two == one \cup WhiteOf(m, {UpvalValue(u) : u \in one \cap Upvals})
  IN  two \cup WhiteOf(m, {val[u] : u \in two \cap Udata})

\* reallymarkobject: udata and closed upvalues become black at once, open
\* upvalues and strings stay gray, the others are listed.
MarkAll(m, S) ==
  LET hit == Hit(m, S)
      color_ == [o \in Obj |-> IF o \notin hit THEN m.color[o]
                              ELSE IF o \in Udata \cup {u \in Upvals : open[u] = None}
                              THEN "black" ELSE "gray"]
  IN  [m EXCEPT !.color = color_, !.gray = @ \cup (hit \cap (Tables \cup Closures \cup Threads))]

\* What propagatemark marks: of a weak table only the half that is not weak, of
\* a table without a value nothing.
Passed(o) ==
  IF o \in Threads THEN OfThread(o)
  ELSE IF o \in Closures \/ val[o] = None THEN {val[o]}
  ELSE (IF "k" \in mode[o] THEN {} ELSE {key[o]}) \cup (IF "v" \in mode[o] THEN {} ELSE {val[o]})

\* An entry without a value lets go of its key.
KeyLeft(m, o) ==
  [t \in Tables |-> IF t = o /\ val[t] = None THEN None ELSE m.key[t]]

\* propagatemark: a weak table stays gray and is listed as weak; a thread stays
\* gray and will be traversed again.
Traverse(m, o) ==
  LET n == [m EXCEPT !.gray = @ \ {o}, !.key = KeyLeft(m, o)]
      left == IF o \in Threads THEN [n EXCEPT !.again = @ \cup {o}]
              ELSE IF o \in Tables /\ mode[o] # {} THEN [n EXCEPT !.weak = @ \cup {o}]
              ELSE [n EXCEPT !.color[o] = "black"]
  IN  MarkAll(left, Passed(o))

\* propagateall
PropagateOne(m) == IF m.gray = {} THEN m ELSE Traverse(m, CHOOSE o \in m.gray : TRUE)
PropagateAll(m) ==
  LET step[n \in 0 .. Cardinality(Obj)] == IF n = 0 THEN m ELSE PropagateOne(step[n - 1])
  IN  step[Cardinality(Obj)]

\* Mutant of Lost: the white of the last cycle is asked for.
MutLost(m) == {u \in (alloc \cap Udata) \ tmudata : m.color[u] = otherwhite /\ u \notin finalized}

\* luaC_separateudata: the unmarked udata not finalized yet.
Lost(m) == {u \in (alloc \cap Udata) \ tmudata : m.color[u] \in White /\ u \notin finalized}

\* marktmu: the udata to be finalized are white again, then marked.
MarkTmu(m, tmu) ==
  MarkAll([m EXCEPT !.color = [o \in Obj |-> IF o \in tmu THEN currentwhite ELSE @[o]]], tmu)

\* Mutant of IsCleared: a finalized udata is kept as a value too.
MutIsCleared(m, o, iskey) == o # None /\ o \notin Strings /\ m.color[o] \in White

\* iscleared, for keys and for values: a finalized udata is kept as a key.
IsCleared(m, o, iskey) ==
  /\ o # None /\ o \notin Strings
  /\ m.color[o] \in White \/ (o \in Udata /\ ~iskey /\ o \in m.finalized)

\* cleartable: the weak tables whose entry goes, by their value or their key.
Cleared(m) ==
  {t \in m.weak : val[t] # None /\ (IsCleared(m, m.key[t], TRUE) \/ IsCleared(m, val[t], FALSE))}
-----------------------------------------------------------------------------
Init ==
  /\ alloc = {registry, mainthread} /\ color = [o \in Obj |-> "w0"]
  /\ key = [t \in Tables |-> None]
  /\ val = [o \in Tables \cup Udata \cup Closures \cup Upvals |-> None]
  /\ mode = [t \in Tables |-> {}]
  /\ stack = [h \in Threads |-> [s \in Slots |-> None]]
  /\ open = [u \in Upvals |-> None] /\ running = <<mainthread>>
  /\ gcstate = "pause" /\ currentwhite = "w0"
  /\ gray = {} /\ grayagain = {} /\ weak = {} /\ unswept = {}
  /\ tmudata = {} /\ finalized = {} /\ called = [u \in GcUdata |-> 0]
  /\ full = "no" /\ closing = "no"

\* The program runs between the collector's steps, in luaC_fullgc only once the
\* finalizers are called.
MutatorRuns == full = "no" /\ closing \in {"no", "gctm"}

CollectorOnly == UNCHANGED <<mode, stack, running, closing>>
MutatorOnly == UNCHANGED <<gcstate, currentwhite, unswept, tmudata, finalized, called, full, closing>>

SetMarks(m) == color' = m.color /\ key' = m.key /\ gray' = m.gray /\ grayagain' = m.again /\ weak' = m.weak

\* markroot
MarkRoot ==
  /\ gcstate = "pause" \/ (gcstate = "finalize" /\ full = "sweep")
  /\ SetMarks(MarkAll([Marks EXCEPT !.gray = {}, !.again = {}, !.weak = {}], {mainthread, registry}))
  /\ gcstate' = "propagate"
  /\ full' = IF full = "no" THEN "no" ELSE "mark"
  /\ UNCHANGED <<alloc, val, open, currentwhite, unswept, tmudata, finalized, called>>
  /\ CollectorOnly

PropagateMark(o) ==
  /\ gcstate = "propagate" /\ o \in gray
  /\ SetMarks(Traverse(Marks, o))
  /\ UNCHANGED <<alloc, val, open, gcstate, currentwhite, unswept, tmudata, finalized, called, full>>
  /\ CollectorOnly

\* Mutant of Flipped: the current white stays.
MutFlipped == currentwhite

Flipped == otherwhite

\* Mutant of RemarkUpvals: it is left out.
MutRemarkUpvals(m) == m

\* remarkupvals: the values of marked open upvalues, whose thread may be dead.
RemarkUpvals(m) ==
  MarkAll(m, {UpvalValue(u) : u \in {w \in alloc \cap Upvals : open[w] # None /\ m.color[w] = "gray"}})

RegrayAgain(m) == [m EXCEPT !.gray = m.again, !.again = {}]

\* atomic: open upvalues of unmarked threads, the weak tables, the running
\* thread and what was touched since are traversed again; white udata with a
\* finalizer are kept for it, with all they reach; weak tables are cleared; and
\* what is still white is dead from here on.
Atomic ==
  LET m1 == PropagateAll(RemarkUpvals(Marks))
      m2 == PropagateAll(MarkAll([m1 EXCEPT !.gray = m1.weak, !.weak = {}], {L}))
      m3 == PropagateAll(RegrayAgain(m2))
      lost == Lost(m3)
      tmu  == tmudata \cup (lost \cap GcUdata)
      m4 == PropagateAll(MarkTmu(m3, tmu))
      cut == Cleared([color |-> m4.color, key |-> m4.key, weak |-> m4.weak, finalized |-> finalized \cup lost])
      strings == {key[t] : t \in m4.weak} \cup {val[t] : t \in m4.weak}
  IN  /\ gcstate = "propagate" /\ gray = {}
      /\ SetMarks([m4 EXCEPT
              !.color = [o \in Obj |-> IF o \in strings \cap Strings THEN "gray" ELSE @[o]],
              !.key = [t \in Tables |-> IF t \in cut THEN None ELSE @[t]]])
      /\ val' = [o \in DOMAIN val |-> IF o \in cut THEN None ELSE val[o]]
      /\ tmudata' = tmu /\ finalized' = finalized \cup lost
      /\ currentwhite' = Flipped
      /\ gcstate' = "sweepstring"
      /\ unswept' = {o \in alloc \ tmu : o \in Upvals => open[o] = None}
      /\ UNCHANGED <<alloc, open, called, full>> /\ CollectorOnly

\* One object of sweeplist: dead ones are freed, the others made white again.
\* A thread first sweeps its open upvalues; freed, it closes those that live.
Sweep(o) ==
  LET ups  == {u \in alloc \cap Upvals : o \in Threads /\ open[u] # None /\ open[u][1] = o}
      free == {p \in ups \cup {o} : IsDead(p)}
      shut == IF o \in free THEN ups \ free ELSE {}
  IN  /\ o \in unswept
      /\ o \in Strings \/ unswept \cap Strings = {}
      /\ gcstate' = IF o \in Strings THEN "sweepstring" ELSE "sweep"
      /\ unswept' = unswept \ {o}
      /\ alloc' = alloc \ free
      /\ color' = [p \in Obj |-> IF p \in free THEN "w0" ELSE IF p \in ups \cup {o} THEN currentwhite
                                 ELSE color[p]]
      /\ val' = [p \in DOMAIN val |-> IF p \in shut THEN UpvalValue(p) ELSE IF p \in free THEN None ELSE val[p]]
      /\ key' = [t \in Tables |-> IF t \in free THEN None ELSE key[t]]
      /\ mode' = [t \in Tables |-> IF t \in free THEN {} ELSE mode[t]]
      /\ stack' = [h \in Threads |-> IF h \in free THEN [s \in Slots |-> None] ELSE stack[h]]
      /\ open' = [u \in Upvals |-> IF u \in shut \cup free THEN None ELSE open[u]]
      /\ finalized' = finalized \ free
      /\ called' = [u \in GcUdata |-> IF u \in free THEN 0 ELSE called[u]]
      /\ UNCHANGED <<running, lists, currentwhite, tmudata, full, closing>>

\* The sweep is over when the list is: finalizers may be called.
SweepEnd ==
  /\ gcstate = "sweep" /\ unswept = {}
  /\ gcstate' = "finalize"
  /\ full' = IF full = "mark" THEN "no" ELSE full
  /\ UNCHANGED <<alloc, color, key, val, open, lists, currentwhite, unswept, tmudata, finalized, called>>
  /\ CollectorOnly

\* GCTM: a udata goes back among the others and its finalizer is called with it.
GCTM(u, s) ==
  /\ u \in tmudata /\ full = "no" /\ (gcstate = "finalize" \/ closing # "no")
  /\ closing' = IF closing = "yes" THEN "gctm" ELSE closing
  /\ tmudata' = tmudata \ {u}
  /\ color' = [color EXCEPT ![u] = currentwhite]
  /\ called' = [called EXCEPT ![u] = @ + 1]
  /\ stack' = [stack EXCEPT ![L][s] = u]
  /\ UNCHANGED <<alloc, key, val, mode, open, running, gcstate, currentwhite, lists, unswept,
                 finalized, full>>

Pause ==
  /\ gcstate = "finalize" /\ tmudata = {} /\ full # "sweep"
  /\ gcstate' = "pause"
  /\ UNCHANGED <<alloc, color, key, val, open, currentwhite, lists, unswept, tmudata, finalized, called, full>>
  /\ CollectorOnly

\* luaC_fullgc: the cycle under way is thrown away, by a sweep that finds
\* nothing dead, and a whole one is run.
FullGC ==
  /\ MutatorRuns
  /\ full' = "sweep"
  /\ IF gcstate \in {"pause", "propagate"}
     THEN /\ gray' = {} /\ grayagain' = {} /\ weak' = {}
          /\ unswept' = {o \in alloc \ tmudata : o \in Upvals => open[o] = None}
          /\ gcstate' = "sweepstring"
     ELSE UNCHANGED <<lists, unswept, gcstate>>
  /\ UNCHANGED <<alloc, color, heap, currentwhite, tmudata, finalized, called, closing>>
-----------------------------------------------------------------------------
(* The program.                                                             *)

OnStack == {stack[L][s] : s \in Slots} \ {None}

\* What one access brings to the stack.
InReach ==
  {registry, L, None}
  \cup {val[u] : u \in OnStack \cap Udata}
  \cup {UpvalValue(val[c]) : c \in OnStack \cap Closures}
  \cup UNION {{key[t], val[t]} : t \in {r \in (OnStack \cap Tables) \cup {registry} : val[r] # None}}

Load(s, o) ==
  /\ MutatorRuns /\ o \in InReach
  /\ stack' = [stack EXCEPT ![L][s] = o]
  /\ UNCHANGED <<alloc, color, key, val, mode, open, running, lists>> /\ MutatorOnly

\* luaC_link, for tables, udata and threads; a udata's environment is the
\* one of the function running, a table on the stack or the registry.
New(s, o) ==
  /\ MutatorRuns /\ o \in (Tables \cup Udata \cup Threads) \ alloc
  /\ alloc' = alloc \cup {o}
  /\ color' = [color EXCEPT ![o] = currentwhite]
  /\ stack' = [stack EXCEPT ![L][s] = o]
  /\ IF o \notin Udata THEN UNCHANGED val
     ELSE \E e \in (OnStack \cap Tables) \cup {registry} : val' = [val EXCEPT ![o] = e]
  /\ UNCHANGED <<key, mode, open, running, lists>> /\ MutatorOnly

\* Mutant of NewString: a dead string is shared as it is.
MutNewString(s, o) ==
  /\ MutatorRuns /\ o \in Strings
  /\ alloc' = alloc \cup {o}
  /\ color' = [color EXCEPT ![o] = IF o \in alloc THEN @ ELSE currentwhite]
  /\ stack' = [stack EXCEPT ![L][s] = o]
  /\ UNCHANGED <<key, val, mode, open, running, lists>> /\ MutatorOnly

\* luaS_newlstr: equal strings are shared, one that is dead comes back to life.
NewString(s, o) ==
  /\ MutatorRuns /\ o \in Strings
  /\ alloc' = alloc \cup {o}
  /\ color' = [color EXCEPT ![o] = IF o \notin alloc \/ IsDead(o) THEN currentwhite ELSE @]
  /\ stack' = [stack EXCEPT ![L][s] = o]
  /\ UNCHANGED <<key, val, mode, open, running, lists>> /\ MutatorOnly

\* OP_CLOSURE over slot t: luaF_findupval takes the open upvalue of the slot,
\* bringing a dead one back to life, or makes one.
NewClosure(s, t, c, u) ==
  LET there == {w \in alloc \cap Upvals : open[w] = <<L, t>>}
  IN  /\ MutatorRuns /\ c \in Closures \ alloc
      /\ IF there = {} THEN u \in Upvals \ alloc ELSE u \in there
      /\ alloc' = alloc \cup {c, u}
      /\ color' = [color EXCEPT ![c] = currentwhite,
                                ![u] = IF u \notin alloc \/ IsDead(u) THEN currentwhite ELSE @]
      /\ open' = [open EXCEPT ![u] = <<L, t>>]
      /\ val' = [val EXCEPT ![c] = u]
      /\ stack' = [stack EXCEPT ![L][s] = c]
      /\ UNCHANGED <<key, mode, running, lists>> /\ MutatorOnly

\* Mutant of BarrierBack: the table's colour is not asked for.
MutBarrierBack(t, S) ==
  IF \E o \in S \ {None} : color[o] \in White
  THEN color' = [color EXCEPT ![t] = "gray"] /\ grayagain' = grayagain \cup {t}
  ELSE UNCHANGED <<color, grayagain>>

\* luaC_barriert: a black table given a white object is traversed again.
BarrierBack(t, S) ==
  IF color[t] = "black" /\ \E o \in S \ {None} : color[o] \in White
  THEN color' = [color EXCEPT ![t] = "gray"] /\ grayagain' = grayagain \cup {t}
  ELSE UNCHANGED <<color, grayagain>>

\* A store into a table; with v = None the entry is emptied.
SetTable(t, k, v) ==
  /\ MutatorRuns /\ t \in (OnStack \cap Tables) \cup {registry}
  /\ k \in OnStack \cup {None} /\ v \in OnStack \cup {None}
  /\ key' = [key EXCEPT ![t] = IF v = None THEN None ELSE k]
  /\ val' = [val EXCEPT ![t] = v]
  /\ BarrierBack(t, {k, v})
  /\ UNCHANGED <<alloc, mode, stack, open, running, gray, weak>> /\ MutatorOnly

\* setmetatable, of which only __mode matters here.
SetMode(t, md) ==
  /\ MutatorRuns /\ t \in OnStack \cap Tables /\ md \in Modes /\ mode[t] # md
  /\ mode' = [mode EXCEPT ![t] = md]
  /\ UNCHANGED <<alloc, color, key, val, stack, open, running, lists>> /\ MutatorOnly

BarrierFails(o, v) == v # None /\ color[o] = "black" /\ color[v] \in White

\* luaC_barrier and luaC_barrierf: while marking the white object is marked,
\* else the black one is made white.  The upvalues and values in m are new.
BarrierF(o, v) ==
  IF ~BarrierFails(o, v) THEN UNCHANGED <<color, gray>>
  ELSE IF gcstate = "propagate"
  THEN LET m == MarkAll(Marks, {v}) IN color' = m.color /\ gray' = m.gray
  ELSE color' = [color EXCEPT ![o] = currentwhite] /\ UNCHANGED gray

\* setfenv of a udata.
SetEnv(u, t) ==
  /\ MutatorRuns /\ u \in OnStack \cap Udata /\ t \in OnStack \cap Tables
  /\ val' = [val EXCEPT ![u] = t]
  /\ BarrierF(u, t)
  /\ UNCHANGED <<alloc, key, mode, stack, open, running, grayagain, weak>> /\ MutatorOnly

\* OP_SETUPVAL, into the stack of a thread or into the closed upvalue.
SetUpval(c, v) ==
  LET u == val[c]
  IN  /\ MutatorRuns /\ c \in OnStack \cap Closures /\ v \in OnStack \cup {None}
      /\ IF open[u] = None THEN val' = [val EXCEPT ![u] = v] /\ UNCHANGED stack
         ELSE stack' = [stack EXCEPT ![open[u][1]][open[u][2]] = v] /\ UNCHANGED val
      /\ BarrierF(u, v)
      /\ UNCHANGED <<alloc, key, mode, open, running, grayagain, weak>> /\ MutatorOnly

\* luaC_linkupval for the upvalues just closed: a gray one turns black, with a
\* barrier, while marking, and is swept afterwards.
LinkUpvals(was) ==
  LET m == IF gcstate = "propagate" THEN MarkAll(Marks, {UpvalValue(u) : u \in was}) ELSE Marks
  IN  [m EXCEPT !.color = [p \in Obj |-> IF p \notin was THEN @[p]
                             ELSE IF gcstate = "propagate" THEN "black" ELSE currentwhite]]

\* luaF_close from slot s on, when a block or a function is left: dead upvalues
\* are freed, the others take their value over.
CloseUpvals(s) ==
  LET ups  == {u \in alloc \cap Upvals : open[u] # None /\ open[u][1] = L /\ open[u][2] >= s}
      dead == {u \in ups : IsDead(u)}
      live == ups \ dead
      m    == LinkUpvals({u \in live : color[u] = "gray"})
  IN  /\ MutatorRuns /\ ups # {}
      /\ alloc' = alloc \ dead
      /\ val' = [p \in DOMAIN val |-> IF p \in live THEN UpvalValue(p) ELSE val[p]]
      /\ open' = [u \in Upvals |-> IF u \in ups THEN None ELSE open[u]]
      /\ color' = m.color /\ gray' = m.gray
      /\ UNCHANGED <<key, mode, stack, running, grayagain, weak>> /\ MutatorOnly

Resume(h) ==
  /\ MutatorRuns /\ h \in OnStack \cap Threads /\ \A i \in DOMAIN running : running[i] # h
  /\ running' = Append(running, h)
  /\ UNCHANGED <<alloc, color, key, val, mode, stack, open, lists>> /\ MutatorOnly

Yield ==
  /\ MutatorRuns /\ Len(running) > 1
  /\ running' = SubSeq(running, 1, Len(running) - 1)
  /\ UNCHANGED <<alloc, color, key, val, mode, stack, open, lists>> /\ MutatorOnly

\* lua_close: all udata not finalized yet are separated, whatever their colour.
CloseState ==
  /\ Closes /\ closing = "no" /\ MutatorRuns /\ running = <<mainthread>>
  /\ \A u \in Upvals : open[u] # None => open[u][1] # mainthread  \* CloseUpvals(1) is done
  /\ stack' = [stack EXCEPT ![mainthread] = [s \in Slots |-> None]]
  /\ closing' = "yes"
  /\ tmudata' = tmudata \cup ((alloc \cap GcUdata) \ finalized)
  /\ finalized' = finalized \cup (alloc \cap Udata)
  /\ unswept' = unswept \ tmudata'
  /\ UNCHANGED <<alloc, color, key, val, mode, open, running, gcstate, currentwhite, lists, called, full>>

\* close_state: once the finalizers have run, luaC_freeall frees everything.
FreeAll ==
  /\ closing \in {"yes", "gctm"} /\ tmudata = {} /\ full = "no"
  /\ closing' = "done" /\ alloc' = {}
  /\ UNCHANGED <<color, heap, gcstate, currentwhite, lists, unswept, tmudata, finalized, called, full>>

SingleStep ==
  /\ closing # "done"
  /\ \/ MarkRoot \/ Atomic \/ SweepEnd \/ Pause
     \/ \E o \in gray : PropagateMark(o)
     \/ \E o \in unswept : Sweep(o)
     \/ \E u \in tmudata, s \in Slots : GCTM(u, s)

Mutate ==
  \/ \E s \in Slots, o \in Values : Load(s, o) \/ New(s, o) \/ NewString(s, o)
  \/ \E s, t \in Slots, c \in Closures, u \in Upvals : NewClosure(s, t, c, u)
  \/ \E t \in Tables : \/ \E k, v \in Values : SetTable(t, k, v)
                       \/ \E md \in Modes : SetMode(t, md)
                       \/ \E u \in Udata : SetEnv(u, t)
  \/ \E c \in Closures, v \in Values : SetUpval(c, v)
  \/ \E s \in Slots : CloseUpvals(s)
  \/ \E h \in Threads : Resume(h)
  \/ Yield \/ FullGC \/ CloseState \/ FreeAll

Next == SingleStep \/ Mutate

Spec == Init /\ [][Next]_vars

FairSpec == Spec /\ []<><<SingleStep>>_vars
-----------------------------------------------------------------------------
(* What the program can come at, whatever the colours say.                  *)

StrongRefs(o) ==
  (IF o \in Tables
   THEN IF val[o] = None THEN {}
        ELSE (IF "k" \in mode[o] THEN {} ELSE {key[o]}) \cup (IF "v" \in mode[o] THEN {} ELSE {val[o]})
   ELSE IF o \in Udata \cup Closures THEN {val[o]}
   ELSE IF o \in Upvals THEN {UpvalValue(o)}
   ELSE IF o \in Threads THEN OfThread(o)
   ELSE {}) \ {None}

WeakRefs(o) == (IF o \in Tables /\ val[o] # None THEN {key[o], val[o]} ELSE {}) \ {None}

Reach(S) ==
  LET grow[T \in SUBSET Obj] ==
        LET more == T \cup UNION {StrongRefs(o) : o \in T} IN IF more = T THEN T ELSE grow[more]
  IN  grow[S]

Roots == {registry, mainthread} \cup {running[i] : i \in DOMAIN running}

\* Every variable is of its kind; only what exists is coloured or listed.
TypeOK ==
  /\ alloc \subseteq Obj /\ color \in [Obj -> {"w0", "w1", "gray", "black"}]
  /\ key \in [Tables -> Values] /\ mode \in [Tables -> Modes]
  /\ val \in [Tables \cup Udata \cup Closures \cup Upvals -> Obj \cup {None}]
  /\ stack \in [Threads -> [Slots -> Values]]
  /\ open \in [Upvals -> (Threads \X Slots) \cup {None}]
  /\ gcstate \in {"pause", "propagate", "sweepstring", "sweep", "finalize"}
  /\ closing = "done" \/ gray \cup grayagain \cup weak \cup unswept \cup tmudata \subseteq alloc
  /\ finalized \subseteq Udata

\* No object the program, a finalizer or a weak table can come at has been
\* freed, and an open upvalue's thread exists: the collector against stores,
\* loads, closing upvalues, resurrected strings and switched coroutines.  From
\* lua_close on it is not so: see TriColor.
NoDangling ==
  closing = "no" =>
    LET r == Reach(Roots \cup tmudata)
    IN  /\ r \subseteq alloc
        /\ \A o \in r : WeakRefs(o) \subseteq alloc
        /\ \A u \in r \cap Upvals : open[u] # None => open[u][1] \in alloc

\* While marking, no black object refers to a white one: "restore invariant"
\* of luaC_barrierf (lgc.c:669).  Udata that wait for their finalizer keep the
\* colour of the cycle before and are excepted.  A finalizer called by lua_close
\* in the middle of a cycle breaks it: its udata is made white (lgc.c:457)
\* whatever refers to it.
TriColor ==
  gcstate = "propagate" =>
    \A o \in alloc \ tmudata : color[o] = "black" => \A p \in StrongRefs(o) : color[p] \notin White

\* gray, grayagain and weak share the one gclist field of an object, so no
\* object is on two of them; and none listed is white or black.
OneList ==
  /\ gray \cap grayagain = {} /\ gray \cap weak = {}
  /\ gcstate = "propagate" => /\ grayagain \cap weak = {}
                              /\ \A o \in gray \cup grayagain \cup weak : color[o] = "gray"

\* The assertions of luaC_barrierf and luaC_barrierback (lgc.c:665, 679): a
\* barrier fires in no other phase than marking and sweeping, because nothing
\* the program can store into is black outside them; but a udata that waits for
\* its finalizer is, and a weak table may still have it as a key.
BarrierPhase ==
  gcstate \in {"pause", "finalize"} =>
    \A o \in Reach(Roots) \ tmudata : color[o] # "black"

Marking == closing = "no" => TriColor /\ OneList /\ BarrierPhase

\* The collector takes nothing from the program: what is strongly reachable
\* stays, and no change of phase costs a table an entry both of whose ends are.
\* Finalized udata as values of weak tables go all the same (iscleared,
\* lgc.c:344); and so may the values only a udata that still waits for its
\* finalizer leads to: it is black since the cycle before, and marktmu comes
\* after luaC_separateudata.
Kept ==
  closing = "no" =>
    LET r == Reach(Roots)
    IN  /\ r \subseteq alloc'
        /\ gcstate' # gcstate /\ r \cap tmudata = {} =>
             \A t \in r \cap Tables :
               val[t] # None /\ WeakRefs(t) \subseteq r /\ val[t] \notin finalized
                 => key'[t] = key[t] /\ val'[t] = val[t]

NothingTaken == [][Kept]_vars

\* A udata about to be finalized is no longer the value of a weak table the
\* program can come at (lgc.c:334): its finalizer sees it first.
Gone ==
  \/ tmudata' \subseteq tmudata \/ closing' # "no"
  \/ \A t \in Reach(Roots) \cap Tables :
       "v" \in mode[t] /\ val[t] \in tmudata' \ tmudata => val'[t] = None

GoneFromValues == [][Gone]_vars

\* __gc is called once for a udata (FINALIZEDBIT) before it is freed; lua_close
\* does not call it for those that are made by the finalizers it calls.
CalledOnce ==
  /\ \A u \in GcUdata : called'[u] <= 1
  /\ \A u \in GcUdata \cap (alloc \ alloc') :
       called[u] = 1 \/ (closing' = "done" /\ u \notin finalized)

FinalizedFirst == [][CalledOnce]_vars

\* Out of reach; but a string behaves as a value and is never removed from a
\* weak table (lgc.c:331), so one that a weak table within reach holds is none.
Garbage(o) ==
  /\ o \in alloc
  /\ LET r == Reach(Roots)
     IN  o \notin r /\ ~ (o \in Strings /\ \E t \in r \cap Tables : o \in WeakRefs(t))

\* Garbage is freed in the end: with the collector taking steps (luaC_checkGC
\* is met by every allocation), an object out of reach does not stay, unless it
\* comes within reach again or is a string that a weak table within reach holds.
GarbageFreed == \A o \in Obj : Garbage(o) ~> ~Garbage(o)
=============================================================================
