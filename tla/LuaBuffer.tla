------------------------------ MODULE LuaBuffer ------------------------------
(* The buffers of lua/src/lauxlib.c (luaL_Buffer), in which C functions build *)
(* a string: characters in the C stack, what does not fit there as strings on *)
(* the Lua stack.  A character is the number it was added under.              *)
EXTENDS Integers, Sequences, SequencesExt

CONSTANTS
  BufferSize,    \* LUAL_BUFFERSIZE
  Limit,         \* LIMIT
  MaxAdded       \* characters that a run adds
ASSUME BufferAssumption == BufferSize \in Nat \ {0} /\ Limit \in Nat \ {0, 1} /\ MaxAdded \in Nat

VARIABLE buff   \* p: the characters in the buffer; lvl: the strings on the stack; added, and the highest stack

\* luaL_buffinit
BufferInit == buff = [p |-> <<>>, lvl |-> <<>>, added |-> 0, peak |-> 0, pc |-> "open"]

Fresh(n) == [k \in 1 .. n |-> buff.added + k]
High(b) == [b EXCEPT !.peak = IF Len(b.lvl) > @ THEN Len(b.lvl) ELSE @]

\* emptybuffer
EmptyBuffer(b) == IF b.p = <<>> THEN b ELSE High([b EXCEPT !.p = <<>>, !.lvl = Append(@, b.p)])

\* The levels adjuststack concatenates: while the stack is too high, or what is
\* on top is longer than the level under it.
Joins(lvl, toget) ==
  LET top == Len(FlattenSeq(SubSeq(lvl, Len(lvl) - toget + 1, Len(lvl))))
  IN  Len(lvl) - toget + 1 >= Limit \/ top > Len(lvl[Len(lvl) - toget])
MutToGet(lvl) ==   \* without the limit
  CHOOSE n \in 1 .. Len(lvl) :
    /\ \A k \in 1 .. n - 1 : Len(FlattenSeq(SubSeq(lvl, Len(lvl) - k + 1, Len(lvl)))) > Len(lvl[Len(lvl) - k])
    /\ n < Len(lvl) => ~(Len(FlattenSeq(SubSeq(lvl, Len(lvl) - n + 1, Len(lvl)))) > Len(lvl[Len(lvl) - n]))
ToGet(lvl) == CHOOSE n \in 1 .. Len(lvl) : (\A k \in 1 .. n - 1 : Joins(lvl, k)) /\ (n < Len(lvl) => ~Joins(lvl, n))
AdjustStack(b) ==
  IF Len(b.lvl) <= 1 THEN b
  ELSE LET keep == Len(b.lvl) - ToGet(b.lvl)
       IN  [b EXCEPT !.lvl = Append(SubSeq(@, 1, keep), FlattenSeq(SubSeq(@, keep + 1, Len(@))))]

\* luaL_prepbuffer
PrepBuffer(b) == IF b.p = <<>> THEN b ELSE AdjustStack(EmptyBuffer(b))

\* luaL_addchar
AddChar ==
  /\ buff.pc = "open" /\ buff.added < MaxAdded
  /\ LET room == IF Len(buff.p) < BufferSize THEN buff ELSE PrepBuffer(buff)
     IN  buff' = [room EXCEPT !.p = @ \o Fresh(1), !.added = @ + 1]

\* luaL_addvalue of a string of any length: into the buffer where it fits.
AddValue ==
  /\ buff.pc = "open"
  /\ \E n \in 0 .. MaxAdded - buff.added :
       LET fits == n <= BufferSize - Len(buff.p)
           under == High([EmptyBuffer(buff) EXCEPT !.lvl = Append(@, Fresh(n))])
           b == IF fits THEN [buff EXCEPT !.p = @ \o Fresh(n)] ELSE AdjustStack(under)
       IN  buff' = [b EXCEPT !.added = @ + n]

\* luaL_pushresult
PushResult ==
  /\ buff.pc = "open"
  /\ buff' = [EmptyBuffer(buff) EXCEPT !.lvl = <<FlattenSeq(@)>>, !.pc = "done"]

BufferNext == AddChar \/ AddValue \/ PushResult
-----------------------------------------------------------------------------
\* What was added comes out, in order; nothing is written behind the array in the
\* C stack; and a buffer never takes more of the Lua stack than its limit and the
\* value that is being added, which is what lets C functions use one without
\* asking for stack.
Buffered ==
  /\ FlattenSeq(buff.lvl) \o buff.p = [k \in 1 .. buff.added |-> k]
  /\ buff.pc = "done" => Len(buff.lvl) = 1
  /\ Len(buff.p) <= BufferSize
  /\ Len(buff.lvl) < Limit /\ buff.peak <= Limit + 1
=============================================================================
