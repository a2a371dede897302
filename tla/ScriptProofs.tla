---------------------------- MODULE ScriptProofs -----------------------------
(***************************************************************************)
(* ScriptReader and ScriptCompiler for every file and every length.  The   *)
(* lists of instructions that Script.ConsumeInstructions makes have every  *)
(* line of the file once, in order, in the block it was written in, and an *)
(* object's script is read to its end and not beyond (ReadAsWritten).  The *)
(* methods that Script.CompileInstructions makes of a supported script are *)
(* accepted by the C# compiler (SupportedCompiles), and those of any       *)
(* script that is accepted tell the story as written (FlowAsWritten).      *)
(*                                                                         *)
(* The first part says nothing of the author.  Whatever the file is, each  *)
(* line has one place: not read yet, open as the line a loop or a consumer *)
(* was called for, in a list, taken over, the head of a block, or nowhere  *)
(* if it ended something (Assigned).  A step moves one line from one place *)
(* to another.  That the lines are in order needs that the loops that have *)
(* called each other were called for later and later lines (Nested), and   *)
(* that what each of them has comes before the next call (Ordered).        *)
(*                                                                         *)
(* The second part is about files that are well formed.  The reader counts *)
(* choices and looks one line ahead, the author opens and closes blocks.   *)
(* The two agree because the depth of the next line, counted from the      *)
(* start of the file, is always the depth the innermost loop reads at      *)
(* (Levels), because what may come next is what the text allows there      *)
(* (Expected), and because the blocks of an open menu are among the blocks *)
(* that answer it, of which there are not more than it has lines           *)
(* (OpenMenu): so the count never stops a menu before its last block, and  *)
(* the lookahead does not find another menu's.                             *)
(*                                                                         *)
(* The third part is about a script that was read.  What the compiler      *)
(* needs is kept by the reader (Prepared): what is in a list is there with *)
(* the depth of its block, the lines of a say or a menu are a run, a block *)
(* answers its menu.  Names are an index, and in a block those of menu and *)
(* block, so they differ if menus with blocks are not in blocks (Flat).    *)
(*                                                                         *)
(* The last part compares two ways to go on: from a method to the next one *)
(* of its list and, at its end, through returns (Leads), and in the text,  *)
(* to the first line that is not deeper (Later).  A list's next line is    *)
(* the text's because between a menu and its blocks there is nothing else  *)
(* (Between); a return is where the text goes on behind the block (After), *)
(* by induction over the depth of the block (ReturnsLead).                 *)
(***************************************************************************)
EXTENDS ScriptCompiler, SequenceTheorems, FiniteSetTheorems, WellFoundedInduction, TLAPS

-----------------------------------------------------------------------------
(* Sequences.                                                                  *)

(* All of a sequence but its last element. *)
LEMMA FrontIs ==
  ASSUME NEW S, NEW s \in Seq(S), s # <<>>
  PROVE  /\ Front(s) \in Seq(S) /\ Len(s) \in Nat /\ Len(s) >= 1 /\ Len(Front(s)) = Len(s) - 1
         /\ \A i \in 1 .. Len(s) - 1 : Front(s)[i] = s[i]
         /\ Last(s) = s[Len(s)] /\ Last(s) \in S
<1>1. Len(s) \in Nat /\ Len(s) >= 1
  OBVIOUS
<1>2. \A i \in 1 .. Len(s) - 1 : s[i] \in S
  OBVIOUS
<1> DEFINE n == Len(s) - 1
<1>3. n \in Int /\ 1 \in Int /\ n >= 0 /\ n - 1 + 1 = n
  BY <1>1
<1>4. Front(s) = SubSeq(s, 1, n)
  BY DEF Front
<1>5. \A i \in 1 .. n : s[i] \in S
  BY <1>2
<1> HIDE DEF n
<1>6. /\ SubSeq(s, 1, n) \in Seq(S)
      /\ Len(SubSeq(s, 1, n)) = IF 1 <= n THEN n - 1 + 1 ELSE 0
      /\ \A i \in 1 .. n - 1 + 1 : SubSeq(s, 1, n)[i] = s[1 + i - 1]
  BY <1>3, <1>5, SubSeqProperties
<1>7. Len(SubSeq(s, 1, n)) = n
  BY <1>3, <1>6
<1>8. \A i \in 1 .. n : SubSeq(s, 1, n)[i] = s[i]
  BY <1>3, <1>6
<1>9. Last(s) = s[Len(s)] /\ s[Len(s)] \in S
  BY <1>1 DEF Last
<1> QED BY <1>1, <1>4, <1>6, <1>7, <1>8, <1>9 DEF n

(* One element more at the end. *)
LEMMA AppendIs ==
  ASSUME NEW S, NEW s \in Seq(S), NEW e \in S
  PROVE  /\ Append(s, e) \in Seq(S) /\ Len(s) \in Nat /\ Len(Append(s, e)) = Len(s) + 1
         /\ \A i \in 1 .. Len(s) : Append(s, e)[i] = s[i]
         /\ Append(s, e)[Len(s) + 1] = e
         /\ ToSet(Append(s, e)) = ToSet(s) \cup {e}
<1>1. /\ Append(s, e) \in Seq(S) /\ Len(s) \in Nat /\ Len(Append(s, e)) = Len(s) + 1
      /\ \A i \in 1 .. Len(s) : Append(s, e)[i] = s[i]
      /\ Append(s, e)[Len(s) + 1] = e
  OBVIOUS
<1>2. DOMAIN s = 1 .. Len(s) /\ DOMAIN Append(s, e) = 1 .. Len(s) + 1
  OBVIOUS
<1>3. \A i \in 1 .. Len(s) + 1 : i \in 1 .. Len(s) \/ i = Len(s) + 1
  BY <1>1
<1>4. \A i \in 1 .. Len(s) : i \in 1 .. Len(s) + 1
  BY <1>1
<1>5. Len(s) + 1 \in 1 .. Len(s) + 1
  BY <1>1
<1>6. \A x : x \in ToSet(Append(s, e)) <=> x \in ToSet(s) \cup {e}
  BY <1>1, <1>2, <1>3, <1>4, <1>5, Zenon DEF ToSet
<1> QED BY <1>1, <1>6

(* The last element replaced. *)
LEMMA ReplaceIs ==
  ASSUME NEW S, NEW s \in Seq(S), s # <<>>, NEW e \in S
  PROVE  /\ Append(Front(s), e) \in Seq(S) /\ Len(Append(Front(s), e)) = Len(s)
         /\ \A i \in 1 .. Len(s) - 1 : Append(Front(s), e)[i] = s[i]
         /\ Append(Front(s), e)[Len(s)] = e
<1>1. /\ Front(s) \in Seq(S) /\ Len(s) \in Nat /\ Len(s) >= 1 /\ Len(Front(s)) = Len(s) - 1
      /\ \A i \in 1 .. Len(s) - 1 : Front(s)[i] = s[i]
  BY FrontIs
<1>2. /\ Append(Front(s), e) \in Seq(S) /\ Len(Append(Front(s), e)) = Len(Front(s)) + 1
      /\ \A i \in 1 .. Len(Front(s)) : Append(Front(s), e)[i] = Front(s)[i]
      /\ Append(Front(s), e)[Len(Front(s)) + 1] = e
  BY <1>1, AppendIs
<1> QED BY <1>1, <1>2

(* Growing numbers, and one larger than all of them. *)
Growing(s) == \A k \in 1 .. Len(s) - 1 : s[k] < s[k + 1]

(* They still grow. *)
LEMMA GrowingAppend ==
  ASSUME NEW s \in Seq(Nat), Growing(s), NEW e \in Nat, \A n \in ToSet(s) : n < e
  PROVE  Growing(Append(s, e))
<1>1. /\ Len(s) \in Nat /\ Len(Append(s, e)) = Len(s) + 1
      /\ \A i \in 1 .. Len(s) : Append(s, e)[i] = s[i]
      /\ Append(s, e)[Len(s) + 1] = e
  BY AppendIs
<1>2. \A i \in 1 .. Len(s) : s[i] < e
  BY DEF ToSet
<1>3. ASSUME NEW k \in 1 .. Len(s) PROVE Append(s, e)[k] < Append(s, e)[k + 1]
  <2>1. CASE k = Len(s)
    BY <1>1, <1>2, <2>1
  <2>2. CASE k # Len(s)
    <3>1. k \in 1 .. Len(s) - 1 /\ k + 1 \in 1 .. Len(s)
      BY <1>1, <2>2
    <3> QED BY <1>1, <3>1 DEF Growing
  <2> QED BY <2>1, <2>2
<1>4. (Len(s) + 1) - 1 = Len(s)
  BY <1>1
<1> QED BY <1>1, <1>3, <1>4 DEF Growing

-----------------------------------------------------------------------------
(* The line that is read next, and the loops that are running.                 *)
Lines == 1 .. Len(script)
Here == IF peeked # 0 THEN peeked ELSE pos
IsLoop(f) == f.at \in {"first", "next"}

(* A line is peeked only when it was the last one read, and the script is read *)
(* when the last loop has ended.                                               *)
Standing ==
  /\ peeked # 0 => peeked = pos - 1
  /\ status = "read" => stack = <<>> /\ peeked = 0
  /\ status # "read" => stack # <<>>

(* Loops and consumers alternate, the script's loop is outermost, and each was *)
(* called for a line before this one, the inner ones for later lines.          *)
Nested ==
  \A i \in 1 .. Len(stack) :
    /\ i = 1 => stack[i].of = 0 /\ IsLoop(stack[i])
    /\ i > 1 => stack[i].of # 0 /\ (IsLoop(stack[i]) <=> ~IsLoop(stack[i - 1]))
    /\ i < Len(stack) => IF IsLoop(stack[i]) THEN stack[i].at = "next" ELSE stack[i].at # "say" /\ stack[i].left > 0
    /\ i = Len(stack) /\ stack[i].at = "choice" => stack[i].left <= Here - stack[i].of
    /\ stack[i].of < Here
    /\ \A j \in 1 .. i - 1 : stack[j].of < stack[i].of

(* What frame i has done so far, its list or its blocks, and that it came      *)
(* before the frame above.                                                     *)
Done(i) == IF IsLoop(stack[i]) THEN lists[stack[i].of] ELSE blocks[stack[i].of]
OrderedAt(i) == \A n \in ToSet(Done(i - 1)) : n < stack[i].of

(* Lists and menus have their lines in order, and what is open comes after     *)
(* what its list or its menu has.                                              *)
Ordered ==
  /\ \A b \in Owners : Growing(lists[b])
  /\ \A m \in Lines : Growing(blocks[m])
  /\ \A i \in 2 .. Len(stack) : OrderedAt(i)

(* What was not read has taken nothing over.                                   *)
Untouched == \A n \in Lines : n >= Here => operand[n] = OperandOf(script, n) /\ blocks[n] = <<>>

(* Where a line is: in list b, taken over by m, the head of a block of m, the  *)
(* line an open loop or consumer was called for, not read yet, or nowhere.     *)
Roles ==
  ({"list"} \X (0 .. Len(script))) \cup ({"part", "head"} \X Lines)
    \cup {<<"open", 0>>, <<"ahead", 0>>, <<"none", 0>>}
Open(n) == \E i \in 2 .. Len(stack) : stack[i].of = n
In(n, x) ==
  /\ \A b \in 0 .. Len(script) : n \in Within(b) <=> x = <<"list", b>>
  /\ \A m \in Lines : n \in Taken(m) <=> x = <<"part", m>>
  /\ \A m \in Lines : n \in ToSet(blocks[m]) <=> x = <<"head", m>>
  /\ Open(n) <=> x = <<"open", 0>>
  /\ n >= Here <=> x = <<"ahead", 0>>
  /\ x = <<"none", 0>> => Kind(script, n) \in {"end", "noop"}
Consumes(m) == \E i \in 2 .. Len(stack) : stack[i].of = m /\ ~IsLoop(stack[i])
Assigned(r) ==
  /\ r \in [Lines -> Roles]
  /\ \A n \in Lines : In(n, r[n])
  /\ \A n, m \in Lines : r[n] = <<"part", m>> => Consumes(m) \/ \E b \in 0 .. Len(script) : r[m] = <<"list", b>>

ReaderInv ==
  /\ TypeOK /\ Standing
  /\ status # "thrown" => Nested /\ Ordered /\ Untouched /\ \E r : Assigned(r)

-----------------------------------------------------------------------------
(* The steps.                                                                  *)
Ats == {"first", "next", "say", "choice", "for"}

(* The fields of a frame. *)
LEMMA FrameIs ==
  /\ \A f \in Frames : f.at \in Ats /\ f.of \in 0 .. Len(script) /\ f.left \in 0 .. Len(script)
  /\ \A a \in Ats : \A n, l \in 0 .. Len(script) :
       Frame(a, n, l) \in Frames /\ Frame(a, n, l).at = a /\ Frame(a, n, l).of = n /\ Frame(a, n, l).left = l
<1>1. \A a, n, l : Frame(a, n, l).at = a /\ Frame(a, n, l).of = n /\ Frame(a, n, l).left = l
  BY DEF Frame
<1>0. \A f : f \in Frames <=> \E a \in Ats, n \in 0 .. Len(script), l \in 0 .. Len(script) : f = Frame(a, n, l)
  BY SMT DEF Frames, Ats
<1>2. \A a \in Ats : \A n, l \in 0 .. Len(script) : Frame(a, n, l) \in Frames
  BY <1>0
<1>3. \A f \in Frames : \E a \in Ats : \E n, l \in 0 .. Len(script) : f = Frame(a, n, l)
  BY <1>0
<1>4. ASSUME NEW f \in Frames PROVE f.at \in Ats /\ f.of \in 0 .. Len(script) /\ f.left \in 0 .. Len(script)
  <2>1. PICK a \in Ats, n \in 0 .. Len(script), l \in 0 .. Len(script) : f = Frame(a, n, l)
    BY <1>3
  <2> QED BY <1>1, <2>1
<1> QED BY <1>1, <1>2, <1>4

(* What the stack is in a state of the right type. *)
LEMMA StackIs ==
  ASSUME TypeOK
  PROVE  /\ Len(stack) \in Nat /\ (stack # <<>> => Len(stack) >= 1)
         /\ \A i \in 1 .. Len(stack) :
              stack[i] \in Frames /\ stack[i].at \in Ats /\ stack[i].of \in 0 .. Len(script) /\ stack[i].left \in 0 .. Len(script)
         /\ Len(script) \in Nat /\ script \in Seq([kind : Kinds, arg : Names])
<1>1. stack \in Seq(Frames) /\ script \in Scripts
  BY DEF TypeOK
<1>2. \A i \in 1 .. Len(stack) : stack[i] \in Frames
  BY <1>1
<1>3. Len(stack) \in Nat /\ (stack # <<>> => Len(stack) >= 1)
  BY <1>1
<1>4. script \in Seq([kind : Kinds, arg : Names])
  BY <1>1, ScriptAssumption
<1>5. Len(script) \in Nat
  BY <1>4
<1> QED BY <1>2, <1>3, <1>4, <1>5, FrameIs

(* What a step leaves as it is. *)
Rest == script' = script /\ onlyOneProc' = onlyOneProc
N == Len(stack)

Stopped(c) == status' = "thrown" /\ UNCHANGED <<peeked, stack, lists, operand, blocks>>
Plain(c) ==
  /\ c # 0 /\ IsLoop(stack[N]) /\ ~ShouldStop(c) /\ ~Is(c, {"say"} \cup Menus)
  /\ stack' = Append(Front(stack), Frame("next", stack[N].of, 0))
  /\ lists' = [lists EXCEPT ![stack[N].of] = Append(@, c)]
  /\ peeked' = 0 /\ UNCHANGED <<operand, blocks, status>>
Called(c) ==
  /\ c # 0 /\ IsLoop(stack[N]) /\ ~ShouldStop(c) /\ Is(c, {"say"} \cup Menus)
  /\ stack' = Append(Append(Front(stack), Frame("next", stack[N].of, 0)),
                     Frame(IF Is(c, {"say"}) THEN "say" ELSE "choice", c, 1))
  /\ peeked' = 0 /\ UNCHANGED <<lists, operand, blocks, status>>
Ended(c) ==
  /\ IsLoop(stack[N]) /\ stack[N].of = 0 /\ Stops(c)
  /\ stack' = <<>> /\ status' = "read"
  /\ peeked' = 0 /\ UNCHANGED <<lists, operand, blocks>>
Closed(c) ==
  /\ IsLoop(stack[N]) /\ stack[N].of # 0 /\ Stops(c)
  /\ stack' = Append(Front(Front(stack)), Frame("for", stack[N - 1].of, stack[N - 1].left - 1))
  /\ blocks' = [blocks EXCEPT ![stack[N - 1].of] = Append(@, stack[N].of)]
  /\ peeked' = 0 /\ UNCHANGED <<lists, operand, status>>
Back(c) ==
  /\ \/ stack[N].at = "say" /\ ~Is(c, {"say"})
     \/ stack[N].at = "choice" /\ ~Is(c, Menus) /\ ~(stack[N].left > 0 /\ Is(c, {"for"}))
     \/ stack[N].at = "for" /\ ~(stack[N].left > 0 /\ Is(c, {"for"}))
  /\ peeked' = c
  /\ lists' = [lists EXCEPT ![stack[N - 1].of] = Append(@, stack[N].of)]
  /\ stack' = Front(stack) /\ UNCHANGED <<operand, blocks, status>>
Merged(c) ==
  /\ \/ stack[N].at = "say" /\ Is(c, {"say"})
     \/ stack[N].at = "choice" /\ Is(c, Menus)
  /\ operand' = [operand EXCEPT ![stack[N].of] = @ \o operand[c]]
  /\ stack' = Append(Front(stack), Frame(stack[N].at, stack[N].of,
                                         stack[N].left + IF stack[N].at = "say" THEN 0 ELSE 1))
  /\ peeked' = 0 /\ UNCHANGED <<lists, blocks, status>>
Entered(c) ==
  /\ stack[N].at \in {"choice", "for"} /\ stack[N].left > 0 /\ Is(c, {"for"})
  /\ stack' = Append(stack, Frame("first", c, 0))
  /\ peeked' = 0 /\ UNCHANGED <<lists, operand, blocks, status>>

(* A step is one of these. *)
LEMMA StepIs ==
  ASSUME TypeOK, Standing, Nested, Next, NEW c, c = Current
  PROVE  /\ Rest /\ status = "reading" /\ Advance /\ N \in Nat /\ N >= 1
         /\ \/ Throws(c) /\ Stopped(c)
            \/ ~Throws(c) /\ (Plain(c) \/ Called(c) \/ Ended(c) \/ Closed(c) \/ Back(c) \/ Merged(c) \/ Entered(c))
<1>1. Rest /\ status = "reading" /\ Advance /\ GetNextInstruction(c)
  BY DEF Next, Rest
<1>2. N \in Nat /\ N >= 1 /\ stack # <<>> /\ stack \in Seq(Frames)
  BY <1>1, StackIs DEF Standing, N, TypeOK
<1>3. /\ Top = stack[N] /\ Under = Front(stack) /\ stack[N] \in Frames /\ stack[N].at \in Ats /\ stack[N].left \in Nat
  BY <1>2, StackIs DEF Top, Under, Last, N
<1>4. CASE Throws(c)
  BY <1>1, <1>2, <1>4 DEF GetNextInstruction, Throw, Stopped
<1>5. CASE ~Throws(c)
  <2>1. CASE Added(c)
    <3>1. CASE Is(c, {"say"} \cup Menus)
      <4>1. Called(c)
        BY <1>3, <2>1, <3>1 DEF Added, Called, Stops, IsLoop
      <4> QED BY <1>1, <1>2, <1>5, <4>1
    <3>2. CASE ~Is(c, {"say"} \cup Menus)
      <4>1. Plain(c)
        BY <1>3, <2>1, <3>2 DEF Added, Plain, Stops, IsLoop
      <4> QED BY <1>1, <1>2, <1>5, <4>1
    <3> QED BY <3>1, <3>2
  <2>2. CASE Left(c)
    <3>1. CASE stack[N].of = 0
      <4>1. Ended(c)
        BY <1>3, <2>2, <3>1 DEF Left, Ended, IsLoop
      <4> QED BY <1>1, <1>2, <1>5, <4>1
    <3>2. CASE stack[N].of # 0
      <4>1. N > 1
        BY <1>2, <3>2 DEF Nested, N
      <4>2. /\ Front(stack) \in Seq(Frames) /\ Len(Front(stack)) = N - 1
            /\ \A i \in 1 .. N - 1 : Front(stack)[i] = stack[i]
        BY <1>2, FrontIs DEF N
      <4>3. Last(Under) = stack[N - 1]
        BY <1>2, <1>3, <4>1, <4>2 DEF Last
      <4>4. Closed(c)
        BY <1>3, <2>2, <3>2, <4>3 DEF Left, Closed, IsLoop
      <4> QED BY <1>1, <1>2, <1>5, <4>4
    <3> QED BY <3>1, <3>2
  <2>3. ASSUME ConsumeSay(c) \/ ConsumeMenu(c) PROVE Back(c) \/ Merged(c) \/ Entered(c)
    <3>1. ~IsLoop(stack[N])
      BY <1>3, <2>3 DEF ConsumeSay, ConsumeMenu, IsLoop
    <3>2. N > 1
      BY <1>2, <3>1 DEF Nested, N
    <3>3. /\ Front(stack) \in Seq(Frames) /\ Len(Front(stack)) = N - 1
          /\ \A i \in 1 .. N - 1 : Front(stack)[i] = stack[i]
      BY <1>2, FrontIs DEF N
    <3>4. Last(Under) = stack[N - 1]
      BY <1>2, <1>3, <3>2, <3>3 DEF Last
    <3>5. stack \o <<Frame("first", c, 0)>> = Append(stack, Frame("first", c, 0))
      BY <1>2
    <3>6. CASE ConsumeSay(c)
      <4>1. CASE Is(c, {"say"})
        <5>1. Merge(c, stack[N].left) /\ stack[N].at = "say"
          BY <1>3, <3>6, <4>1 DEF ConsumeSay
        <5>2. stack[N].left + 0 = stack[N].left
          BY <1>3
        <5> QED BY <1>3, <4>1, <5>1, <5>2 DEF Merge, Merged
      <4>2. CASE ~Is(c, {"say"})
        BY <1>3, <3>4, <3>6, <4>2 DEF ConsumeSay, PutBack, Back
      <4> QED BY <4>1, <4>2
    <3>7. CASE stack[N].at = "choice" /\ ConsumeChoice(c)
      <4>1. CASE Is(c, Menus)
        BY <1>3, <3>7, <4>1 DEF ConsumeChoice, Merge, Merged
      <4>2. CASE ~Is(c, Menus) /\ stack[N].left > 0 /\ Is(c, {"for"})
        BY <1>3, <3>5, <3>7, <4>2 DEF ConsumeChoice, ConsumeBlock, Entered
      <4>3. CASE ~Is(c, Menus) /\ ~(stack[N].left > 0 /\ Is(c, {"for"}))
        BY <1>3, <3>4, <3>7, <4>3 DEF ConsumeChoice, ConsumeBlock, PutBack, Back
      <4> QED BY <4>1, <4>2, <4>3
    <3>8. CASE stack[N].at = "for" /\ ConsumeBlock(c)
      <4>1. CASE stack[N].left > 0 /\ Is(c, {"for"})
        BY <1>3, <3>5, <3>8, <4>1 DEF ConsumeBlock, Entered
      <4>2. CASE ~(stack[N].left > 0 /\ Is(c, {"for"}))
        BY <1>3, <3>4, <3>8, <4>2 DEF ConsumeBlock, PutBack, Back
      <4> QED BY <4>1, <4>2
    <3> QED BY <1>3, <2>3, <3>6, <3>7, <3>8 DEF ConsumeMenu
  <2> QED BY <1>1, <1>2, <1>5, <2>1, <2>2, <2>3 DEF GetNextInstruction
<1> QED BY <1>4, <1>5

(* The line that is read, and where the reader is then. *)
LEMMA HereIs ==
  ASSUME TypeOK, Standing, NEW c, c = Current
  PROVE  /\ Here \in 1 .. Len(script) + 1 /\ Len(script) \in Nat /\ (c = 0 <=> Here = Len(script) + 1)
         /\ c # 0 => c = Here /\ c \in Lines
<1>1. pos \in 1 .. Len(script) + 1 /\ peeked \in 0 .. Len(script) /\ Len(script) \in Nat
  BY StackIs DEF TypeOK
<1>2. CASE peeked # 0
  BY <1>1, <1>2 DEF Here, Current, Lines
<1>3. CASE peeked = 0
  BY <1>1, <1>3 DEF Here, Current, Lines
<1> QED BY <1>2, <1>3

(* It is not read again, unless it is put back. *)
LEMMA HereMoves ==
  ASSUME TypeOK, Standing, NEW c, c = Current, Advance, Rest
  PROVE  /\ pos' \in 1 .. Len(script) + 1
         /\ peeked' = 0 /\ c # 0 => Here' = Here + 1
         /\ peeked' = 0 /\ c = 0 => Here' = Here
         /\ peeked' = c => Here' = Here /\ (c # 0 => c = pos' - 1)
<1>1. pos \in 1 .. Len(script) + 1 /\ peeked \in 0 .. Len(script) /\ Len(script) \in Nat
  BY StackIs DEF TypeOK
<1>2. CASE peeked # 0
  <2>1. c = peeked /\ pos' = pos /\ peeked = pos - 1
    BY <1>2 DEF Current, Advance, Standing
  <2> QED BY <1>1, <1>2, <2>1 DEF Here
<1>3. CASE peeked = 0 /\ pos <= Len(script)
  <2>1. c = pos /\ pos' = pos + 1
    BY <1>3 DEF Current, Advance
  <2> QED BY <1>1, <1>3, <2>1 DEF Here
<1>4. CASE peeked = 0 /\ ~(pos <= Len(script))
  <2>1. c = 0 /\ pos' = pos
    BY <1>4 DEF Current, Advance
  <2> QED BY <1>1, <1>4, <2>1 DEF Here
<1> QED BY <1>2, <1>3, <1>4

(* What is given in a step that reads c. *)
Step(c) ==
  /\ TypeOK /\ Standing /\ Nested /\ Rest /\ status = "reading" /\ Advance
  /\ c = Current

(* What the steps have at hand. *)
LEMMA StepHas ==
  ASSUME NEW c, Step(c)
  PROVE  /\ N \in Nat /\ N >= 1 /\ stack \in Seq(Frames) /\ stack # <<>> /\ Len(stack) = N
         /\ \A i \in 1 .. N : /\ stack[i] \in Frames /\ stack[i].at \in Ats /\ stack[i].of \in 0 .. Len(script)
                              /\ stack[i].left \in 0 .. Len(script)
         /\ Here \in 1 .. Len(script) + 1 /\ Len(script) \in Nat /\ (c = 0 <=> Here = Len(script) + 1)
         /\ (c # 0 => c = Here /\ c \in Lines) /\ c \in 0 .. Len(script)
         /\ Frames' = Frames /\ Lines' = Lines /\ Owners = 0 .. Len(script)
         /\ N # 1 => N - 1 \in 1 .. N
<1>1. TypeOK /\ Standing /\ Nested /\ Rest /\ status = "reading" /\ Advance /\ c = Current
  BY DEF Step
<1>2. stack # <<>> /\ stack \in Seq(Frames)
  BY <1>1 DEF Standing, TypeOK
<1>3. Len(stack) \in Nat /\ Len(stack) >= 1
  BY <1>1, <1>2, StackIs
<1>4. \A i \in 1 .. N : /\ stack[i] \in Frames /\ stack[i].at \in Ats /\ stack[i].of \in 0 .. Len(script)
                        /\ stack[i].left \in 0 .. Len(script)
  BY <1>1, StackIs DEF N
<1>5. /\ Here \in 1 .. Len(script) + 1 /\ Len(script) \in Nat /\ (c = 0 <=> Here = Len(script) + 1)
      /\ c # 0 => c = Here /\ c \in Lines
  BY <1>1, HereIs
<1>6. c \in 0 .. Len(script)
  BY <1>5 DEF Lines
<1>7. Frames' = Frames /\ Lines' = Lines
  BY <1>1 DEF Frames, Lines, Rest
<1>8. Owners = 0 .. Len(script)
  BY <1>1 DEF Owners, TypeOK
<1>9. Len(stack) # 1 => Len(stack) - 1 \in 1 .. Len(stack)
  BY <1>3
<1> QED BY <1>2, <1>3, <1>4, <1>5, <1>6, <1>7, <1>8, <1>9 DEF N

-----------------------------------------------------------------------------
(* The types, the place in the file and the loops, step by step.               *)
(* What the stack is after each step. *)
LEMMA PlainStack ==
  ASSUME NEW c, Step(c), Plain(c)
  PROVE  /\ stack' \in Seq(Frames) /\ Len(stack') = N /\ stack' # <<>>
         /\ \A i \in 1 .. N - 1 : stack'[i] = stack[i]
         /\ stack'[N].at = "next" /\ stack'[N].of = stack[N].of /\ stack'[N].left = 0
<1>1. N \in Nat /\ N >= 1 /\ stack \in Seq(Frames) /\ stack # <<>> /\ Len(stack) = N /\ stack[N].of \in 0 .. Len(script) /\ 0 \in 0 .. Len(script)
  BY StepHas
<1> DEFINE f == Frame("next", stack[N].of, 0)
<1>2. f \in Frames /\ f.at = "next" /\ f.of = stack[N].of /\ f.left = 0
  BY <1>1, FrameIs DEF Ats
<1> HIDE DEF f
<1>3. stack' = Append(Front(stack), f)
  BY DEF Plain, f
<1>4. /\ stack' \in Seq(Frames) /\ Len(stack') = N /\ \A i \in 1 .. N - 1 : stack'[i] = stack[i]
      /\ stack'[N] = f
  BY <1>1, <1>2, <1>3, ReplaceIs
<1>5. stack' # <<>>
  BY <1>1, <1>4
<1> QED BY <1>2, <1>4, <1>5

(* A consumer is called. *)
LEMMA CalledStack ==
  ASSUME NEW c, Step(c), Called(c)
  PROVE  /\ stack' \in Seq(Frames) /\ Len(stack') = N + 1 /\ stack' # <<>>
         /\ \A i \in 1 .. N - 1 : stack'[i] = stack[i]
         /\ stack'[N].at = "next" /\ stack'[N].of = stack[N].of /\ stack'[N].left = 0
         /\ stack'[N + 1].at = (IF Is(c, {"say"}) THEN "say" ELSE "choice") /\ stack'[N + 1].of = c /\ stack'[N + 1].left = 1
<1>1. N \in Nat /\ N >= 1 /\ stack \in Seq(Frames) /\ stack # <<>> /\ Len(stack) = N /\ stack[N].of \in 0 .. Len(script) /\ 0 \in 0 .. Len(script)
  BY StepHas
<1>2. c \in 0 .. Len(script) /\ 1 \in 0 .. Len(script)
  <2>1. c \in Lines
    BY StepHas DEF Called
  <2> QED BY <2>1 DEF Lines
<1> DEFINE f == Frame("next", stack[N].of, 0)
           a == IF Is(c, {"say"}) THEN "say" ELSE "choice"
           g == Frame(a, c, 1)
           t == Append(Front(stack), f)
<1>3. f \in Frames /\ f.at = "next" /\ f.of = stack[N].of /\ f.left = 0
  BY <1>1, FrameIs DEF Ats
<1>4. a \in Ats
  BY DEF Ats
<1> HIDE DEF a
<1>5. g \in Frames /\ g.at = a /\ g.of = c /\ g.left = 1
  BY <1>2, <1>4, FrameIs
<1> HIDE DEF f, g
<1>6. stack' = Append(t, g)
  BY DEF Called, f, g, a
<1>7. /\ t \in Seq(Frames) /\ Len(t) = N /\ \A i \in 1 .. N - 1 : t[i] = stack[i]
      /\ t[N] = f
  BY <1>1, <1>3, ReplaceIs
<1> HIDE DEF t
<1>8. /\ stack' \in Seq(Frames) /\ Len(stack') = N + 1 /\ \A i \in 1 .. N : stack'[i] = t[i]
      /\ stack'[N + 1] = g
  BY <1>5, <1>6, <1>7, AppendIs
<1>9. stack' # <<>>
  BY <1>1, <1>8
<1>10. N \in 1 .. N /\ \A i \in 1 .. N - 1 : i \in 1 .. N
  BY <1>1
<1> QED BY <1>3, <1>5, <1>7, <1>8, <1>9, <1>10 DEF a

(* A block ends. *)
LEMMA ClosedStack ==
  ASSUME NEW c, Step(c), Closed(c)
  PROVE  /\ N > 2 /\ stack[N - 1].left > 0
         /\ stack' \in Seq(Frames) /\ Len(stack') = N - 1 /\ stack' # <<>>
         /\ \A i \in 1 .. N - 2 : stack'[i] = stack[i]
         /\ stack'[N - 1].at = "for" /\ stack'[N - 1].of = stack[N - 1].of /\ stack'[N - 1].left = stack[N - 1].left - 1
<1>1. /\ N \in Nat /\ N >= 1 /\ stack \in Seq(Frames) /\ stack # <<>> /\ Len(stack) = N
      /\ N # 1 => N - 1 \in 1 .. N
  BY StepHas
<1>2. N > 1
  BY <1>1 DEF Closed, Step, Nested
<1>3. N - 1 \in 1 .. N /\ N - 1 < N /\ N \in 1 .. N
  BY <1>1, <1>2
<1>4. ~IsLoop(stack[N - 1]) /\ stack[N - 1].left > 0
  BY <1>1, <1>2, <1>3 DEF Closed, Step, Nested
<1>5. N > 2
  <2>1. ASSUME N = 2 PROVE FALSE
    <3>1. IsLoop(stack[1])
      BY <1>1 DEF Step, Nested
    <3> QED BY <1>4, <2>1, <3>1
  <2> QED BY <1>1, <1>2, <2>1
<1>6. /\ stack[N - 1].of \in 0 .. Len(script) /\ stack[N - 1].left \in 0 .. Len(script) /\ Len(script) \in Nat
  BY <1>3, StepHas
<1>7. stack[N - 1].left - 1 \in 0 .. Len(script)
  BY <1>4, <1>6
<1> DEFINE f == Frame("for", stack[N - 1].of, stack[N - 1].left - 1)
           t == Front(stack)
<1>8. f \in Frames /\ f.at = "for" /\ f.of = stack[N - 1].of /\ f.left = stack[N - 1].left - 1
  BY <1>6, <1>7, FrameIs DEF Ats
<1> HIDE DEF f
<1>9. stack' = Append(Front(t), f)
  BY DEF Closed, f
<1>10. t \in Seq(Frames) /\ Len(t) = N - 1 /\ \A i \in 1 .. N - 1 : t[i] = stack[i]
  BY <1>1, FrontIs
<1>11. t # <<>>
  <2>1. Len(t) # 0
    BY <1>1, <1>2, <1>10
  <2> QED BY <2>1
<1> HIDE DEF t
<1>12. /\ stack' \in Seq(Frames) /\ Len(stack') = N - 1 /\ \A i \in 1 .. (N - 1) - 1 : stack'[i] = t[i]
       /\ stack'[N - 1] = f
  BY <1>8, <1>9, <1>10, <1>11, ReplaceIs
<1>13. stack' # <<>>
  <2>1. Len(stack') # 0
    BY <1>1, <1>2, <1>12
  <2> QED BY <2>1
<1>14. \A i \in 1 .. N - 2 : stack'[i] = stack[i]
  BY <1>1, <1>10, <1>12
<1> QED BY <1>4, <1>5, <1>8, <1>12, <1>13, <1>14

(* A consumer is done. *)
LEMMA BackStack ==
  ASSUME NEW c, Step(c), Back(c)
  PROVE  /\ N > 1 /\ IsLoop(stack[N - 1]) /\ stack[N - 1].at = "next" /\ ~IsLoop(stack[N])
         /\ stack' \in Seq(Frames) /\ Len(stack') = N - 1 /\ stack' # <<>>
         /\ \A i \in 1 .. N - 1 : stack'[i] = stack[i]
<1>1. /\ N \in Nat /\ N >= 1 /\ stack \in Seq(Frames) /\ stack # <<>> /\ Len(stack) = N
  BY StepHas
<1>2. ~IsLoop(stack[N])
  BY DEF Back, IsLoop
<1>3. N > 1
  BY <1>1, <1>2 DEF Step, Nested
<1>4. N - 1 \in 1 .. N /\ N - 1 < N /\ N \in 1 .. N
  BY <1>1, <1>3
<1>5. IsLoop(stack[N - 1]) /\ stack[N - 1].at = "next"
  BY <1>1, <1>2, <1>3, <1>4 DEF Step, Nested
<1>6. stack' = Front(stack)
  BY DEF Back
<1>7. stack' \in Seq(Frames) /\ Len(stack') = N - 1 /\ \A i \in 1 .. N - 1 : stack'[i] = stack[i]
  BY <1>1, <1>6, FrontIs
<1>8. stack' # <<>>
  <2>1. Len(stack') # 0
    BY <1>1, <1>3, <1>7
  <2> QED BY <2>1
<1> QED BY <1>2, <1>3, <1>5, <1>7, <1>8

(* A consumer takes a line over. *)
LEMMA MergedStack ==
  ASSUME NEW c, Step(c), Merged(c)
  PROVE  /\ N > 1 /\ ~IsLoop(stack[N]) /\ c \in Lines
         /\ stack' \in Seq(Frames) /\ Len(stack') = N /\ stack' # <<>>
         /\ \A i \in 1 .. N - 1 : stack'[i] = stack[i]
         /\ stack'[N].at = stack[N].at /\ stack'[N].of = stack[N].of
         /\ stack'[N].left = stack[N].left + IF stack[N].at = "say" THEN 0 ELSE 1
<1>1. /\ N \in Nat /\ N >= 1 /\ stack \in Seq(Frames) /\ stack # <<>> /\ Len(stack) = N
      /\ stack[N].at \in Ats /\ stack[N].of \in 0 .. Len(script) /\ stack[N].left \in 0 .. Len(script) /\ Len(script) \in Nat
  BY StepHas
<1>2. ~IsLoop(stack[N])
  BY DEF Merged, IsLoop
<1>3. N > 1
  BY <1>1, <1>2 DEF Step, Nested
<1>4. c \in Lines /\ c = Here
  <2>1. c # 0
    BY DEF Merged, Is
  <2> QED BY <2>1, StepHas
<1>0. N \in 1 .. N /\ stack[N].of # 0
  BY <1>1, <1>3 DEF Step, Nested
<1>5. N \in 1 .. N /\ stack[N].of \in Lines
  BY <1>0, <1>1 DEF Lines
<1> DEFINE l == stack[N].left + IF stack[N].at = "say" THEN 0 ELSE 1
<1>6. l \in 0 .. Len(script)
  <2>1. CASE stack[N].at = "say"
    BY <1>1, <2>1
  <2>2. CASE stack[N].at = "choice"
    <3>1. stack[N].left <= Here - stack[N].of
      BY <1>1, <1>5, <2>2 DEF Step, Nested
    <3>2. Here <= Len(script) /\ Here \in Nat /\ stack[N].of >= 1 /\ stack[N].of \in Nat
      BY <1>4, <1>5 DEF Lines
    <3> QED BY <1>1, <2>2, <3>1, <3>2
  <2> QED BY <2>1, <2>2 DEF Merged
<1> DEFINE f == Frame(stack[N].at, stack[N].of, l)
<1> HIDE DEF l
<1>7. f \in Frames /\ f.at = stack[N].at /\ f.of = stack[N].of /\ f.left = l
  BY <1>1, <1>6, FrameIs
<1> HIDE DEF f
<1>8. stack' = Append(Front(stack), f)
  BY DEF Merged, f, l
<1>9. /\ stack' \in Seq(Frames) /\ Len(stack') = N /\ \A i \in 1 .. N - 1 : stack'[i] = stack[i]
      /\ stack'[N] = f
  BY <1>1, <1>7, <1>8, ReplaceIs
<1>10. stack' # <<>>
  BY <1>1, <1>9
<1> QED BY <1>2, <1>3, <1>4, <1>7, <1>9, <1>10 DEF l

(* A block begins. *)
LEMMA EnteredStack ==
  ASSUME NEW c, Step(c), Entered(c)
  PROVE  /\ N > 1 /\ ~IsLoop(stack[N]) /\ c \in Lines
         /\ stack' \in Seq(Frames) /\ Len(stack') = N + 1 /\ stack' # <<>>
         /\ \A i \in 1 .. N : stack'[i] = stack[i]
         /\ stack'[N + 1].at = "first" /\ stack'[N + 1].of = c /\ stack'[N + 1].left = 0
<1>1. /\ N \in Nat /\ N >= 1 /\ stack \in Seq(Frames) /\ stack # <<>> /\ Len(stack) = N /\ Len(script) \in Nat
      /\ c \in 0 .. Len(script) /\ 0 \in 0 .. Len(script)
  BY StepHas
<1>2. ~IsLoop(stack[N])
  BY DEF Entered, IsLoop
<1>3. N > 1
  BY <1>1, <1>2 DEF Step, Nested
<1>4. c \in Lines
  <2>1. c # 0
    BY DEF Entered, Is
  <2> QED BY <2>1, StepHas
<1> DEFINE f == Frame("first", c, 0)
<1>5. f \in Frames /\ f.at = "first" /\ f.of = c /\ f.left = 0
  BY <1>1, FrameIs DEF Ats
<1> HIDE DEF f
<1>6. stack' = Append(stack, f)
  BY DEF Entered, f
<1>7. /\ stack' \in Seq(Frames) /\ Len(stack') = N + 1 /\ \A i \in 1 .. N : stack'[i] = stack[i]
      /\ stack'[N + 1] = f
  BY <1>1, <1>5, <1>6, AppendIs
<1>8. stack' # <<>>
  BY <1>1, <1>7
<1> QED BY <1>2, <1>3, <1>4, <1>5, <1>7, <1>8

(* The loops alternate after each step. *)
LEMMA PlainNested ==
  ASSUME NEW c, Step(c), Plain(c)
  PROVE  Nested' /\ Here' = Here + 1
<1>1. /\ stack' \in Seq(Frames) /\ Len(stack') = N /\ stack' # <<>>
      /\ \A i \in 1 .. N - 1 : stack'[i] = stack[i]
      /\ stack'[N].at = "next" /\ stack'[N].of = stack[N].of /\ stack'[N].left = 0
  BY PlainStack
<1>2. /\ N \in Nat /\ N >= 1 /\ Len(stack) = N /\ Here \in Nat
      /\ \A i \in 1 .. N : stack[i].of \in Nat
  BY StepHas
<1>3. Here' = Here + 1
  BY HereMoves DEF Step, Plain
<1>4. /\ IsLoop(stack[N]) /\ IsLoop(stack'[N])
  BY <1>1 DEF Plain, IsLoop
<1> SUFFICES ASSUME NEW i \in 1 .. N
             PROVE  /\ i = 1 => stack'[i].of = 0 /\ IsLoop(stack'[i])
                    /\ i > 1 => stack'[i].of # 0 /\ (IsLoop(stack'[i]) <=> ~IsLoop(stack'[i - 1]))
                    /\ i < N => IF IsLoop(stack'[i]) THEN stack'[i].at = "next" ELSE stack'[i].at # "say" /\ stack'[i].left > 0
                    /\ i = N /\ stack'[i].at = "choice" => stack'[i].left <= Here' - stack'[i].of
                    /\ stack'[i].of < Here'
                    /\ \A j \in 1 .. i - 1 : stack'[j].of < stack'[i].of
  BY <1>1, <1>2, <1>3 DEF Nested
<1>5. \A j \in 1 .. N : stack'[j].of = stack[j].of /\ (IsLoop(stack'[j]) <=> IsLoop(stack[j]))
  <2> SUFFICES ASSUME NEW j \in 1 .. N PROVE stack'[j].of = stack[j].of /\ (IsLoop(stack'[j]) <=> IsLoop(stack[j]))
    OBVIOUS
  <2>1. j = N \/ j \in 1 .. N - 1
    BY <1>2
  <2> QED BY <1>1, <1>4, <2>1
<1>6. /\ i = 1 => stack[i].of = 0 /\ IsLoop(stack[i])
      /\ i > 1 => stack[i].of # 0 /\ (IsLoop(stack[i]) <=> ~IsLoop(stack[i - 1]))
      /\ i < N => IF IsLoop(stack[i]) THEN stack[i].at = "next" ELSE stack[i].at # "say" /\ stack[i].left > 0
      /\ stack[i].of < Here
      /\ \A j \in 1 .. i - 1 : stack[j].of < stack[i].of
  BY <1>2 DEF Step, Nested
<1>7. i > 1 => i - 1 \in 1 .. N
  BY <1>2
<1>8. \A j \in 1 .. i - 1 : j \in 1 .. N
  BY <1>2
<1>9. i < N => stack'[i] = stack[i]
  BY <1>1, <1>2
<1>10. i = N => stack'[i].at # "choice"
  BY <1>1
<1>11. stack[i].of < Here + 1
  BY <1>2, <1>6
<1> QED BY <1>3, <1>5, <1>6, <1>7, <1>8, <1>9, <1>10, <1>11

(* What Nested asks of a frame, the others being as they are. *)
NestedAt(i) ==
  /\ i = 1 => stack[i].of = 0 /\ IsLoop(stack[i])
  /\ i > 1 => stack[i].of # 0 /\ (IsLoop(stack[i]) <=> ~IsLoop(stack[i - 1]))
  /\ i < Len(stack) => IF IsLoop(stack[i]) THEN stack[i].at = "next" ELSE stack[i].at # "say" /\ stack[i].left > 0
  /\ i = Len(stack) /\ stack[i].at = "choice" => stack[i].left <= Here - stack[i].of
  /\ stack[i].of < Here
  /\ \A j \in 1 .. i - 1 : stack[j].of < stack[i].of

(* Frames below the innermost two that a step leaves alone are nested as before. *)
LEMMA NestedBelow ==
  ASSUME NEW c, Step(c), Here' \in Nat, Here' >= Here, NEW i \in 1 .. N, i < N, i < Len(stack'),
         \A j \in 1 .. i : stack'[j] = stack[j]
  PROVE  NestedAt(i)'
<1>1. N \in Nat /\ Len(stack) = N /\ Here \in Nat /\ i \in Nat /\ stack[i].of \in Nat
  BY StepHas
<1>2. /\ i = 1 => stack[i].of = 0 /\ IsLoop(stack[i])
      /\ i > 1 => stack[i].of # 0 /\ (IsLoop(stack[i]) <=> ~IsLoop(stack[i - 1]))
      /\ IF IsLoop(stack[i]) THEN stack[i].at = "next" ELSE stack[i].at # "say" /\ stack[i].left > 0
      /\ stack[i].of < Here
      /\ \A j \in 1 .. i - 1 : stack[j].of < stack[i].of
  BY <1>1 DEF Step, Nested
<1>3. i \in 1 .. i /\ (i > 1 => i - 1 \in 1 .. i) /\ \A j \in 1 .. i - 1 : j \in 1 .. i
  BY <1>1
<1>4. stack[i].of < Here'
  BY <1>1, <1>2
<1>5. i # Len(stack')
  BY <1>1
<1> QED BY <1>1, <1>2, <1>3, <1>4, <1>5 DEF NestedAt

(* A consumer was called. *)
LEMMA CalledNested ==
  ASSUME NEW c, Step(c), Called(c)
  PROVE  Nested' /\ Here' = Here + 1
<1>1. /\ stack' \in Seq(Frames) /\ Len(stack') = N + 1 /\ stack' # <<>>
      /\ \A i \in 1 .. N - 1 : stack'[i] = stack[i]
      /\ stack'[N].at = "next" /\ stack'[N].of = stack[N].of /\ stack'[N].left = 0
      /\ stack'[N + 1].at = (IF Is(c, {"say"}) THEN "say" ELSE "choice") /\ stack'[N + 1].of = c /\ stack'[N + 1].left = 1
  BY CalledStack
<1>2. /\ N \in Nat /\ N >= 1 /\ Len(stack) = N /\ Here \in Nat
      /\ \A i \in 1 .. N : stack[i].of \in Nat
  BY StepHas
<1>3. Here' = Here + 1 /\ c = Here
  BY HereMoves, StepHas DEF Step, Called
<1>4. IsLoop(stack[N]) /\ IsLoop(stack'[N]) /\ ~IsLoop(stack'[N + 1])
  BY <1>1 DEF Called, IsLoop
<1>5. ASSUME NEW i \in 1 .. N + 1 PROVE NestedAt(i)'
  <2>1. CASE i < N
    <3>1. i \in 1 .. N /\ i < Len(stack') /\ \A j \in 1 .. i : stack'[j] = stack[j]
      BY <1>1, <1>2, <2>1
    <3>2. Here' \in Nat /\ Here' >= Here
      BY <1>2, <1>3
    <3> QED BY <2>1, <3>1, <3>2, NestedBelow
  <2>2. CASE i = N
    <3>1. /\ N = 1 => stack[N].of = 0
          /\ N > 1 => stack[N].of # 0 /\ ~IsLoop(stack[N - 1])
          /\ stack[N].of < Here
          /\ \A j \in 1 .. N - 1 : stack[j].of < stack[N].of
      BY <1>2, <1>4 DEF Step, Nested
    <3>2. N > 1 => stack'[N - 1] = stack[N - 1]
      BY <1>1, <1>2
    <3>3. stack[N].of < Here' /\ N < Len(stack') /\ N # Len(stack')
      BY <1>1, <1>2, <1>3, <3>1
    <3> QED BY <1>1, <1>4, <2>2, <3>1, <3>2, <3>3 DEF NestedAt
  <2>3. CASE i = N + 1
    <3>1. i > 1 /\ i # 1 /\ i - 1 = N /\ ~(i < Len(stack')) /\ c # 0 /\ c < Here' /\ 1 <= Here' - c
      BY <1>1, <1>2, <1>3, <2>3 DEF Called
    <3>2. \A j \in 1 .. N : stack'[j].of < c
      <4>1. \A j \in 1 .. N : stack[j].of < Here
        BY <1>2 DEF Step, Nested
      <4>2. \A j \in 1 .. N : stack'[j].of = stack[j].of
        <5> SUFFICES ASSUME NEW j \in 1 .. N PROVE stack'[j].of = stack[j].of
          OBVIOUS
        <5>1. j = N \/ j \in 1 .. N - 1
          BY <1>2
        <5> QED BY <1>1, <5>1
      <4> QED BY <1>3, <4>1, <4>2
    <3> QED BY <1>1, <1>4, <2>3, <3>1, <3>2 DEF NestedAt
  <2> QED BY <1>2, <2>1, <2>2, <2>3
<1> QED BY <1>1, <1>3, <1>5 DEF Nested, NestedAt

(* A block ended. *)
LEMMA ClosedNested ==
  ASSUME NEW c, Step(c), Closed(c)
  PROVE  Nested' /\ Here' = Here + (IF c = 0 THEN 0 ELSE 1)
<1>1. /\ N > 2 /\ stack[N - 1].left > 0
      /\ Len(stack') = N - 1
      /\ \A i \in 1 .. N - 2 : stack'[i] = stack[i]
      /\ stack'[N - 1].at = "for" /\ stack'[N - 1].of = stack[N - 1].of
  BY ClosedStack
<1>2. /\ N \in Nat /\ N >= 1 /\ Len(stack) = N /\ Here \in Nat
      /\ \A i \in 1 .. N : stack[i].of \in Nat
      /\ N - 1 \in 1 .. N /\ N \in 1 .. N
  BY <1>1, StepHas
<1>3. Here' = Here + (IF c = 0 THEN 0 ELSE 1)
  BY <1>2, HereMoves DEF Step, Closed
<1>4. ~IsLoop(stack[N - 1]) /\ ~IsLoop(stack'[N - 1])
  BY <1>1, <1>2 DEF Closed, IsLoop, Step, Nested
<1>5. ASSUME NEW i \in 1 .. N - 1 PROVE NestedAt(i)'
  <2>1. CASE i < N - 1
    <3>1. i \in 1 .. N /\ i < N /\ i < Len(stack') /\ \A j \in 1 .. i : stack'[j] = stack[j]
      BY <1>1, <1>2, <2>1
    <3>2. Here' \in Nat /\ Here' >= Here
      BY <1>2, <1>3
    <3> QED BY <3>1, <3>2, NestedBelow
  <2>2. CASE i = N - 1
    <3>1. /\ stack[N - 1].of # 0 /\ IsLoop(stack[(N - 1) - 1])
          /\ stack[N - 1].of < Here
          /\ \A j \in 1 .. (N - 1) - 1 : stack[j].of < stack[N - 1].of
      BY <1>1, <1>2, <1>4 DEF Step, Nested
    <3>2. stack'[(N - 1) - 1] = stack[(N - 1) - 1]
      BY <1>1, <1>2
    <3>3. stack[N - 1].of < Here' /\ ~(N - 1 < Len(stack')) /\ N - 1 > 1 /\ N - 1 # 1
      BY <1>1, <1>2, <1>3, <3>1
    <3>4. \A j \in 1 .. (N - 1) - 1 : stack'[j] = stack[j]
      BY <1>1, <1>2
    <3> QED BY <1>1, <1>4, <2>2, <3>1, <3>2, <3>3, <3>4 DEF NestedAt
  <2> QED BY <1>2, <2>1, <2>2
<1> QED BY <1>1, <1>3, <1>5 DEF Nested, NestedAt

(* A consumer was done. *)
LEMMA BackNested ==
  ASSUME NEW c, Step(c), Back(c)
  PROVE  Nested' /\ Here' = Here
<1>1. /\ N > 1 /\ IsLoop(stack[N - 1]) /\ stack[N - 1].at = "next"
      /\ Len(stack') = N - 1 /\ \A i \in 1 .. N - 1 : stack'[i] = stack[i]
  BY BackStack
<1>2. /\ N \in Nat /\ N >= 1 /\ Len(stack) = N /\ Here \in Nat
      /\ \A i \in 1 .. N : stack[i].of \in Nat
      /\ N - 1 \in 1 .. N /\ N \in 1 .. N
  BY <1>1, StepHas
<1>3. Here' = Here
  BY <1>2, HereMoves DEF Step, Back
<1>5. ASSUME NEW i \in 1 .. N - 1 PROVE NestedAt(i)'
  <2>1. CASE i < N - 1
    <3>1. i \in 1 .. N /\ i < N /\ i < Len(stack') /\ \A j \in 1 .. i : stack'[j] = stack[j]
      BY <1>1, <1>2, <2>1
    <3>2. Here' \in Nat /\ Here' >= Here
      BY <1>2, <1>3
    <3> QED BY <3>1, <3>2, NestedBelow
  <2>2. CASE i = N - 1
    <3>1. /\ N - 1 = 1 => stack[N - 1].of = 0
          /\ N - 1 > 1 => stack[N - 1].of # 0 /\ ~IsLoop(stack[(N - 1) - 1])
          /\ stack[N - 1].of < Here
          /\ \A j \in 1 .. (N - 1) - 1 : stack[j].of < stack[N - 1].of
      BY <1>1, <1>2 DEF Step, Nested
    <3>2. /\ stack'[N - 1] = stack[N - 1] /\ (N - 1 > 1 => stack'[(N - 1) - 1] = stack[(N - 1) - 1])
          /\ \A j \in 1 .. (N - 1) - 1 : stack'[j] = stack[j]
      BY <1>1, <1>2
    <3>3. ~(N - 1 < Len(stack'))
      BY <1>1, <1>2
    <3> QED BY <1>1, <1>3, <2>2, <3>1, <3>2, <3>3 DEF NestedAt
  <2> QED BY <1>2, <2>1, <2>2
<1> QED BY <1>1, <1>3, <1>5 DEF Nested, NestedAt

(* A consumer took a line over. *)
LEMMA MergedNested ==
  ASSUME NEW c, Step(c), Merged(c)
  PROVE  Nested' /\ Here' = Here + 1
<1>1. /\ N > 1 /\ ~IsLoop(stack[N]) /\ c \in Lines
      /\ Len(stack') = N /\ \A i \in 1 .. N - 1 : stack'[i] = stack[i]
      /\ stack'[N].at = stack[N].at /\ stack'[N].of = stack[N].of
      /\ stack'[N].left = stack[N].left + IF stack[N].at = "say" THEN 0 ELSE 1
  BY MergedStack
<1>2. /\ N \in Nat /\ N >= 1 /\ Len(stack) = N /\ Here \in Nat
      /\ \A i \in 1 .. N : stack[i].of \in Nat /\ stack[i].left \in Nat
      /\ N - 1 \in 1 .. N /\ N \in 1 .. N
  BY <1>1, StepHas
<1>3. Here' = Here + 1
  <2>1. c # 0
    BY <1>1 DEF Lines
  <2> QED BY <1>2, <2>1, HereMoves DEF Step, Merged
<1>5. ASSUME NEW i \in 1 .. N PROVE NestedAt(i)'
  <2>1. CASE i < N
    <3>1. i < Len(stack') /\ \A j \in 1 .. i : stack'[j] = stack[j]
      BY <1>1, <1>2, <2>1
    <3>2. Here' \in Nat /\ Here' >= Here
      BY <1>2, <1>3
    <3> QED BY <2>1, <3>1, <3>2, NestedBelow
  <2>2. CASE i = N
    <3>1. /\ stack[N].of # 0 /\ IsLoop(stack[N - 1])
          /\ stack[N].at = "choice" => stack[N].left <= Here - stack[N].of
          /\ stack[N].of < Here
          /\ \A j \in 1 .. N - 1 : stack[j].of < stack[N].of
      BY <1>1, <1>2 DEF Step, Nested
    <3>2. /\ stack'[N - 1] = stack[N - 1] /\ ~IsLoop(stack'[N])
      BY <1>1, <1>2 DEF IsLoop
    <3>3. ~(N < Len(stack')) /\ N # 1 /\ stack[N].of < Here'
      BY <1>1, <1>2, <1>3, <3>1
    <3>4. stack'[N].at = "choice" => stack'[N].left <= Here' - stack'[N].of
      <4> SUFFICES ASSUME stack[N].at = "choice" PROVE stack[N].left + 1 <= (Here + 1) - stack[N].of
        BY <1>1, <1>3
      <4>1. stack[N].left <= Here - stack[N].of
        BY <3>1
      <4> QED BY <1>2, <4>1
    <3> QED BY <1>1, <2>2, <3>1, <3>2, <3>3, <3>4 DEF NestedAt
  <2> QED BY <1>2, <2>1, <2>2
<1> QED BY <1>1, <1>3, <1>5 DEF Nested, NestedAt

(* A block began. *)
LEMMA EnteredNested ==
  ASSUME NEW c, Step(c), Entered(c)
  PROVE  Nested' /\ Here' = Here + 1
<1>1. /\ N > 1 /\ ~IsLoop(stack[N]) /\ c \in Lines
      /\ Len(stack') = N + 1 /\ \A i \in 1 .. N : stack'[i] = stack[i]
      /\ stack'[N + 1].at = "first" /\ stack'[N + 1].of = c /\ stack'[N + 1].left = 0
  BY EnteredStack
<1>2. /\ N \in Nat /\ N >= 1 /\ Len(stack) = N /\ Here \in Nat
      /\ \A i \in 1 .. N : stack[i].of \in Nat /\ stack[i].left \in Nat
      /\ N - 1 \in 1 .. N /\ N \in 1 .. N
  BY <1>1, StepHas
<1>3. Here' = Here + 1 /\ c = Here /\ c # 0
  <2>1. c # 0
    BY <1>1 DEF Lines
  <2>2. c = Here
    BY <2>1, StepHas
  <2> QED BY <1>2, <2>1, <2>2, HereMoves DEF Step, Entered
<1>5. ASSUME NEW i \in 1 .. N + 1 PROVE NestedAt(i)'
  <2>1. CASE i < N
    <3>1. i \in 1 .. N /\ i < Len(stack') /\ \A j \in 1 .. i : stack'[j] = stack[j]
      BY <1>1, <1>2, <2>1
    <3>2. Here' \in Nat /\ Here' >= Here
      BY <1>2, <1>3
    <3> QED BY <2>1, <3>1, <3>2, NestedBelow
  <2>2. CASE i = N
    <3>1. /\ stack[N].of # 0 /\ IsLoop(stack[N - 1])
          /\ stack[N].of < Here
          /\ \A j \in 1 .. N - 1 : stack[j].of < stack[N].of
      BY <1>1, <1>2 DEF Step, Nested
    <3>2. stack'[N] = stack[N] /\ stack'[N - 1] = stack[N - 1] /\ \A j \in 1 .. N - 1 : stack'[j] = stack[j]
      BY <1>1, <1>2
    <3>3. N # Len(stack') /\ N # 1 /\ stack[N].of < Here'
      BY <1>1, <1>2, <1>3, <3>1
    <3>4. stack[N].at # "say" /\ stack[N].left > 0
      BY DEF Entered
    <3> QED BY <1>1, <2>2, <3>1, <3>2, <3>3, <3>4 DEF NestedAt
  <2>3. CASE i = N + 1
    <3>1. i > 1 /\ i # 1 /\ i - 1 = N /\ ~(i < Len(stack')) /\ c < Here'
      BY <1>1, <1>2, <1>3, <2>3
    <3>2. \A j \in 1 .. N : stack'[j].of < c
      <4>1. \A j \in 1 .. N : stack[j].of < Here
        BY <1>2 DEF Step, Nested
      <4> QED BY <1>1, <1>3, <4>1
    <3>3. IsLoop(stack'[N + 1]) /\ stack'[N + 1].at # "choice" /\ stack'[N] = stack[N]
      BY <1>1, <1>2 DEF IsLoop
    <3> QED BY <1>1, <1>3, <2>3, <3>1, <3>2, <3>3 DEF NestedAt
  <2> QED BY <1>2, <2>1, <2>2, <2>3
<1> QED BY <1>1, <1>3, <1>5 DEF Nested, NestedAt

(* A step that is no exception. *)
Reads(c) == Plain(c) \/ Called(c) \/ Ended(c) \/ Closed(c) \/ Back(c) \/ Merged(c) \/ Entered(c)

(* The stack stays a sequence of loops, nested in each other. *)
LEMMA ReadsNested ==
  ASSUME NEW c, Step(c), Reads(c)
  PROVE  /\ stack' \in Seq(Frames) /\ Nested' /\ (stack' = <<>> <=> Ended(c))
         /\ (~Back(c) => peeked' = 0) /\ (Back(c) => peeked' = c) /\ (Ended(c) => status' = "read") /\ (~Ended(c) => status' = status)
<1>1. CASE Ended(c)
  <2>1. stack' = <<>> /\ peeked' = 0 /\ status' = "read"
    BY <1>1 DEF Ended
  <2>2. Nested'
    <3>1. Len(stack') = 0
      BY <2>1
    <3> QED BY <3>1 DEF Nested
  <2>3. ~Back(c)
    BY <1>1 DEF Ended, Back, IsLoop
  <2> QED BY <1>1, <2>1, <2>2, <2>3
<1>2. CASE Plain(c)
  <2>1. ~Back(c)
    BY <1>2 DEF Plain, Back, IsLoop
  <2> QED BY <1>2, <2>1, PlainStack, PlainNested DEF Plain, Ended
<1>3. CASE Called(c)
  <2>1. ~Back(c)
    BY <1>3 DEF Called, Back, IsLoop
  <2> QED BY <1>3, <2>1, CalledStack, CalledNested DEF Called, Ended
<1>4. CASE Closed(c)
  <2>1. ~Back(c)
    BY <1>4 DEF Closed, Back, IsLoop
  <2> QED BY <1>4, <2>1, ClosedStack, ClosedNested DEF Closed, Ended
<1>5. CASE Back(c)
  BY <1>5, BackStack, BackNested DEF Back, Ended
<1>6. CASE Merged(c)
  <2>1. ~Back(c) \/ c = 0
    BY <1>6 DEF Merged, Back, Is
  <2>2. c # 0
    BY <1>6 DEF Merged, Is
  <2> QED BY <1>6, <2>1, <2>2, MergedStack, MergedNested DEF Merged, Ended
<1>7. CASE Entered(c)
  <2>1. ~Back(c)
    BY <1>7 DEF Entered, Back
  <2> QED BY <1>7, <2>1, EnteredStack, EnteredNested DEF Entered, Ended
<1> QED BY <1>1, <1>2, <1>3, <1>4, <1>5, <1>6, <1>7 DEF Reads

(* What the step puts where. *)
LEMMA ListsAre ==
  ASSUME NEW c, Step(c), Reads(c)
  PROVE  /\ lists' \in [0 .. Len(script) -> Seq(1 .. Len(script))]
         /\ Plain(c) => c \in Lines /\ stack[N].of \in 0 .. Len(script) /\ lists' = [lists EXCEPT ![stack[N].of] = Append(@, c)]
         /\ Back(c) => /\ stack[N].of \in Lines /\ stack[N - 1].of \in 0 .. Len(script)
                       /\ lists' = [lists EXCEPT ![stack[N - 1].of] = Append(@, stack[N].of)]
         /\ ~Plain(c) /\ ~Back(c) => lists' = lists
<1>1. lists \in [0 .. Len(script) -> Seq(1 .. Len(script))]
  BY DEF Step, TypeOK
<1>2. CASE Plain(c)
  <2>1. c \in Lines /\ stack[N].of \in 0 .. Len(script)
    BY <1>2, StepHas DEF Plain
  <2>2. lists' = [lists EXCEPT ![stack[N].of] = Append(@, c)]
    BY <1>2 DEF Plain
  <2>3. Append(lists[stack[N].of], c) \in Seq(1 .. Len(script))
    BY <1>1, <2>1 DEF Lines
  <2>4. ~Back(c)
    BY <1>2 DEF Plain, Back, IsLoop
  <2> QED BY <1>1, <1>2, <2>1, <2>2, <2>3, <2>4
<1>3. CASE Back(c)
  <2>1. /\ N \in Nat /\ N \in 1 .. N /\ N > 1 /\ Len(stack) = N /\ N - 1 \in 1 .. N
        /\ stack[N].of \in 0 .. Len(script) /\ stack[N - 1].of \in 0 .. Len(script)
    BY <1>3, StepHas, BackStack
  <2>2. stack[N].of # 0
    BY <2>1 DEF Step, Nested
  <2>3. lists' = [lists EXCEPT ![stack[N - 1].of] = Append(@, stack[N].of)]
    BY <1>3 DEF Back
  <2>4. Append(lists[stack[N - 1].of], stack[N].of) \in Seq(1 .. Len(script)) /\ stack[N].of \in Lines
    <3>1. stack[N].of \in 1 .. Len(script)
      BY <2>1, <2>2
    <3> QED BY <1>1, <2>1, <3>1 DEF Lines
  <2>5. ~Plain(c)
    BY <1>3 DEF Plain, Back, IsLoop
  <2> QED BY <1>1, <1>3, <2>1, <2>3, <2>4, <2>5
<1>4. CASE ~Plain(c) /\ ~Back(c)
  <2>1. lists' = lists
    BY <1>4 DEF Reads, Called, Ended, Closed, Merged, Entered
  <2> QED BY <1>1, <1>4, <2>1
<1> QED BY <1>2, <1>3, <1>4

(* The same of the menus' blocks. *)
LEMMA BlocksAre ==
  ASSUME NEW c, Step(c), Reads(c)
  PROVE  /\ blocks' \in [1 .. Len(script) -> Seq(1 .. Len(script))]
         /\ Closed(c) => /\ stack[N].of \in Lines /\ stack[N - 1].of \in Lines
                         /\ blocks' = [blocks EXCEPT ![stack[N - 1].of] = Append(@, stack[N].of)]
         /\ ~Closed(c) => blocks' = blocks
<1>1. blocks \in [1 .. Len(script) -> Seq(1 .. Len(script))]
  BY DEF Step, TypeOK
<1>2. CASE Closed(c)
  <2>1. /\ N \in Nat /\ N \in 1 .. N /\ N > 2 /\ Len(stack) = N /\ N - 1 \in 1 .. N /\ N - 1 > 1
        /\ stack[N].of \in 0 .. Len(script) /\ stack[N - 1].of \in 0 .. Len(script)
    BY <1>2, StepHas, ClosedStack
  <2>2. stack[N].of # 0 /\ stack[N - 1].of # 0
    BY <2>1 DEF Step, Nested
  <2>3. blocks' = [blocks EXCEPT ![stack[N - 1].of] = Append(@, stack[N].of)]
    BY <1>2 DEF Closed
  <2>4. stack[N].of \in 1 .. Len(script) /\ stack[N - 1].of \in 1 .. Len(script)
    BY <2>1, <2>2
  <2>5. Append(blocks[stack[N - 1].of], stack[N].of) \in Seq(1 .. Len(script))
    BY <1>1, <2>4
  <2> QED BY <1>1, <1>2, <2>3, <2>4, <2>5 DEF Lines
<1>3. CASE ~Closed(c)
  <2>1. blocks' = blocks
    BY <1>3 DEF Reads, Plain, Called, Ended, Back, Merged, Entered
  <2> QED BY <1>1, <1>3, <2>1
<1> QED BY <1>2, <1>3

(* ... and of the operands. *)
LEMMA OperandsAre ==
  ASSUME NEW c, Step(c), Reads(c)
  PROVE  /\ operand' \in [1 .. Len(script) -> Seq([what : {"name", "text"}, line : 1 .. Len(script)])]
         /\ Merged(c) => /\ stack[N].of \in Lines /\ c \in Lines
                         /\ operand' = [operand EXCEPT ![stack[N].of] = @ \o operand[c]]
         /\ ~Merged(c) => operand' = operand
<1>1. operand \in [1 .. Len(script) -> Seq([what : {"name", "text"}, line : 1 .. Len(script)])]
  BY DEF Step, TypeOK
<1>2. CASE Merged(c)
  <2>1. /\ N \in Nat /\ N \in 1 .. N /\ N > 1 /\ Len(stack) = N /\ stack[N].of \in 0 .. Len(script) /\ c \in Lines
    BY <1>2, StepHas, MergedStack
  <2>2. stack[N].of # 0
    BY <2>1 DEF Step, Nested
  <2>3. operand' = [operand EXCEPT ![stack[N].of] = @ \o operand[c]]
    BY <1>2 DEF Merged
  <2>4. stack[N].of \in 1 .. Len(script) /\ c \in 1 .. Len(script)
    BY <2>1, <2>2 DEF Lines
  <2>5. operand[stack[N].of] \o operand[c] \in Seq([what : {"name", "text"}, line : 1 .. Len(script)])
    BY <1>1, <2>4, ConcatProperties
  <2> QED BY <1>1, <1>2, <2>3, <2>4, <2>5 DEF Lines
<1>3. CASE ~Merged(c)
  <2>1. operand' = operand
    BY <1>3 DEF Reads, Plain, Called, Ended, Back, Closed, Entered
  <2> QED BY <1>1, <1>3, <2>1
<1> QED BY <1>2, <1>3

(* The types and the place in the file. *)
LEMMA ReadsShaped ==
  ASSUME NEW c, Step(c), Reads(c)
  PROVE  TypeOK' /\ Standing' /\ Nested'
<1>1. TypeOK /\ Standing /\ Rest /\ status = "reading" /\ Advance /\ c = Current
  BY DEF Step
<1>2. /\ stack' \in Seq(Frames) /\ Nested' /\ (stack' = <<>> <=> Ended(c))
      /\ (~Back(c) => peeked' = 0) /\ (Back(c) => peeked' = c) /\ (Ended(c) => status' = "read") /\ (~Ended(c) => status' = status)
  BY ReadsNested
<1>3. Frames' = Frames /\ c \in 0 .. Len(script) /\ 0 \in 0 .. Len(script)
  BY StepHas
<1>4. pos' \in 1 .. Len(script) + 1 /\ (peeked' = c /\ c # 0 => c = pos' - 1)
  BY <1>1, HereMoves
<1>5. TypeOK'
  BY <1>1, <1>2, <1>3, <1>4, ListsAre, BlocksAre, OperandsAre DEF TypeOK, Rest
<1>6. Ended(c) => ~Back(c)
  BY DEF Ended, Back, IsLoop
<1>7. Standing'
  BY <1>1, <1>2, <1>4, <1>6 DEF Standing
<1> QED BY <1>2, <1>5, <1>7

(* An exception leaves the reader where it is. *)
LEMMA StoppedShaped ==
  ASSUME NEW c, Step(c), Throws(c), Stopped(c)
  PROVE  TypeOK' /\ Standing' /\ status' = "thrown" /\ lists' = lists
<1>1. TypeOK /\ Standing /\ Rest /\ status = "reading" /\ Advance /\ c = Current
  BY DEF Step
<1>2. Frames' = Frames /\ stack # <<>>
  BY StepHas
<1>3. pos' \in 1 .. Len(script) + 1
  BY <1>1, HereMoves
<1>4. peeked = 0
  BY <1>1 DEF Throws, Current
<1>5. TypeOK'
  BY <1>1, <1>2, <1>3 DEF TypeOK, Rest, Stopped
<1>6. Standing'
  BY <1>2, <1>4 DEF Standing, Stopped
<1> QED BY <1>5, <1>6 DEF Stopped

-----------------------------------------------------------------------------
(* The order of the lines.                                                     *)

(* What is in a list or heads a block was read before. *)
Behind ==
  /\ \A b \in 0 .. Len(script) : \A n \in Within(b) : n < Here
  /\ \A m \in Lines : \A n \in ToSet(blocks[m]) : n < Here

(* Lines that have a place were read. *)
LEMMA BehindIs ==
  ASSUME NEW r, Assigned(r), TypeOK
  PROVE  Behind
<1>1. ASSUME NEW b \in 0 .. Len(script), NEW n \in Within(b) PROVE n < Here
  <2>1. n \in Lines /\ Here \in Int
    <3>1. lists[b] \in Seq(1 .. Len(script))
      BY DEF TypeOK
    <3>2. n \in 1 .. Len(script)
      BY <3>1 DEF Within, ToSet
    <3>3. Here \in Int
      BY StackIs DEF TypeOK, Here
    <3> QED BY <3>2, <3>3 DEF Lines
  <2>2. r[n] = <<"list", b>>
    BY <2>1 DEF Assigned, In
  <2>3. r[n] # <<"ahead", 0>>
    BY <2>2
  <2>4. ~(n >= Here)
    BY <2>1, <2>3 DEF Assigned, In
  <2> QED BY <2>1, <2>4 DEF Lines
<1>2. ASSUME NEW m \in Lines, NEW n \in ToSet(blocks[m]) PROVE n < Here
  <2>1. n \in Lines /\ Here \in Int
    <3>1. blocks[m] \in Seq(1 .. Len(script))
      BY DEF TypeOK, Lines
    <3>2. n \in 1 .. Len(script)
      BY <3>1 DEF ToSet
    <3>3. Here \in Int
      BY StackIs DEF TypeOK, Here
    <3> QED BY <3>2, <3>3 DEF Lines
  <2>2. r[n] = <<"head", m>>
    BY <2>1 DEF Assigned, In
  <2>3. r[n] # <<"ahead", 0>>
    BY <2>2
  <2>4. ~(n >= Here)
    BY <2>1, <2>3 DEF Assigned, In
  <2> QED BY <2>1, <2>4 DEF Lines
<1> QED BY <1>1, <1>2 DEF Behind

(* The lines that loops were called for are in order. *)
LEMMA CallsGrow ==
  ASSUME NEW c, Step(c)
  PROVE  \A i, j \in 1 .. N : i < j => stack[i].of < stack[j].of /\ stack[i].of # stack[j].of
<1>1. N \in Nat /\ Len(stack) = N /\ \A i \in 1 .. N : stack[i].of \in Nat
  BY StepHas
<1> SUFFICES ASSUME NEW i \in 1 .. N, NEW j \in 1 .. N, i < j
             PROVE  stack[i].of < stack[j].of /\ stack[i].of # stack[j].of
  OBVIOUS
<1>2. i \in 1 .. j - 1
  BY <1>1
<1>3. stack[i].of < stack[j].of
  BY <1>1, <1>2 DEF Step, Nested
<1> QED BY <1>1, <1>3

(* An instruction that is added comes after the others. *)
LEMMA PlainOrdered ==
  ASSUME NEW c, Step(c), Plain(c), Ordered, Behind
  PROVE  Ordered'
<1>1. /\ Len(stack') = N /\ \A i \in 1 .. N - 1 : stack'[i] = stack[i]
      /\ stack'[N].of = stack[N].of
  BY PlainStack
<1>2. N \in Nat /\ N >= 1 /\ Len(stack) = N /\ N \in 1 .. N /\ c = Here /\ c \in Lines
  BY StepHas DEF Plain
<1>3. c \in Lines /\ stack[N].of \in 0 .. Len(script) /\ lists' = [lists EXCEPT ![stack[N].of] = Append(@, c)]
  BY ListsAre DEF Reads
<1>4. blocks' = blocks /\ Lines' = Lines
  BY StepHas DEF Plain
<1>5. lists \in [0 .. Len(script) -> Seq(1 .. Len(script))]
  BY DEF Step, TypeOK
<1>6. Growing(Append(lists[stack[N].of], c))
  <2>1. lists[stack[N].of] \in Seq(Nat) /\ c \in Nat
    <3>1. lists[stack[N].of] \in Seq(1 .. Len(script))
      BY <1>3, <1>5
    <3>2. 1 .. Len(script) \subseteq Nat /\ c \in Nat
      BY <1>3 DEF Lines
    <3> QED BY <3>1, <3>2
  <2>2. Growing(lists[stack[N].of])
    BY <1>3, <1>5 DEF Ordered, Owners
  <2>3. \A n \in ToSet(lists[stack[N].of]) : n < c
    BY <1>2, <1>3 DEF Behind, Within
  <2> QED BY <2>1, <2>2, <2>3, GrowingAppend
<1>7. \A b \in DOMAIN lists' : Growing(lists'[b])
  BY <1>3, <1>5, <1>6 DEF Ordered, Owners
<1>8. ASSUME NEW i \in 2 .. Len(stack') PROVE OrderedAt(i)'
  <2>1. i \in 2 .. Len(stack) /\ i - 1 \in 1 .. N - 1 /\ i - 1 \in 1 .. N /\ i - 1 < N /\ i \in 1 .. N
    BY <1>1, <1>2
  <2>2. stack'[i].of = stack[i].of
    <3>1. i \in 1 .. N - 1 \/ i = N
      BY <1>2, <2>1
    <3> QED BY <1>1, <3>1
  <2>3. stack'[i - 1] = stack[i - 1] /\ stack[i - 1].of # stack[N].of
    BY <1>1, <1>2, <2>1, CallsGrow
  <2>4. stack[i - 1].of \in 0 .. Len(script)
    BY <2>1, StepHas
  <2>5. Done(i - 1)' = Done(i - 1)
    BY <1>3, <1>4, <1>5, <2>3, <2>4 DEF Done
  <2>6. OrderedAt(i)
    BY <2>1 DEF Ordered
  <2> QED BY <2>2, <2>5, <2>6 DEF OrderedAt
<1>9. \A m \in Lines : Growing(blocks[m])
  BY DEF Ordered
<1>10. /\ \A b \in DOMAIN lists' : Growing(lists'[b])
       /\ \A m \in Lines' : Growing(blocks'[m])
       /\ \A i \in 2 .. Len(stack') : OrderedAt(i)'
  BY <1>4, <1>7, <1>8, <1>9
<1> QED BY <1>10 DEF Ordered, Owners

(* What a frame has done does not change where its list and its blocks do not. *)
LEMMA DoneIs ==
  ASSUME NEW c, Step(c), NEW i \in 1 .. N, i \in 1 .. Len(stack'), stack'[i].of = stack[i].of, IsLoop(stack'[i]) <=> IsLoop(stack[i]),
         IsLoop(stack[i]) => lists'[stack[i].of] = lists[stack[i].of],
         ~IsLoop(stack[i]) => blocks'[stack[i].of] = blocks[stack[i].of]
  PROVE  Done(i)' = Done(i)
BY DEF Done

(* A consumer is called for a later line than all that were added. *)
LEMMA CalledOrdered ==
  ASSUME NEW c, Step(c), Called(c), Ordered, Behind
  PROVE  Ordered'
<1>1. /\ Len(stack') = N + 1 /\ \A i \in 1 .. N - 1 : stack'[i] = stack[i]
      /\ stack'[N].of = stack[N].of /\ stack'[N].at = "next" /\ stack'[N + 1].of = c
  BY CalledStack
<1>2. N \in Nat /\ N >= 1 /\ Len(stack) = N /\ N \in 1 .. N /\ c = Here /\ c \in Lines /\ IsLoop(stack[N]) /\ IsLoop(stack'[N])
  BY <1>1, StepHas DEF Called, IsLoop
<1>3. lists' = lists /\ blocks' = blocks /\ Lines' = Lines
  BY StepHas DEF Called
<1>4. ASSUME NEW i \in 2 .. N PROVE OrderedAt(i)'
  <2>1. i - 1 \in 1 .. N - 1 /\ i - 1 \in 1 .. N /\ (i \in 1 .. N - 1 \/ i = N) /\ i - 1 \in 1 .. N + 1
    BY <1>2
  <2>2. stack'[i].of = stack[i].of /\ stack'[i - 1] = stack[i - 1]
    BY <1>1, <2>1
  <2>3. Done(i - 1)' = Done(i - 1)
    BY <1>3, <2>2 DEF Done
  <2>4. OrderedAt(i)
    BY <1>2 DEF Ordered
  <2> QED BY <2>2, <2>3, <2>4 DEF OrderedAt
<1>5. ASSUME NEW i, i = N + 1 PROVE OrderedAt(i)'
  <2>1. i - 1 = N /\ stack[N].of \in 0 .. Len(script)
    BY <1>2, <1>5, StepHas
  <2>2. \A n \in ToSet(lists[stack[N].of]) : n < c
    BY <1>2, <2>1 DEF Behind, Within
  <2>3. Done(i - 1)' = lists[stack[N].of]
    BY <1>1, <1>2, <1>3, <2>1 DEF Done
  <2>4. stack'[i].of = c
    BY <1>1, <1>5
  <2> QED BY <2>2, <2>3, <2>4 DEF OrderedAt
<1>6. \A i \in 2 .. Len(stack') : i \in 2 .. N \/ i = N + 1
  BY <1>1, <1>2
<1> QED BY <1>3, <1>4, <1>5, <1>6 DEF Ordered, Owners

(* A block is begun on a later line than the menu's others. *)
LEMMA EnteredOrdered ==
  ASSUME NEW c, Step(c), Entered(c), Ordered, Behind
  PROVE  Ordered'
<1>1. /\ Len(stack') = N + 1 /\ \A i \in 1 .. N : stack'[i] = stack[i]
      /\ stack'[N + 1].of = c /\ ~IsLoop(stack[N]) /\ N > 1 /\ c \in Lines
  BY EnteredStack
<1>2. N \in Nat /\ N >= 1 /\ Len(stack) = N /\ N \in 1 .. N
  BY StepHas
<1>3. lists' = lists /\ blocks' = blocks /\ Lines' = Lines
  BY StepHas DEF Entered
<1>4. ASSUME NEW i \in 2 .. N PROVE OrderedAt(i)'
  <2>1. i - 1 \in 1 .. N /\ i \in 1 .. N
    BY <1>2
  <2>2. stack'[i] = stack[i] /\ stack'[i - 1] = stack[i - 1]
    BY <1>1, <2>1
  <2>3. Done(i - 1)' = Done(i - 1)
    BY <1>3, <2>2 DEF Done
  <2>4. OrderedAt(i)
    BY <1>2 DEF Ordered
  <2> QED BY <2>2, <2>3, <2>4 DEF OrderedAt
<1>5. ASSUME NEW i, i = N + 1 PROVE OrderedAt(i)'
  <2>0. i - 1 = N
    BY <1>2, <1>5
  <2>1. Done(i - 1)' = blocks[stack[N].of]
    BY <1>1, <1>2, <1>3, <2>0 DEF Done
  <2>2. stack[N].of \in Lines
    <3>1. stack[N].of # 0
      BY <1>1, <1>2 DEF Step, Nested
    <3> QED BY <1>2, <3>1, StepHas DEF Lines
  <2>3. c = Here
    <3>1. c # 0
      BY <1>1 DEF Lines
    <3> QED BY <3>1, StepHas
  <2>4. \A n \in ToSet(blocks[stack[N].of]) : n < c
    BY <2>2, <2>3 DEF Behind
  <2>5. stack'[i].of = c
    BY <1>1, <1>5
  <2> QED BY <2>1, <2>4, <2>5 DEF OrderedAt
<1>6. \A i \in 2 .. Len(stack') : i \in 2 .. N \/ i = N + 1
  BY <1>1, <1>2
<1> QED BY <1>3, <1>4, <1>5, <1>6 DEF Ordered, Owners

(* A block that has ended comes after the menu's others. *)
LEMMA ClosedOrdered ==
  ASSUME NEW c, Step(c), Closed(c), Ordered
  PROVE  Ordered'
<1>1. /\ N > 2 /\ Len(stack') = N - 1 /\ \A i \in 1 .. N - 2 : stack'[i] = stack[i]
      /\ stack'[N - 1].of = stack[N - 1].of
  BY ClosedStack
<1>2. N \in Nat /\ N >= 1 /\ Len(stack) = N /\ N \in 1 .. N /\ N - 1 \in 1 .. N
  BY <1>1, StepHas
<1>3. /\ stack[N].of \in Lines /\ stack[N - 1].of \in Lines
      /\ blocks' = [blocks EXCEPT ![stack[N - 1].of] = Append(@, stack[N].of)]
  BY BlocksAre DEF Reads
<1>4. lists' = lists /\ Lines' = Lines
  BY StepHas DEF Closed
<1>5. blocks \in [1 .. Len(script) -> Seq(1 .. Len(script))]
  BY DEF Step, TypeOK
<1>6. Growing(Append(blocks[stack[N - 1].of], stack[N].of))
  <2>1. blocks[stack[N - 1].of] \in Seq(Nat) /\ stack[N].of \in Nat
    <3>1. blocks[stack[N - 1].of] \in Seq(1 .. Len(script))
      BY <1>3, <1>5 DEF Lines
    <3>2. 1 .. Len(script) \subseteq Nat /\ stack[N].of \in Nat
      BY <1>3 DEF Lines
    <3> QED BY <3>1, <3>2
  <2>2. Growing(blocks[stack[N - 1].of])
    BY <1>3 DEF Ordered
  <2>3. ~IsLoop(stack[N - 1])
    BY <1>1, <1>2 DEF Closed, Step, Nested
  <2>4. OrderedAt(N)
    <3>1. N \in 2 .. Len(stack)
      BY <1>1, <1>2
    <3> QED BY <3>1 DEF Ordered
  <2>5. \A n \in ToSet(blocks[stack[N - 1].of]) : n < stack[N].of
    BY <2>3, <2>4 DEF OrderedAt, Done
  <2> QED BY <2>1, <2>2, <2>5, GrowingAppend
<1>7. \A m \in Lines : Growing(blocks'[m])
  BY <1>3, <1>5, <1>6 DEF Ordered, Lines
<1>8. ASSUME NEW i \in 2 .. N - 1 PROVE OrderedAt(i)'
  <2>1. i \in 2 .. N /\ i - 1 \in 1 .. N - 2 /\ i - 1 \in 1 .. N /\ i - 1 < N - 1 /\ (i \in 1 .. N - 2 \/ i = N - 1)
    BY <1>2
  <2>2. stack'[i].of = stack[i].of /\ stack'[i - 1] = stack[i - 1]
    BY <1>1, <2>1
  <2>3. stack[i - 1].of # stack[N - 1].of
    BY <1>2, <2>1, CallsGrow
  <2>4. blocks'[stack[i - 1].of] = blocks[stack[i - 1].of] \/ IsLoop(stack[i - 1])
    <3>1. ASSUME ~IsLoop(stack[i - 1]) PROVE blocks'[stack[i - 1].of] = blocks[stack[i - 1].of]
      <4>1. stack[i - 1].of # 0
        BY <1>2, <2>1, <3>1 DEF Step, Nested
      <4>2. stack[i - 1].of \in 1 .. Len(script)
        BY <2>1, <4>1, StepHas
      <4> QED BY <1>3, <1>5, <2>3, <4>2
    <3> QED BY <3>1
  <2>5. Done(i - 1)' = Done(i - 1)
    BY <1>4, <2>2, <2>4 DEF Done
  <2>6. OrderedAt(i)
    BY <1>2, <2>1 DEF Ordered
  <2> QED BY <2>2, <2>5, <2>6 DEF OrderedAt
<1> QED BY <1>1, <1>4, <1>7, <1>8 DEF Ordered, Owners

(* An instruction whose consumer is done comes after its list's others. *)
LEMMA BackOrdered ==
  ASSUME NEW c, Step(c), Back(c), Ordered
  PROVE  Ordered'
<1>1. /\ N > 1 /\ Len(stack') = N - 1 /\ \A i \in 1 .. N - 1 : stack'[i] = stack[i] /\ IsLoop(stack[N - 1])
  BY BackStack
<1>2. N \in Nat /\ N >= 1 /\ Len(stack) = N /\ N \in 1 .. N /\ N - 1 \in 1 .. N
  BY <1>1, StepHas
<1>3. /\ stack[N].of \in Lines /\ stack[N - 1].of \in 0 .. Len(script)
      /\ lists' = [lists EXCEPT ![stack[N - 1].of] = Append(@, stack[N].of)]
  BY ListsAre DEF Reads
<1>4. blocks' = blocks /\ Lines' = Lines
  BY StepHas DEF Back
<1>5. lists \in [0 .. Len(script) -> Seq(1 .. Len(script))]
  BY DEF Step, TypeOK
<1>6. Growing(Append(lists[stack[N - 1].of], stack[N].of))
  <2>1. lists[stack[N - 1].of] \in Seq(Nat) /\ stack[N].of \in Nat
    <3>1. lists[stack[N - 1].of] \in Seq(1 .. Len(script))
      BY <1>3, <1>5
    <3>2. 1 .. Len(script) \subseteq Nat /\ stack[N].of \in Nat
      BY <1>3 DEF Lines
    <3> QED BY <3>1, <3>2
  <2>2. Growing(lists[stack[N - 1].of])
    BY <1>3, <1>5 DEF Ordered, Owners
  <2>3. IsLoop(stack[N - 1])
    BY BackStack
  <2>4. OrderedAt(N)
    <3>1. N \in 2 .. Len(stack)
      BY <1>1, <1>2
    <3> QED BY <3>1 DEF Ordered
  <2>5. \A n \in ToSet(lists[stack[N - 1].of]) : n < stack[N].of
    BY <2>3, <2>4 DEF OrderedAt, Done
  <2> QED BY <2>1, <2>2, <2>5, GrowingAppend
<1>7. \A b \in DOMAIN lists' : Growing(lists'[b])
  BY <1>3, <1>5, <1>6 DEF Ordered, Owners
<1>8. ASSUME NEW i \in 2 .. N - 1 PROVE OrderedAt(i)'
  <2>1. i \in 2 .. N /\ i - 1 \in 1 .. N - 1 /\ i - 1 \in 1 .. N /\ i - 1 < N - 1 /\ i \in 1 .. N - 1
    BY <1>2
  <2>2. stack'[i] = stack[i] /\ stack'[i - 1] = stack[i - 1]
    BY <1>1, <2>1
  <2>3. stack[i - 1].of # stack[N - 1].of
    BY <1>2, <2>1, CallsGrow
  <2>4. lists'[stack[i - 1].of] = lists[stack[i - 1].of]
    <3>1. stack[i - 1].of \in 0 .. Len(script)
      BY <2>1, StepHas
    <3> QED BY <1>3, <1>5, <2>3, <3>1
  <2>5. Done(i - 1)' = Done(i - 1)
    BY <1>4, <2>2, <2>4 DEF Done
  <2>6. OrderedAt(i)
    BY <1>2, <2>1 DEF Ordered
  <2> QED BY <2>2, <2>5, <2>6 DEF OrderedAt
<1>9. \A m \in Lines : Growing(blocks[m])
  BY DEF Ordered
<1> QED BY <1>1, <1>4, <1>7, <1>8, <1>9 DEF Ordered, Owners

(* A line that is taken over changes no list and no menu. *)
LEMMA MergedOrdered ==
  ASSUME NEW c, Step(c), Merged(c), Ordered
  PROVE  Ordered'
<1>1. /\ Len(stack') = N /\ \A i \in 1 .. N - 1 : stack'[i] = stack[i]
      /\ stack'[N].of = stack[N].of
  BY MergedStack
<1>2. N \in Nat /\ N >= 1 /\ Len(stack) = N /\ N \in 1 .. N
  BY StepHas
<1>3. lists' = lists /\ blocks' = blocks /\ Lines' = Lines
  BY StepHas DEF Merged
<1>4. ASSUME NEW i \in 2 .. N PROVE OrderedAt(i)'
  <2>1. i - 1 \in 1 .. N - 1 /\ (i \in 1 .. N - 1 \/ i = N)
    BY <1>2
  <2>2. stack'[i].of = stack[i].of /\ stack'[i - 1] = stack[i - 1]
    BY <1>1, <2>1
  <2>3. Done(i - 1)' = Done(i - 1)
    BY <1>3, <2>2 DEF Done
  <2>4. OrderedAt(i)
    BY <1>2 DEF Ordered
  <2> QED BY <2>2, <2>3, <2>4 DEF OrderedAt
<1> QED BY <1>1, <1>3, <1>4 DEF Ordered, Owners

(* The order of the lines is kept. *)
LEMMA ReadsOrdered ==
  ASSUME NEW c, Step(c), Reads(c), Ordered, Behind
  PROVE  Ordered'
<1>1. CASE Ended(c)
  <2>1. stack' = <<>> /\ lists' = lists /\ blocks' = blocks /\ Lines' = Lines
    BY <1>1, StepHas DEF Ended
  <2>2. Len(stack') = 0
    BY <2>1
  <2>3. \A i \in 2 .. Len(stack') : FALSE
    BY <2>2
  <2> QED BY <2>1, <2>3 DEF Ordered, Owners
<1> QED BY <1>1, PlainOrdered, CalledOrdered, EnteredOrdered, ClosedOrdered, BackOrdered, MergedOrdered DEF Reads

(* What is still to be read is untouched. *)
LEMMA ReadsUntouched ==
  ASSUME NEW c, Step(c), Reads(c), Untouched
  PROVE  Untouched' /\ Here' \in Nat /\ Here' >= Here
<1>1. N \in Nat /\ N >= 1 /\ Len(stack) = N /\ N \in 1 .. N /\ Here \in Nat /\ Lines' = Lines
  BY StepHas
<1>2. Here' \in Nat /\ Here' >= Here
  <2>1. (peeked' = 0 /\ c # 0 => Here' = Here + 1) /\ (peeked' = 0 /\ c = 0 => Here' = Here) /\ (peeked' = c => Here' = Here)
    BY HereMoves DEF Step
  <2>2. peeked' = 0 \/ peeked' = c
    BY ReadsNested
  <2> QED BY <1>1, <2>1, <2>2
<1>3. \A i \in 1 .. N : stack[i].of < Here
  BY <1>1 DEF Step, Nested
<1>4. \A n \in Lines : n >= Here' => n >= Here
  BY <1>1, <1>2 DEF Lines
<1>5. \A n \in Lines : n >= Here => n # stack[N].of
  <2>1. stack[N].of \in Nat /\ stack[N].of < Here
    BY <1>1, <1>3, StepHas
  <2> QED BY <1>1, <2>1 DEF Lines
<1>6. \A n \in Lines : n >= Here => operand'[n] = operand[n]
  <2>1. operand \in [Lines -> Seq([what : {"name", "text"}, line : 1 .. Len(script)])]
    BY DEF Step, TypeOK, Lines
  <2> QED BY <1>5, <2>1, OperandsAre
<1>7. \A n \in Lines : n >= Here => blocks'[n] = blocks[n]
  <2>1. blocks \in [Lines -> Seq(1 .. Len(script))]
    BY DEF Step, TypeOK, Lines
  <2>2. CASE Closed(c)
    <3>1. N > 2 /\ N - 1 \in 1 .. N
      BY <1>1, <2>2, ClosedStack
    <3>2. stack[N - 1].of \in Nat /\ stack[N - 1].of < Here
      BY <1>1, <1>3, <3>1, StepHas
    <3>3. \A n \in Lines : n >= Here => n # stack[N - 1].of
      BY <1>1, <3>2 DEF Lines
    <3> QED BY <2>1, <2>2, <3>3, BlocksAre
  <2> QED BY <2>2, BlocksAre
<1>8. script' = script
  BY DEF Step, Rest
<1> QED BY <1>1, <1>2, <1>4, <1>6, <1>7, <1>8 DEF Untouched

-----------------------------------------------------------------------------
(* Where the lines are.                                                        *)

(* Which lines loops and consumers are open for after a step that leaves the   *)
(* first k frames, whatever their loops wait for next. *)
LEMMA OpenUpTo ==
  ASSUME NEW c, Step(c), NEW k \in 1 .. N, k <= Len(stack'), Len(stack') \in Nat,
         \A i \in 1 .. k : stack'[i].of = stack[i].of /\ (IsLoop(stack'[i]) <=> IsLoop(stack[i])),
         NEW n
  PROVE  /\ Open(n) <=> (\E i \in 2 .. k : stack[i].of = n) \/ \E i \in k + 1 .. N : stack[i].of = n
         /\ Open(n)' <=> (\E i \in 2 .. k : stack[i].of = n) \/ \E i \in k + 1 .. Len(stack') : stack'[i].of = n
         /\ Consumes(n) => Consumes(n)' \/ \E i \in k + 1 .. N : stack[i].of = n /\ ~IsLoop(stack[i])
<1>1. N \in Nat /\ N >= 1 /\ Len(stack) = N
  BY StepHas
<1>2. \A i \in 2 .. N : i \in 2 .. k \/ i \in k + 1 .. N
  BY <1>1
<1>3. \A i \in 2 .. Len(stack') : i \in 2 .. k \/ i \in k + 1 .. Len(stack')
  BY <1>1
<1>4. /\ \A i \in 2 .. k : i \in 1 .. k /\ i \in 2 .. N /\ i \in 2 .. Len(stack')
      /\ \A i \in k + 1 .. N : i \in 2 .. N
      /\ \A i \in k + 1 .. Len(stack') : i \in 2 .. Len(stack')
  BY <1>1
<1>5. Open(n) <=> (\E i \in 2 .. k : stack[i].of = n) \/ \E i \in k + 1 .. N : stack[i].of = n
  BY <1>1, <1>2, <1>4 DEF Open
<1>6. Open(n)' <=> (\E i \in 2 .. k : stack[i].of = n) \/ \E i \in k + 1 .. Len(stack') : stack'[i].of = n
  BY <1>3, <1>4 DEF Open
<1>7. Consumes(n) => Consumes(n)' \/ \E i \in k + 1 .. N : stack[i].of = n /\ ~IsLoop(stack[i])
  BY <1>1, <1>2, <1>4 DEF Consumes
<1> QED BY <1>5, <1>6, <1>7

(* Open lines, by step. *)
LEMMA OpenIs ==
  ASSUME NEW c, Step(c), Reads(c), NEW n
  PROVE  /\ Plain(c) \/ Merged(c) => (Open(n)' <=> Open(n)) /\ (Consumes(n) => Consumes(n)')
         /\ Called(c) \/ Entered(c) => (Open(n)' <=> Open(n) \/ n = c) /\ (Consumes(n) => Consumes(n)')
         /\ Closed(c) => (Open(n)' <=> Open(n) /\ n # stack[N].of) /\ (Consumes(n) => Consumes(n)')
         /\ Back(c) => (Open(n)' <=> Open(n) /\ n # stack[N].of) /\ (Consumes(n) => Consumes(n)' \/ n = stack[N].of)
         /\ Ended(c) => ~Open(n)' /\ ~Open(n) /\ ~Consumes(n)
         /\ N > 1 => Open(stack[N].of)
         /\ N > 1 /\ ~IsLoop(stack[N]) => Consumes(stack[N].of)
<1>1. N \in Nat /\ N >= 1 /\ Len(stack) = N /\ N \in 1 .. N
  BY StepHas
<1>2. ASSUME Plain(c) \/ Merged(c) PROVE (Open(n)' <=> Open(n)) /\ (Consumes(n) => Consumes(n)')
  <2>1. Len(stack') = N /\ \A i \in 1 .. N - 1 : stack'[i] = stack[i]
    BY <1>2, PlainStack, MergedStack
  <2>2. stack'[N].of = stack[N].of /\ (IsLoop(stack'[N]) <=> IsLoop(stack[N]))
    BY <1>2, PlainStack, MergedStack DEF Plain, IsLoop
  <2>3. \A i \in 1 .. N : stack'[i].of = stack[i].of /\ (IsLoop(stack'[i]) <=> IsLoop(stack[i]))
    <3> SUFFICES ASSUME NEW i \in 1 .. N PROVE stack'[i].of = stack[i].of /\ (IsLoop(stack'[i]) <=> IsLoop(stack[i]))
      OBVIOUS
    <3>1. i \in 1 .. N - 1 \/ i = N
      BY <1>1
    <3> QED BY <2>1, <2>2, <3>1
  <2>4. \A i \in N + 1 .. N : FALSE
    BY <1>1
  <2> QED BY <1>1, <2>1, <2>3, <2>4, OpenUpTo
<1>3. ASSUME Called(c) \/ Entered(c) PROVE (Open(n)' <=> Open(n) \/ n = c) /\ (Consumes(n) => Consumes(n)')
  <2>1. Len(stack') = N + 1 /\ (\A i \in 1 .. N - 1 : stack'[i] = stack[i]) /\ stack'[N + 1].of = c
    <3>1. \A i \in 1 .. N - 1 : i \in 1 .. N
      BY <1>1
    <3> QED BY <1>3, <3>1, CalledStack, EnteredStack
  <2>2. stack'[N].of = stack[N].of /\ (IsLoop(stack'[N]) <=> IsLoop(stack[N]))
    BY <1>1, <1>3, CalledStack, EnteredStack DEF Called, IsLoop
  <2>3. \A i \in 1 .. N : stack'[i].of = stack[i].of /\ (IsLoop(stack'[i]) <=> IsLoop(stack[i]))
    <3> SUFFICES ASSUME NEW i \in 1 .. N PROVE stack'[i].of = stack[i].of /\ (IsLoop(stack'[i]) <=> IsLoop(stack[i]))
      OBVIOUS
    <3>1. i \in 1 .. N - 1 \/ i = N
      BY <1>1
    <3> QED BY <2>1, <2>2, <3>1
  <2>4. (\A i \in N + 1 .. N : FALSE) /\ (\A i \in N + 1 .. N + 1 : i = N + 1) /\ N + 1 \in N + 1 .. N + 1
    BY <1>1
  <2>5. N <= Len(stack') /\ Len(stack') \in Nat
    BY <1>1, <2>1
  <2>6. PICK k : k = N
    OBVIOUS
  <2>7. k \in 1 .. N /\ k <= Len(stack') /\ \A i \in 1 .. k : stack'[i].of = stack[i].of /\ (IsLoop(stack'[i]) <=> IsLoop(stack[i]))
    BY <1>1, <2>3, <2>5, <2>6
  <2>8. /\ Open(n) <=> (\E i \in 2 .. k : stack[i].of = n) \/ \E i \in k + 1 .. N : stack[i].of = n
        /\ Open(n)' <=> (\E i \in 2 .. k : stack[i].of = n) \/ \E i \in k + 1 .. Len(stack') : stack'[i].of = n
        /\ Consumes(n) => Consumes(n)' \/ \E i \in k + 1 .. N : stack[i].of = n /\ ~IsLoop(stack[i])
    BY <2>5, <2>7, OpenUpTo
  <2> QED BY <2>1, <2>4, <2>6, <2>8
<1>4. ASSUME Closed(c) \/ Back(c)
      PROVE  /\ Open(n)' <=> Open(n) /\ n # stack[N].of
             /\ Consumes(n) => Consumes(n)' \/ (Back(c) /\ n = stack[N].of)
  <2>1. N > 1 /\ Len(stack') = N - 1 /\ \A i \in 1 .. N - 2 : stack'[i] = stack[i]
    <3>1. \A i \in 1 .. N - 2 : i \in 1 .. N - 1
      BY <1>1
    <3>2. N > 2 => N > 1
      BY <1>1
    <3> QED BY <1>4, <3>1, <3>2, ClosedStack, BackStack
  <2>2. stack'[N - 1].of = stack[N - 1].of /\ (IsLoop(stack'[N - 1]) <=> IsLoop(stack[N - 1])) /\ (Closed(c) => IsLoop(stack[N]))
    <3>1. CASE Closed(c)
      <4>1. ~IsLoop(stack[N - 1])
        BY <1>1, <2>1, <3>1 DEF Closed, Step, Nested
      <4> QED BY <3>1, <4>1, ClosedStack DEF IsLoop, Closed
    <3>2. CASE Back(c)
      <4>1. N - 1 \in 1 .. N - 1
        BY <1>1, <2>1
      <4>2. ~Closed(c)
        BY <3>2 DEF Closed, Back, IsLoop
      <4> QED BY <3>2, <4>1, <4>2, BackStack
    <3> QED BY <1>4, <3>1, <3>2
  <2>3. \A i \in 1 .. N - 1 : stack'[i].of = stack[i].of /\ (IsLoop(stack'[i]) <=> IsLoop(stack[i]))
    <3> SUFFICES ASSUME NEW i \in 1 .. N - 1 PROVE stack'[i].of = stack[i].of /\ (IsLoop(stack'[i]) <=> IsLoop(stack[i]))
      OBVIOUS
    <3>1. i \in 1 .. N - 2 \/ i = N - 1
      BY <1>1
    <3> QED BY <2>1, <2>2, <3>1
  <2> DEFINE k == N - 1
  <2>4. k \in 1 .. N /\ k + 1 = N /\ (\A i \in N .. N : i = N) /\ N \in N .. N /\ (\A i \in N .. N - 1 : FALSE) /\ Len(stack') \in Nat /\ k <= Len(stack')
    BY <1>1, <2>1
  <2>5. \A i \in 1 .. k : stack'[i].of = stack[i].of /\ (IsLoop(stack'[i]) <=> IsLoop(stack[i]))
    BY <2>3
  <2>6. Len(stack') = N - 1
    BY <2>1
  <2> HIDE DEF k
  <2>7. /\ Open(n) <=> (\E i \in 2 .. k : stack[i].of = n) \/ \E i \in N .. N : stack[i].of = n
        /\ Open(n)' <=> (\E i \in 2 .. k : stack[i].of = n) \/ \E i \in N .. N - 1 : stack'[i].of = n
        /\ Consumes(n) => Consumes(n)' \/ \E i \in N .. N : stack[i].of = n /\ ~IsLoop(stack[i])
    BY <2>4, <2>5, <2>6, OpenUpTo
  <2>8. \A i \in 2 .. k : stack[i].of # stack[N].of
    <3>1. \A i \in 2 .. k : i \in 1 .. N /\ i < N
      BY <1>1, <2>1 DEF k
    <3> QED BY <1>1, <3>1, CallsGrow
  <2> QED BY <1>4, <2>2, <2>4, <2>7, <2>8
<1>5. ASSUME Ended(c) PROVE ~Open(n)' /\ ~Open(n) /\ ~Consumes(n)
  <2>1. Len(stack') = 0
    BY <1>5 DEF Ended
  <2>2. N = 1
    BY <1>1, <1>5 DEF Ended, Step, Nested
  <2>3. (\A i \in 2 .. 0 : FALSE) /\ (\A i \in 2 .. 1 : FALSE)
    OBVIOUS
  <2> QED BY <1>1, <2>1, <2>2, <2>3 DEF Open, Consumes
<1>6. N > 1 => N \in 2 .. Len(stack)
  BY <1>1
<1>7. (N > 1 => Open(stack[N].of)) /\ (N > 1 /\ ~IsLoop(stack[N]) => Consumes(stack[N].of))
  BY <1>6 DEF Open, Consumes
<1>8. Closed(c) => ~Back(c)
  BY DEF Closed, Back, IsLoop
<1> QED BY <1>2, <1>3, <1>4, <1>5, <1>7, <1>8

(* Lists, by step. *)
LEMMA WithinIs ==
  ASSUME NEW c, Step(c), Reads(c), NEW b \in 0 .. Len(script)
  PROVE  /\ Plain(c) => Within(b)' = Within(b) \cup IF b = stack[N].of THEN {c} ELSE {}
         /\ Back(c) => Within(b)' = Within(b) \cup IF b = stack[N - 1].of THEN {stack[N].of} ELSE {}
         /\ ~Plain(c) /\ ~Back(c) => Within(b)' = Within(b)
<1>1. lists \in [0 .. Len(script) -> Seq(Lines)]
  BY DEF Step, TypeOK, Lines
<1>2. ASSUME NEW s \in Seq(Lines), NEW e \in Lines PROVE ToSet(Append(s, e)) = ToSet(s) \cup {e}
  BY AppendIs
<1>3. lists[b] \in Seq(Lines)
  BY <1>1
<1>4. ASSUME Plain(c) PROVE Within(b)' = Within(b) \cup IF b = stack[N].of THEN {c} ELSE {}
  <2>1. c \in Lines /\ lists' = [lists EXCEPT ![stack[N].of] = Append(@, c)]
    BY <1>4, ListsAre
  <2>2. lists'[b] = IF b = stack[N].of THEN Append(lists[b], c) ELSE lists[b]
    BY <1>1, <2>1
  <2> QED BY <1>2, <1>3, <2>1, <2>2 DEF Within
<1>5. ASSUME Back(c) PROVE Within(b)' = Within(b) \cup IF b = stack[N - 1].of THEN {stack[N].of} ELSE {}
  <2>1. stack[N].of \in Lines /\ lists' = [lists EXCEPT ![stack[N - 1].of] = Append(@, stack[N].of)]
    BY <1>5, ListsAre
  <2>2. lists'[b] = IF b = stack[N - 1].of THEN Append(lists[b], stack[N].of) ELSE lists[b]
    BY <1>1, <2>1
  <2> QED BY <1>2, <1>3, <2>1, <2>2 DEF Within
<1>6. ~Plain(c) /\ ~Back(c) => Within(b)' = Within(b)
  BY ListsAre DEF Within
<1> QED BY <1>4, <1>5, <1>6

(* The heads of blocks, by step. *)
LEMMA HeadsAre ==
  ASSUME NEW c, Step(c), Reads(c), NEW m \in Lines
  PROVE  /\ Closed(c) => ToSet(blocks'[m]) = ToSet(blocks[m]) \cup IF m = stack[N - 1].of THEN {stack[N].of} ELSE {}
         /\ ~Closed(c) => ToSet(blocks'[m]) = ToSet(blocks[m])
<1>1. blocks \in [Lines -> Seq(Lines)]
  BY DEF Step, TypeOK, Lines
<1>2. ASSUME NEW s \in Seq(Lines), NEW e \in Lines PROVE ToSet(Append(s, e)) = ToSet(s) \cup {e}
  BY AppendIs
<1>3. blocks[m] \in Seq(Lines)
  BY <1>1
<1>4. ASSUME Closed(c) PROVE ToSet(blocks'[m]) = ToSet(blocks[m]) \cup IF m = stack[N - 1].of THEN {stack[N].of} ELSE {}
  <2>1. stack[N].of \in Lines /\ blocks' = [blocks EXCEPT ![stack[N - 1].of] = Append(@, stack[N].of)]
    BY <1>4, BlocksAre
  <2>2. blocks'[m] = IF m = stack[N - 1].of THEN Append(blocks[m], stack[N].of) ELSE blocks[m]
    BY <1>1, <2>1
  <2> QED BY <1>2, <1>3, <2>1, <2>2
<1>5. ~Closed(c) => ToSet(blocks'[m]) = ToSet(blocks[m])
  BY BlocksAre
<1> QED BY <1>4, <1>5

(* The lines that operands are from. *)
LinesIn(s) == {s[k].line : k \in DOMAIN s}

(* Operands put behind others: their lines are those of both. *)
LEMMA LinesOfBoth ==
  ASSUME NEW O, NEW s \in Seq(O), NEW t \in Seq(O)
  PROVE  LinesIn(s \o t) = LinesIn(s) \cup LinesIn(t)
<1>1. /\ Len(s) \in Nat /\ Len(t) \in Nat /\ DOMAIN s = 1 .. Len(s) /\ DOMAIN t = 1 .. Len(t) /\ DOMAIN (s \o t) = 1 .. Len(s) + Len(t)
      /\ \A k \in 1 .. Len(s) : (s \o t)[k] = s[k]
      /\ \A k \in 1 .. Len(t) : (s \o t)[Len(s) + k] = t[k]
  BY ConcatProperties
<1>2. \A k \in 1 .. Len(s) + Len(t) : k \in 1 .. Len(s) \/ (k - Len(s) \in 1 .. Len(t) /\ Len(s) + (k - Len(s)) = k)
  BY <1>1
<1>3. (\A k \in 1 .. Len(s) : k \in 1 .. Len(s) + Len(t)) /\ \A k \in 1 .. Len(t) : Len(s) + k \in 1 .. Len(s) + Len(t)
  BY <1>1
<1>4. ASSUME NEW k \in DOMAIN (s \o t)
      PROVE  (s \o t)[k].line \in LinesIn(s) \cup LinesIn(t)
  BY <1>1, <1>2, <1>4 DEF LinesIn
<1>5. ASSUME NEW k \in DOMAIN s PROVE s[k].line \in LinesIn(s \o t)
  <2>1. k \in DOMAIN (s \o t) /\ (s \o t)[k] = s[k]
    BY <1>1, <1>3
  <2> QED BY <2>1 DEF LinesIn
<1>6. ASSUME NEW k \in DOMAIN t PROVE t[k].line \in LinesIn(s \o t)
  <2>1. Len(s) + k \in DOMAIN (s \o t) /\ (s \o t)[Len(s) + k] = t[k]
    BY <1>1, <1>3
  <2> QED BY <2>1 DEF LinesIn
<1>7. \A x \in LinesIn(s \o t) : x \in LinesIn(s) \cup LinesIn(t)
  BY <1>4 DEF LinesIn
<1>8. (\A x \in LinesIn(s) : x \in LinesIn(s \o t)) /\ \A x \in LinesIn(t) : x \in LinesIn(s \o t)
  BY <1>5, <1>6 DEF LinesIn
<1> QED BY <1>7, <1>8

(* What was taken over, by step. *)
LEMMA TakenIs ==
  ASSUME NEW c, Step(c), Reads(c), Untouched, NEW m \in Lines
  PROVE  /\ Merged(c) => Taken(m)' = Taken(m) \cup IF m = stack[N].of THEN {c} ELSE {}
         /\ ~Merged(c) => Taken(m)' = Taken(m)
<1> DEFINE O == [what : {"name", "text"}, line : 1 .. Len(script)]
<1>1. operand \in [Lines -> Seq(O)]
  BY DEF Step, TypeOK, Lines
<1>2. ASSUME Merged(c) PROVE Taken(m)' = Taken(m) \cup IF m = stack[N].of THEN {c} ELSE {}
  <2>1. stack[N].of \in Lines /\ c \in Lines /\ operand' = [operand EXCEPT ![stack[N].of] = @ \o operand[c]]
    BY <1>2, OperandsAre
  <2>2. operand'[m] = IF m = stack[N].of THEN operand[m] \o operand[c] ELSE operand[m]
    BY <1>1, <2>1
  <2>3. LinesIn(operand[c]) = {c}
    <3>1. c = Here
      <4>1. c # 0
        BY <2>1 DEF Lines
      <4> QED BY <4>1, StepHas
    <3>2. Here \in Nat /\ c >= Here
      BY <3>1, StepHas
    <3>3. operand[c] = OperandOf(script, c)
      BY <2>1, <3>2 DEF Untouched
    <3>4. Kind(script, c) \in {"say", "choicetitle", "choice"}
      BY <1>2 DEF Merged, Is, Menus
    <3>5. \/ operand[c] = <<[what |-> "text", line |-> c]>>
          \/ operand[c] = <<[what |-> "name", line |-> c], [what |-> "text", line |-> c]>>
      BY <3>3, <3>4 DEF OperandOf
    <3>6. CASE operand[c] = <<[what |-> "text", line |-> c]>>
      <4>1. DOMAIN operand[c] = {1} /\ operand[c][1].line = c
        BY <3>6
      <4> QED BY <4>1 DEF LinesIn
    <3>7. CASE operand[c] = <<[what |-> "name", line |-> c], [what |-> "text", line |-> c]>>
      <4>1. DOMAIN operand[c] = {1, 2} /\ operand[c][1].line = c /\ operand[c][2].line = c
        BY <3>7
      <4> QED BY <4>1 DEF LinesIn
    <3> QED BY <3>5, <3>6, <3>7
  <2>4. c # stack[N].of
    <3>1. N \in Nat /\ N \in 1 .. N /\ Len(stack) = N /\ stack[N].of \in Nat /\ Here \in Nat /\ (c # 0 => c = Here)
      BY StepHas
    <3>2. stack[N].of < Here
      BY <3>1 DEF Step, Nested
    <3>3. c # 0
      BY <2>1 DEF Lines
    <3> QED BY <3>1, <3>2, <3>3
  <2>5. CASE m = stack[N].of
    <3>1. operand[m] \in Seq(O) /\ operand[c] \in Seq(O) /\ operand'[m] = operand[m] \o operand[c]
      BY <1>1, <2>1, <2>2, <2>5
    <3> HIDE DEF O
    <3>2. LinesIn(operand[m] \o operand[c]) = LinesIn(operand[m]) \cup {c}
      BY <2>3, <3>1, LinesOfBoth
    <3>3. Taken(m)' = LinesIn(operand'[m]) \ {m} /\ Taken(m) = LinesIn(operand[m]) \ {m}
      BY DEF Taken, LinesIn
    <3> QED BY <2>4, <2>5, <3>1, <3>2, <3>3
  <2>6. CASE m # stack[N].of
    BY <2>2, <2>6 DEF Taken
  <2> QED BY <2>5, <2>6
<1>3. ASSUME ~Merged(c) PROVE Taken(m)' = Taken(m)
  <2>1. operand' = operand
    BY <1>3, OperandsAre
  <2> QED BY <2>1 DEF Taken
<1> QED BY <1>2, <1>3

(* The roles are different ones. *)
LEMMA RolesDiffer ==
  /\ \A x, y : /\ <<"list", x>> = <<"list", y>> <=> x = y
               /\ <<"part", x>> = <<"part", y>> <=> x = y
               /\ <<"head", x>> = <<"head", y>> <=> x = y
               /\ <<"list", x>> # <<"part", y>> /\ <<"list", x>> # <<"head", y>> /\ <<"part", x>> # <<"head", y>>
  /\ \A x : /\ <<"list", x>> # <<"open", 0>> /\ <<"list", x>> # <<"ahead", 0>> /\ <<"list", x>> # <<"none", 0>>
            /\ <<"part", x>> # <<"open", 0>> /\ <<"part", x>> # <<"ahead", 0>> /\ <<"part", x>> # <<"none", 0>>
            /\ <<"head", x>> # <<"open", 0>> /\ <<"head", x>> # <<"ahead", 0>> /\ <<"head", x>> # <<"none", 0>>
  /\ <<"open", 0>> # <<"ahead", 0>> /\ <<"open", 0>> # <<"none", 0>> /\ <<"ahead", 0>> # <<"none", 0>>
OBVIOUS

(* ... and these are all of them. *)
LEMMA RolesAre ==
  /\ \A b \in 0 .. Len(script) : <<"list", b>> \in Roles
  /\ \A m \in Lines : <<"part", m>> \in Roles /\ <<"head", m>> \in Roles
  /\ <<"open", 0>> \in Roles /\ <<"ahead", 0>> \in Roles /\ <<"none", 0>> \in Roles
BY DEF Roles

(* A line that a step does nothing to. *)
Keeps(n) ==
  /\ \A b \in 0 .. Len(script) : n \in Within(b)' <=> n \in Within(b)
  /\ \A m \in Lines : n \in Taken(m)' <=> n \in Taken(m)
  /\ \A m \in Lines : n \in ToSet(blocks'[m]) <=> n \in ToSet(blocks[m])
  /\ Open(n)' <=> Open(n)
  /\ n >= Here' <=> n >= Here

(* It is where it was. *)
LEMMA InKept ==
  ASSUME NEW n, Keeps(n), NEW x, In(n, x), script' = script
  PROVE  In(n, x)'
<1>1. Lines' = Lines
  BY DEF Lines
<1>2. \A b \in 0 .. Len(script) : n \in Within(b)' <=> x = <<"list", b>>
  BY DEF Keeps, In
<1>3. \A m \in Lines : n \in Taken(m)' <=> x = <<"part", m>>
  BY DEF Keeps, In
<1>4. \A m \in Lines : n \in ToSet(blocks'[m]) <=> x = <<"head", m>>
  BY DEF Keeps, In
<1>5. (Open(n)' <=> x = <<"open", 0>>) /\ (n >= Here' <=> x = <<"ahead", 0>>)
  BY DEF Keeps, In
<1>6. x = <<"none", 0>> => Kind(script', n) \in {"end", "noop"}
  BY DEF In
<1> QED BY <1>1, <1>2, <1>3, <1>4, <1>5, <1>6 DEF In

(* Only the line that is read and the one a loop ends for change their place. *)
LEMMA OthersKept ==
  ASSUME NEW c, Step(c), Reads(c), Untouched, NEW n \in Lines, n # c \/ Back(c), (Closed(c) \/ Back(c)) => n # stack[N].of
  PROVE  Keeps(n)
<1>1. \A b \in 0 .. Len(script) : n \in Within(b)' <=> n \in Within(b)
  <2>1. Plain(c) => ~Back(c)
    BY DEF Plain, Back, IsLoop
  <2> QED BY <2>1, WithinIs
<1>2. \A m \in Lines : n \in Taken(m)' <=> n \in Taken(m)
  <2>1. Merged(c) => ~Back(c)
    BY DEF Merged, Back, Is
  <2> QED BY <2>1, TakenIs
<1>3. \A m \in Lines : n \in ToSet(blocks'[m]) <=> n \in ToSet(blocks[m])
  BY HeadsAre
<1>4. Open(n)' <=> Open(n)
  <2>1. Called(c) \/ Entered(c) => ~Back(c)
    BY DEF Called, Entered, Back, IsLoop
  <2> QED BY <2>1, OpenIs DEF Reads
<1>5. n >= Here' <=> n >= Here
  <2>1. Here \in Nat /\ (c # 0 => c = Here)
    BY StepHas
  <2>2. Here' = Here \/ (c # 0 /\ ~Back(c) /\ Here' = Here + 1)
    <3>1. (peeked' = 0 /\ c # 0 => Here' = Here + 1) /\ (peeked' = 0 /\ c = 0 => Here' = Here) /\ (peeked' = c => Here' = Here)
      BY HereMoves DEF Step
    <3>2. (~Back(c) => peeked' = 0) /\ (Back(c) => peeked' = c)
      BY ReadsNested
    <3> QED BY <3>1, <3>2
  <2>3. n \in Int
    BY DEF Lines
  <2> QED BY <2>1, <2>2, <2>3
<1> QED BY <1>1, <1>2, <1>3, <1>4, <1>5 DEF Keeps

(* The line that is read had no place. *)
LEMMA AheadIs ==
  ASSUME NEW c, Step(c), c # 0, NEW r, Assigned(r)
  PROVE  /\ r[c] = <<"ahead", 0>> /\ c \in Lines /\ c = Here
         /\ \A b \in 0 .. Len(script) : c \notin Within(b)
         /\ \A m \in Lines : c \notin Taken(m) /\ c \notin ToSet(blocks[m])
         /\ ~Open(c) /\ ~Consumes(c)
<1>1. c \in Lines /\ c = Here /\ Here \in Nat
  BY StepHas
<1>2. c >= Here
  BY <1>1
<1>3. In(c, r[c])
  BY <1>1 DEF Assigned
<1>4. r[c] = <<"ahead", 0>>
  BY <1>2, <1>3 DEF In
<1>5. ~Consumes(c)
  <2>1. ~Open(c)
    BY <1>3, <1>4, RolesDiffer DEF In
  <2> QED BY <2>1 DEF Open, Consumes
<1> QED BY <1>1, <1>3, <1>4, <1>5, RolesDiffer DEF In

(* Where the lines are after a step that gives the line it read the role x. *)
LEMMA OneMoves ==
  ASSUME NEW c, Step(c), Reads(c), Untouched, ~Closed(c), ~Back(c), c # 0, NEW r, Assigned(r),
         NEW x \in Roles, In(c, x)',
         \A m \in Lines : x = <<"part", m>> => Consumes(m)'
  PROVE  Assigned([r EXCEPT ![c] = x])'
<1> DEFINE q == [r EXCEPT ![c] = x]
<1>1. /\ r[c] = <<"ahead", 0>> /\ c \in Lines /\ script' = script /\ Lines' = Lines
  BY AheadIs, StepHas DEF Step, Rest
<1>2. r \in [Lines -> Roles] /\ Roles' = Roles
  BY <1>1 DEF Assigned, Roles
<1>3. q \in [Lines -> Roles] /\ q[c] = x /\ \A n \in Lines : n # c => q[n] = r[n]
  BY <1>1, <1>2
<1> HIDE DEF q
<1>4. ASSUME NEW n \in Lines PROVE In(n, q[n])'
  <2>1. CASE n = c
    BY <1>3, <2>1
  <2>2. CASE n # c
    <3>1. In(n, r[n])
      BY DEF Assigned
    <3>2. Keeps(n)
      BY <2>2, OthersKept
    <3>3. In(n, r[n])'
      BY <1>1, <3>1, <3>2, InKept
    <3> QED BY <1>3, <2>2, <3>3
  <2> QED BY <2>1, <2>2
<1>5. ASSUME NEW n \in Lines, NEW m \in Lines, q[n] = <<"part", m>>
      PROVE  Consumes(m)' \/ \E b \in 0 .. Len(script) : q[m] = <<"list", b>>
  <2>1. CASE n = c
    BY <1>3, <1>5, <2>1
  <2>2. CASE n # c
    <3>1. Consumes(m) \/ \E b \in 0 .. Len(script) : r[m] = <<"list", b>>
      BY <1>3, <1>5, <2>2 DEF Assigned
    <3>2. CASE Consumes(m)
      <4>1. ~Ended(c)
        BY <3>2, OpenIs
      <4> QED BY <3>2, <4>1, OpenIs DEF Reads
    <3>3. CASE \E b \in 0 .. Len(script) : r[m] = <<"list", b>>
      <4>1. m # c
        BY <1>1, <3>3, RolesDiffer
      <4> QED BY <1>3, <3>3, <4>1
    <3> QED BY <3>1, <3>2, <3>3
  <2> QED BY <2>1, <2>2
<1>6. Assigned(q)'
  BY <1>1, <1>2, <1>3, <1>4, <1>5 DEF Assigned
<1> QED BY <1>6 DEF q

(* An instruction that is added is in the list of its loop. *)
LEMMA PlainAssigned ==
  ASSUME NEW c, Step(c), Plain(c), Untouched, NEW r, Assigned(r)
  PROVE  \E q : Assigned(q)'
<1>0. PICK x : x = <<"list", stack[N].of>>
  OBVIOUS
<1>1. /\ c # 0 /\ ~Closed(c) /\ ~Back(c) /\ ~Merged(c) /\ Reads(c)
  BY DEF Plain, Closed, Back, Merged, IsLoop, Reads, Stops
<1>2. /\ c \in Lines /\ c = Here
      /\ \A b \in 0 .. Len(script) : c \notin Within(b)
      /\ \A m \in Lines : c \notin Taken(m) /\ c \notin ToSet(blocks[m])
      /\ ~Open(c)
  BY <1>1, AheadIs
<1>3. stack[N].of \in 0 .. Len(script) /\ Here' = Here + 1 /\ Here \in Nat /\ Lines' = Lines /\ script' = script
  BY ListsAre, PlainNested, StepHas DEF Reads, Step, Rest
<1>4. x \in Roles /\ \A m \in Lines : x # <<"part", m>>
  BY <1>0, <1>3, RolesAre, RolesDiffer
<1>5. In(c, x)'
  <2>1. \A b \in 0 .. Len(script) : c \in Within(b)' <=> x = <<"list", b>>
    BY <1>0, <1>1, <1>2, WithinIs, RolesDiffer
  <2>2. \A m \in Lines : c \notin Taken(m)' /\ c \notin ToSet(blocks'[m])
    BY <1>1, <1>2, TakenIs, HeadsAre
  <2>3. ~Open(c)' /\ ~(c >= Here')
    BY <1>1, <1>2, <1>3, OpenIs
  <2>4. /\ \A m \in Lines : x # <<"part", m>> /\ x # <<"head", m>>
        /\ x # <<"open", 0>> /\ x # <<"ahead", 0>> /\ x # <<"none", 0>>
    BY <1>0, RolesDiffer
  <2> QED BY <1>3, <2>1, <2>2, <2>3, <2>4 DEF In
<1> QED BY <1>1, <1>4, <1>5, OneMoves

(* The line that a consumer or a block is for is open. *)
LEMMA OpenedAssigned ==
  ASSUME NEW c, Step(c), Called(c) \/ Entered(c), Untouched, NEW r, Assigned(r)
  PROVE  \E q : Assigned(q)'
<1>0. PICK x : x = <<"open", 0>>
  OBVIOUS
<1>1. /\ c # 0 /\ ~Closed(c) /\ ~Back(c) /\ ~Merged(c) /\ ~Plain(c) /\ Reads(c)
  BY DEF Called, Entered, Closed, Back, Merged, Plain, IsLoop, Reads, Stops, Is, Menus
<1>2. /\ c \in Lines /\ c = Here
      /\ \A b \in 0 .. Len(script) : c \notin Within(b)
      /\ \A m \in Lines : c \notin Taken(m) /\ c \notin ToSet(blocks[m])
  BY <1>1, AheadIs
<1>3. Here' = Here + 1 /\ Here \in Nat /\ Lines' = Lines /\ script' = script
  BY CalledNested, EnteredNested, StepHas DEF Reads, Step, Rest
<1>4. x \in Roles /\ \A m \in Lines : x # <<"part", m>>
  BY <1>0, RolesAre, RolesDiffer
<1>5. In(c, x)'
  <2>1. \A b \in 0 .. Len(script) : c \notin Within(b)'
    BY <1>1, <1>2, WithinIs
  <2>2. \A m \in Lines : c \notin Taken(m)' /\ c \notin ToSet(blocks'[m])
    BY <1>1, <1>2, TakenIs, HeadsAre
  <2>3. Open(c)' /\ ~(c >= Here')
    BY <1>1, <1>2, <1>3, OpenIs
  <2>4. /\ \A b \in 0 .. Len(script) : x # <<"list", b>>
        /\ \A m \in Lines : x # <<"part", m>> /\ x # <<"head", m>>
        /\ x = <<"open", 0>> /\ x # <<"ahead", 0>> /\ x # <<"none", 0>>
    BY <1>0, RolesDiffer
  <2> QED BY <1>3, <2>1, <2>2, <2>3, <2>4 DEF In
<1> QED BY <1>1, <1>4, <1>5, OneMoves

(* The line that is taken over is part of its consumer's. *)
LEMMA MergedAssigned ==
  ASSUME NEW c, Step(c), Merged(c), Untouched, NEW r, Assigned(r)
  PROVE  \E q : Assigned(q)'
<1>0. PICK x : x = <<"part", stack[N].of>>
  OBVIOUS
<1>1. /\ c # 0 /\ ~Closed(c) /\ ~Back(c) /\ ~Called(c) /\ ~Plain(c) /\ Reads(c)
  BY DEF Called, Closed, Back, Merged, Plain, IsLoop, Reads, Is, Menus
<1>2. /\ c \in Lines /\ c = Here
      /\ \A b \in 0 .. Len(script) : c \notin Within(b)
      /\ \A m \in Lines : c \notin Taken(m) /\ c \notin ToSet(blocks[m])
      /\ ~Open(c)
  BY <1>1, AheadIs
<1>3. stack[N].of \in Lines /\ Here' = Here + 1 /\ Here \in Nat /\ Lines' = Lines /\ script' = script
  <2>1. stack[N].of \in Lines
    BY <1>1, OperandsAre
  <2>2. Here' = Here + 1
    BY MergedNested
  <2> QED BY <2>1, <2>2, StepHas DEF Step, Rest
<1>4. x \in Roles /\ \A m \in Lines : x = <<"part", m>> => Consumes(m)'
  <2>1. N > 1 /\ ~IsLoop(stack[N])
    BY MergedStack
  <2>2. Consumes(stack[N].of)
    BY <1>1, <2>1, OpenIs
  <2>3. \A m : Consumes(m) => Consumes(m)'
    BY <1>1, OpenIs
  <2> QED BY <1>0, <1>3, <2>2, <2>3, RolesAre, RolesDiffer
<1>5. In(c, x)'
  <2>1. \A b \in 0 .. Len(script) : c \notin Within(b)'
    BY <1>1, <1>2, WithinIs
  <2>2. \A m \in Lines : (c \in Taken(m)' <=> x = <<"part", m>>) /\ c \notin ToSet(blocks'[m])
    BY <1>0, <1>1, <1>2, TakenIs, HeadsAre, RolesDiffer
  <2>3. ~Open(c)' /\ ~(c >= Here')
    BY <1>1, <1>2, <1>3, OpenIs
  <2>4. /\ \A b \in 0 .. Len(script) : x # <<"list", b>>
        /\ \A m \in Lines : x # <<"head", m>>
        /\ x # <<"open", 0>> /\ x # <<"ahead", 0>> /\ x # <<"none", 0>>
    BY <1>0, RolesDiffer
  <2> QED BY <1>3, <2>1, <2>2, <2>3, <2>4 DEF In
<1> QED BY <1>1, <1>4, <1>5, OneMoves

(* The line that ends an object's script is nowhere. *)
LEMMA EndedAssigned ==
  ASSUME NEW c, Step(c), Ended(c), Untouched, NEW r, Assigned(r)
  PROVE  \E q : Assigned(q)'
<1>0. PICK x : x = <<"none", 0>>
  OBVIOUS
<1>1. /\ ~Closed(c) /\ ~Back(c) /\ ~Called(c) /\ ~Plain(c) /\ ~Merged(c) /\ ~Entered(c) /\ Reads(c)
  BY DEF Called, Closed, Back, Merged, Plain, Ended, Entered, IsLoop, Reads, Is, Menus, Stops
<1>2. Here \in Nat /\ Lines' = Lines /\ script' = script /\ N \in Nat /\ N >= 1 /\ Len(stack) = N
  BY StepHas DEF Step, Rest
<1>3. CASE c # 0
  <2>1. /\ c \in Lines /\ c = Here
        /\ \A b \in 0 .. Len(script) : c \notin Within(b)
        /\ \A m \in Lines : c \notin Taken(m) /\ c \notin ToSet(blocks[m])
    BY <1>3, AheadIs
  <2>2. Kind(script, c) = "noop"
    <3>1. ShouldStop(c) /\ Top.of = 0
      BY <1>2, <1>3 DEF Ended, Stops, Top, Last, N
    <3> QED BY <3>1 DEF ShouldStop, Is
  <2>3. Here' = Here + 1
    BY <1>3, HereMoves DEF Step, Ended
  <2>4. x \in Roles /\ \A m \in Lines : x # <<"part", m>>
    BY <1>0, RolesAre, RolesDiffer
  <2>5. In(c, x)'
    <3>1. \A b \in 0 .. Len(script) : c \notin Within(b)'
      BY <1>1, <2>1, WithinIs
    <3>2. \A m \in Lines : c \notin Taken(m)' /\ c \notin ToSet(blocks'[m])
      BY <1>1, <2>1, TakenIs, HeadsAre
    <3>3. ~Open(c)' /\ ~(c >= Here')
      BY <1>1, <1>2, <2>1, <2>3, OpenIs
    <3>4. /\ \A b \in 0 .. Len(script) : x # <<"list", b>>
          /\ \A m \in Lines : x # <<"part", m>> /\ x # <<"head", m>>
          /\ x # <<"open", 0>> /\ x # <<"ahead", 0>>
      BY <1>0, RolesDiffer
    <3> QED BY <1>2, <2>2, <3>1, <3>2, <3>3, <3>4 DEF In
  <2> QED BY <1>1, <1>3, <2>4, <2>5, OneMoves
<1>4. CASE c = 0
  <2>1. ASSUME NEW n \in Lines PROVE In(n, r[n])'
    <3>1. n # c
      BY <1>4 DEF Lines
    <3>2. Keeps(n) /\ In(n, r[n])
      BY <1>1, <3>1, OthersKept DEF Assigned
    <3> QED BY <1>2, <3>2, InKept
  <2>2. \A m : ~Consumes(m)
    BY <1>1, OpenIs
  <2>3. r \in [Lines' -> Roles'] /\ \A n, m \in Lines' : r[n] = <<"part", m>> => \E b \in 0 .. Len(script') : r[m] = <<"list", b>>
    <3>1. Roles' = Roles
      BY <1>2 DEF Roles
    <3> QED BY <1>2, <2>2, <3>1 DEF Assigned
  <2>4. Assigned(r)'
    BY <1>2, <2>1, <2>3 DEF Assigned
  <2> QED BY <2>4
<1> QED BY <1>3, <1>4

(* A line whose loop or consumer ends was open. *)
LEMMA EndsOpen ==
  ASSUME NEW c, Step(c), Closed(c) \/ Back(c), NEW r, Assigned(r)
  PROVE  /\ stack[N].of \in Lines /\ N > 1 /\ stack[N].of < Here /\ Here \in Nat /\ c # stack[N].of
         /\ r[stack[N].of] = <<"open", 0>>
         /\ \A b \in 0 .. Len(script) : stack[N].of \notin Within(b)
         /\ \A m \in Lines : stack[N].of \notin Taken(m) /\ stack[N].of \notin ToSet(blocks[m])
<1>1. N > 1 /\ N \in Nat /\ N \in 1 .. N /\ Len(stack) = N /\ Here \in Nat /\ (c # 0 => c = Here)
  <2>1. N > 2 => N > 1
    BY StepHas
  <2> QED BY <2>1, StepHas, ClosedStack, BackStack
<1>2. stack[N].of \in Lines
  BY BlocksAre, ListsAre DEF Reads
<1>3. stack[N].of < Here
  BY <1>1 DEF Step, Nested
<1>4. Open(stack[N].of)
  BY <1>1, OpenIs DEF Reads
<1>5. In(stack[N].of, r[stack[N].of])
  BY <1>2 DEF Assigned
<1>6. r[stack[N].of] = <<"open", 0>>
  BY <1>4, <1>5 DEF In
<1>7. c # stack[N].of
  BY <1>1, <1>2, <1>3 DEF Lines
<1> QED BY <1>1, <1>2, <1>3, <1>5, <1>6, <1>7, RolesDiffer DEF In

(* A consumer's instruction is in the list of the loop that called. *)
LEMMA BackAssigned ==
  ASSUME NEW c, Step(c), Back(c), Untouched, NEW r, Assigned(r)
  PROVE  \E q : Assigned(q)'
<1>1. PICK d, x, q : d = stack[N].of /\ x = <<"list", stack[N - 1].of>> /\ q = [r EXCEPT ![d] = x]
  OBVIOUS
<1>2. /\ d \in Lines /\ N > 1 /\ d < Here /\ Here \in Nat /\ c # d
      /\ r[d] = <<"open", 0>>
      /\ \A b \in 0 .. Len(script) : d \notin Within(b)
      /\ \A m \in Lines : d \notin Taken(m) /\ d \notin ToSet(blocks[m])
  BY <1>1, EndsOpen
<1>3. /\ Here' = Here /\ Lines' = Lines /\ script' = script /\ stack[N - 1].of \in 0 .. Len(script) /\ Roles' = Roles
  BY BackNested, ListsAre, StepHas DEF Reads, Step, Rest, Roles, Lines
<1>4. ~Closed(c) /\ ~Plain(c) /\ ~Merged(c) /\ ~Called(c) /\ ~Entered(c) /\ Reads(c)
  BY DEF Back, Closed, Plain, Merged, Called, Entered, IsLoop, Reads, Is, Menus
<1>5. x \in Roles /\ r \in [Lines -> Roles]
  BY <1>1, <1>3, RolesAre DEF Assigned
<1>6. q \in [Lines -> Roles] /\ q[d] = x /\ \A n \in Lines : n # d => q[n] = r[n]
  BY <1>1, <1>2, <1>5
<1>7. In(d, x)'
  <2>1. \A b \in 0 .. Len(script) : d \in Within(b)' <=> x = <<"list", b>>
    BY <1>1, <1>2, <1>4, WithinIs, RolesDiffer
  <2>2. \A m \in Lines : d \notin Taken(m)' /\ d \notin ToSet(blocks'[m])
    BY <1>2, <1>4, TakenIs, HeadsAre
  <2>3. ~Open(d)' /\ ~(d >= Here')
    BY <1>1, <1>2, <1>3, <1>4, OpenIs DEF Lines
  <2>4. /\ \A m \in Lines : x # <<"part", m>> /\ x # <<"head", m>>
        /\ x # <<"open", 0>> /\ x # <<"ahead", 0>> /\ x # <<"none", 0>>
    BY <1>1, RolesDiffer
  <2> QED BY <1>3, <2>1, <2>2, <2>3, <2>4 DEF In
<1>8. ASSUME NEW n \in Lines PROVE In(n, q[n])'
  <2>1. CASE n = d
    BY <1>6, <1>7, <2>1
  <2>2. CASE n # d
    <3>1. Keeps(n) /\ In(n, r[n])
      BY <1>1, <1>4, <2>2, OthersKept DEF Assigned
    <3> QED BY <1>3, <1>6, <2>2, <3>1, InKept
  <2> QED BY <2>1, <2>2
<1>9. ASSUME NEW n \in Lines, NEW m \in Lines, q[n] = <<"part", m>>
      PROVE  Consumes(m)' \/ \E b \in 0 .. Len(script) : q[m] = <<"list", b>>
  <2>1. n # d
    BY <1>1, <1>6, <1>9, RolesDiffer
  <2>2. Consumes(m) \/ \E b \in 0 .. Len(script) : r[m] = <<"list", b>>
    BY <1>6, <1>9, <2>1 DEF Assigned
  <2>3. CASE m = d
    BY <1>1, <1>3, <1>6, <2>3
  <2>4. CASE m # d
    BY <1>1, <1>4, <1>6, <2>2, <2>4, OpenIs
  <2> QED BY <2>3, <2>4
<1>10. Assigned(q)'
  BY <1>3, <1>6, <1>8, <1>9 DEF Assigned
<1> QED BY <1>10

(* A block that ended is one of its menu's; the line that ended it is nowhere. *)
LEMMA ClosedAssigned ==
  ASSUME NEW c, Step(c), Closed(c), Untouched, NEW r, Assigned(r)
  PROVE  \E q : Assigned(q)'
<1>1. PICK d, x, y, q : /\ d = stack[N].of /\ x = <<"head", stack[N - 1].of>> /\ y = <<"none", 0>>
                        /\ q = [n \in Lines |-> IF n = d THEN x ELSE IF n = c THEN y ELSE r[n]]
  OBVIOUS
<1>2. /\ d \in Lines /\ N > 1 /\ d < Here /\ Here \in Nat /\ c # d
      /\ r[d] = <<"open", 0>>
      /\ \A b \in 0 .. Len(script) : d \notin Within(b)
      /\ \A m \in Lines : d \notin Taken(m) /\ d \notin ToSet(blocks[m])
  BY <1>1, EndsOpen
<1>3. /\ Here' = Here + (IF c = 0 THEN 0 ELSE 1) /\ Lines' = Lines /\ script' = script /\ stack[N - 1].of \in Lines /\ Roles' = Roles
  BY ClosedNested, BlocksAre, StepHas DEF Reads, Step, Rest, Roles, Lines
<1>4. ~Back(c) /\ ~Plain(c) /\ ~Merged(c) /\ ~Called(c) /\ ~Entered(c) /\ Reads(c)
  BY DEF Back, Closed, Plain, Merged, Called, Entered, IsLoop, Reads, Is, Menus, Stops
<1>5. x \in Roles /\ y \in Roles /\ r \in [Lines -> Roles]
  BY <1>1, <1>3, RolesAre DEF Assigned
<1>6. q \in [Lines -> Roles] /\ q[d] = x /\ (c \in Lines => q[c] = y) /\ \A n \in Lines : n # d /\ n # c => q[n] = r[n]
  BY <1>1, <1>2, <1>5
<1>7. In(d, x)'
  <2>1. \A b \in 0 .. Len(script) : d \notin Within(b)'
    BY <1>1, <1>2, <1>4, WithinIs
  <2>2. \A m \in Lines : d \notin Taken(m)' /\ (d \in ToSet(blocks'[m]) <=> x = <<"head", m>>)
    <3>1. \A m \in Lines : d \notin Taken(m)'
      BY <1>2, <1>4, TakenIs
    <3>2. \A m \in Lines : d \in ToSet(blocks'[m]) <=> m = stack[N - 1].of
      BY <1>1, <1>2, <1>4, HeadsAre
    <3> QED BY <1>1, <3>1, <3>2, RolesDiffer
  <2>3. ~Open(d)' /\ ~(d >= Here')
    BY <1>1, <1>2, <1>3, <1>4, OpenIs DEF Lines
  <2>4. /\ \A b \in 0 .. Len(script) : x # <<"list", b>>
        /\ \A m \in Lines : x # <<"part", m>>
        /\ x # <<"open", 0>> /\ x # <<"ahead", 0>> /\ x # <<"none", 0>>
    BY <1>1, RolesDiffer
  <2> QED BY <1>3, <2>1, <2>2, <2>3, <2>4 DEF In
<1>8. ASSUME c \in Lines PROVE In(c, y)'
  <2>1. /\ c = Here /\ c # 0
        /\ \A b \in 0 .. Len(script) : c \notin Within(b)
        /\ \A m \in Lines : c \notin Taken(m) /\ c \notin ToSet(blocks[m])
        /\ ~Open(c)
    <3>1. c # 0
      BY <1>8 DEF Lines
    <3> QED BY <3>1, AheadIs
  <2>2. Kind(script, c) = "end"
    <3>0. Len(stack) = N
      BY StepHas
    <3>1. ShouldStop(c) /\ Top.of # 0
      BY <2>1, <3>0 DEF Closed, Stops, Top, Last
    <3> QED BY <3>1 DEF ShouldStop, Is
  <2>3. \A b \in 0 .. Len(script) : c \notin Within(b)'
    BY <1>4, <2>1, WithinIs
  <2>4. \A m \in Lines : c \notin Taken(m)' /\ c \notin ToSet(blocks'[m])
    BY <1>1, <1>2, <1>4, <2>1, TakenIs, HeadsAre
  <2>5. ~Open(c)' /\ ~(c >= Here')
    BY <1>2, <1>3, <1>4, <2>1, OpenIs
  <2>6. /\ \A b \in 0 .. Len(script) : y # <<"list", b>>
        /\ \A m \in Lines : y # <<"part", m>> /\ y # <<"head", m>>
        /\ y # <<"open", 0>> /\ y # <<"ahead", 0>>
    BY <1>1, RolesDiffer
  <2> QED BY <1>3, <2>2, <2>3, <2>4, <2>5, <2>6 DEF In
<1>9. ASSUME NEW n \in Lines PROVE In(n, q[n])'
  <2>1. CASE n = d
    BY <1>6, <1>7, <2>1
  <2>2. CASE n # d /\ n = c
    BY <1>6, <1>8, <2>2
  <2>3. CASE n # d /\ n # c
    <3>1. Keeps(n) /\ In(n, r[n])
      BY <1>1, <1>4, <2>3, OthersKept DEF Assigned
    <3> QED BY <1>3, <1>6, <2>3, <3>1, InKept
  <2> QED BY <2>1, <2>2, <2>3
<1>10. ASSUME NEW n \in Lines, NEW m \in Lines, q[n] = <<"part", m>>
       PROVE  Consumes(m)' \/ \E b \in 0 .. Len(script) : q[m] = <<"list", b>>
  <2>1. n # d /\ n # c
    BY <1>1, <1>6, <1>10, RolesDiffer
  <2>2. Consumes(m) \/ \E b \in 0 .. Len(script) : r[m] = <<"list", b>>
    BY <1>6, <1>10, <2>1 DEF Assigned
  <2>3. CASE Consumes(m)
    BY <1>4, <2>3, OpenIs
  <2>4. CASE \E b \in 0 .. Len(script) : r[m] = <<"list", b>>
    <3>1. m # d
      BY <1>2, <2>4, RolesDiffer
    <3>2. m # c
      <4>1. ASSUME m = c PROVE FALSE
        <5>1. r[c] = <<"ahead", 0>>
          BY <4>1, AheadIs DEF Lines
        <5> QED BY <2>4, <4>1, <5>1, RolesDiffer
      <4> QED BY <4>1
    <3> QED BY <1>6, <2>4, <3>1, <3>2
  <2> QED BY <2>2, <2>3, <2>4
<1>11. Assigned(q)'
  BY <1>3, <1>6, <1>9, <1>10 DEF Assigned
<1> QED BY <1>11

(* A step leaves every line with a place. *)
LEMMA ReadsAssigned ==
  ASSUME NEW c, Step(c), Reads(c), Untouched, NEW r, Assigned(r)
  PROVE  \E q : Assigned(q)'
<1>1. Called(c) \/ Entered(c) => \E q : Assigned(q)'
  BY OpenedAssigned
<1>2. Plain(c) => \E q : Assigned(q)'
  BY PlainAssigned
<1>3. Merged(c) => \E q : Assigned(q)'
  BY MergedAssigned
<1>4. Ended(c) => \E q : Assigned(q)'
  BY EndedAssigned
<1>5. Closed(c) => \E q : Assigned(q)'
  BY ClosedAssigned
<1>6. Back(c) => \E q : Assigned(q)'
  BY BackAssigned
<1> QED BY <1>1, <1>2, <1>3, <1>4, <1>5, <1>6 DEF Reads

-----------------------------------------------------------------------------
(* The invariant of the reader. *)

(* It holds before the first line. *)
LEMMA InitReader == Init => ReaderInv
<1> SUFFICES ASSUME Init PROVE ReaderInv
  OBVIOUS
<1>1. /\ script \in Scripts /\ onlyOneProc \in BOOLEAN /\ pos = 1 /\ peeked = 0
      /\ stack = <<Frame("first", 0, 0)>>
      /\ lists = [b \in 0 .. Len(script) |-> << >>]
      /\ operand = [n \in 1 .. Len(script) |-> OperandOf(script, n)]
      /\ blocks = [n \in 1 .. Len(script) |-> << >>]
      /\ status = "reading"
  BY DEF Init
<1>2. Len(script) \in Nat /\ script \in Seq([kind : Kinds, arg : Names])
  <2>1. script \in Seq([kind : Kinds, arg : Names])
    BY <1>1, ScriptAssumption
  <2> QED BY <2>1
<1>3. 0 \in 0 .. Len(script) /\ 1 \in 1 .. Len(script) + 1
  BY <1>2
<1>4. Frame("first", 0, 0) \in Frames /\ Frame("first", 0, 0).at = "first" /\ Frame("first", 0, 0).of = 0
  BY <1>3, FrameIs DEF Ats
<1>5. stack \in Seq(Frames) /\ Len(stack) = 1 /\ stack[1] = Frame("first", 0, 0) /\ stack # <<>>
  BY <1>1, <1>4
<1>6. ASSUME NEW n \in 1 .. Len(script)
      PROVE  OperandOf(script, n) \in Seq([what : {"name", "text"}, line : 1 .. Len(script)])
  <2> DEFINE O == [what : {"name", "text"}, line : 1 .. Len(script)]
  <2>1. [what |-> "text", line |-> n] \in O /\ [what |-> "name", line |-> n] \in O
    OBVIOUS
  <2>2. \A x, y \in O : <<x>> \in Seq(O) /\ <<x, y>> \in Seq(O) /\ <<>> \in Seq(O)
    OBVIOUS
  <2>3. \/ OperandOf(script, n) = <<[what |-> "text", line |-> n]>>
        \/ OperandOf(script, n) = <<[what |-> "name", line |-> n], [what |-> "text", line |-> n]>>
        \/ OperandOf(script, n) = <<>>
    BY DEF OperandOf
  <2> HIDE DEF O
  <2>4. OperandOf(script, n) \in Seq(O)
    BY <2>1, <2>2, <2>3
  <2> QED BY <2>4 DEF O
<1>7. ASSUME NEW n \in 1 .. Len(script)
      PROVE  \A k \in DOMAIN OperandOf(script, n) : OperandOf(script, n)[k].line = n
  BY DEF OperandOf
<1>8. TypeOK
  <2>1. \A S : <<>> \in Seq(S)
    OBVIOUS
  <2>2. /\ lists \in [0 .. Len(script) -> Seq(1 .. Len(script))]
        /\ blocks \in [1 .. Len(script) -> Seq(1 .. Len(script))]
    BY <1>1, <2>1
  <2>3. operand \in [1 .. Len(script) -> Seq([what : {"name", "text"}, line : 1 .. Len(script)])]
    BY <1>1, <1>6
  <2> QED BY <1>1, <1>3, <1>5, <2>2, <2>3 DEF TypeOK
<1>9. Standing
  BY <1>1, <1>5 DEF Standing
<1>10. Here = 1
  BY <1>1 DEF Here
<1>11. Nested
  <2>1. (\A i \in 1 .. 1 : i = 1) /\ (\A j \in 1 .. 1 - 1 : FALSE)
    OBVIOUS
  <2>2. IsLoop(stack[1]) /\ stack[1].of = 0 /\ stack[1].at # "choice"
    BY <1>4, <1>5 DEF IsLoop
  <2> SUFFICES ASSUME NEW i \in 1 .. 1 PROVE NestedAt(i)
    BY <1>5 DEF Nested, NestedAt
  <2> QED BY <1>5, <1>10, <2>1, <2>2 DEF NestedAt
<1>12. Ordered
  <2>1. Growing(<<>>) /\ \A i \in 2 .. 1 : FALSE
    BY DEF Growing
  <2> QED BY <1>1, <1>5, <2>1 DEF Ordered, Owners, Lines
<1>13. Untouched
  BY <1>1 DEF Untouched, Lines
<1>14. \E r : Assigned(r)
  <2>1. PICK r : r = [n \in Lines |-> <<"ahead", 0>>]
    OBVIOUS
  <2>2. ASSUME NEW n \in Lines PROVE In(n, <<"ahead", 0>>)
    <3>1. \A b \in 0 .. Len(script) : n \notin Within(b)
      BY <1>1 DEF Within, ToSet
    <3>2. \A m \in Lines : n \notin ToSet(blocks[m])
      BY <1>1 DEF ToSet, Lines
    <3>3. \A m \in Lines : n \notin Taken(m)
      BY <1>1, <1>7 DEF Taken, Lines
    <3>4. ~Open(n) /\ n >= Here
      BY <1>5, <1>10 DEF Open, Lines
    <3> QED BY <3>1, <3>2, <3>3, <3>4, RolesDiffer DEF In
  <2>3. r \in [Lines -> Roles]
    BY <2>1, RolesAre
  <2>4. Assigned(r)
    BY <2>1, <2>2, <2>3, RolesDiffer DEF Assigned
  <2> QED BY <2>4
<1> QED BY <1>1, <1>8, <1>9, <1>11, <1>12, <1>13, <1>14 DEF ReaderInv

(* A step keeps it. *)
LEMMA NextReader == ReaderInv /\ Next => ReaderInv'
<1> SUFFICES ASSUME ReaderInv, Next PROVE ReaderInv'
  OBVIOUS
<1>1. status = "reading"
  BY DEF Next
<1>2. TypeOK /\ Standing /\ Nested /\ Ordered /\ Untouched
  BY <1>1 DEF ReaderInv
<1>3. PICK r : Assigned(r)
  BY <1>1 DEF ReaderInv
<1>4. PICK c : c = Current
  OBVIOUS
<1>5. Step(c) /\ ((Throws(c) /\ Stopped(c)) \/ Reads(c))
  BY <1>2, <1>4, StepIs DEF Step, Reads
<1>6. CASE Throws(c) /\ Stopped(c)
  BY <1>5, <1>6, StoppedShaped DEF ReaderInv
<1>7. CASE Reads(c)
  <2>1. Behind
    BY <1>2, <1>3, BehindIs
  <2>2. TypeOK' /\ Standing' /\ Nested'
    BY <1>5, <1>7, ReadsShaped
  <2>3. Ordered'
    BY <1>2, <1>5, <1>7, <2>1, ReadsOrdered
  <2>4. Untouched'
    BY <1>2, <1>5, <1>7, ReadsUntouched
  <2>5. \E q : Assigned(q)'
    BY <1>2, <1>3, <1>5, <1>7, ReadsAssigned
  <2> QED BY <2>2, <2>3, <2>4, <2>5 DEF ReaderInv
<1> QED BY <1>5, <1>6, <1>7

(* Standing still keeps it, too. *)
LEMMA StillReader == ReaderInv /\ UNCHANGED vars => ReaderInv'
<1> SUFFICES ASSUME ReaderInv, UNCHANGED vars PROVE ReaderInv'
  OBVIOUS
<1>1. /\ script' = script /\ onlyOneProc' = onlyOneProc /\ pos' = pos /\ peeked' = peeked /\ stack' = stack
      /\ lists' = lists /\ operand' = operand /\ blocks' = blocks /\ status' = status
  BY DEF vars
<1>2. TypeOK' <=> TypeOK
  BY <1>1 DEF TypeOK, Frames
<1>3. (Standing' <=> Standing) /\ Here' = Here /\ Lines' = Lines
  BY <1>1 DEF Standing, Here, Lines
<1>4. Nested' <=> Nested
  BY <1>1, <1>3 DEF Nested
<1>5. Ordered' <=> Ordered
  BY <1>1, <1>3 DEF Ordered, Owners, OrderedAt, Done
<1>6. Untouched' <=> Untouched
  BY <1>1, <1>3 DEF Untouched
<1>7. ASSUME NEW r, Assigned(r) PROVE Assigned(r)'
  <2>1. Roles' = Roles
    BY <1>1, <1>3 DEF Roles
  <2>2. ASSUME NEW n \in Lines PROVE In(n, r[n])'
    <3>1. Keeps(n)
      BY <1>1, <1>3 DEF Keeps, Within, Taken, Open
    <3>2. In(n, r[n])
      BY <1>7 DEF Assigned
    <3> QED BY <1>1, <3>1, <3>2, InKept
  <2>3. \A m : Consumes(m)' <=> Consumes(m)
    BY <1>1 DEF Consumes
  <2> QED BY <1>1, <1>3, <1>7, <2>1, <2>2, <2>3 DEF Assigned
<1> QED BY <1>1, <1>2, <1>3, <1>4, <1>5, <1>6, <1>7 DEF ReaderInv

(* When the script is read, each of its lines has exactly one place. *)
LEMMA ReaderLosesNothing == ReaderInv => TypeOK /\ NothingLost
<1> SUFFICES ASSUME ReaderInv, status = "read" PROVE NothingLost
  BY DEF ReaderInv, NothingLost
<1>1. TypeOK /\ Standing /\ Ordered
  BY DEF ReaderInv
<1>2. PICK r : Assigned(r)
  BY DEF ReaderInv
<1>3. stack = <<>> /\ peeked = 0
  BY <1>1 DEF Standing
<1>4. Here = pos /\ pos \in 1 .. Len(script) + 1 /\ Len(script) \in Nat
  BY <1>1, <1>3, StackIs DEF Here, TypeOK
<1>5. Owners = 0 .. Len(script) /\ DOMAIN blocks = Lines
  BY <1>1 DEF TypeOK, Owners, Lines
<1>6. \A n : ~Open(n) /\ ~Consumes(n)
  <2>1. Len(stack) = 0
    BY <1>3
  <2>2. \A i \in 2 .. Len(stack) : FALSE
    BY <2>1
  <2> QED BY <2>2 DEF Open, Consumes
<1> DEFINE All == UNION {Within(b) : b \in Owners}
<1>7. ASSUME NEW m \in All PROVE m \in Lines
  <2>1. PICK b \in Owners : m \in Within(b)
    BY <1>7
  <2>2. lists[b] \in Seq(1 .. Len(script))
    BY <1>1, <1>5, <2>1 DEF TypeOK
  <2> QED BY <2>1, <2>2 DEF Within, ToSet, Lines
<1>8. ASSUME NEW n \in 1 .. pos - 1
      PROVE  LET places ==
                   Cardinality({b \in Owners : n \in Within(b)})
                   + Cardinality({m \in UNION {Within(b) : b \in Owners} : n \in Taken(m)})
                   + Cardinality({m \in DOMAIN blocks : n \in ToSet(blocks[m])})
             IN  places = 1 \/ (places = 0 /\ Kind(script, n) \in {"end", "noop"})
  <2> DEFINE X == {b \in Owners : n \in Within(b)}
             Y == {m \in All : n \in Taken(m)}
             Z == {m \in DOMAIN blocks : n \in ToSet(blocks[m])}
  <2>1. n \in Lines /\ ~(n >= Here)
    BY <1>4 DEF Lines
  <2>2. In(n, r[n]) /\ r[n] \in Roles
    BY <1>2, <2>1 DEF Assigned
  <2>3. r[n] # <<"open", 0>> /\ r[n] # <<"ahead", 0>>
    BY <1>6, <2>1, <2>2 DEF In
  <2>4. \/ \E b \in 0 .. Len(script) : r[n] = <<"list", b>>
        \/ \E m \in Lines : r[n] = <<"part", m>>
        \/ \E m \in Lines : r[n] = <<"head", m>>
        \/ r[n] = <<"none", 0>>
    BY <2>2, <2>3 DEF Roles
  <2>5. /\ \A b \in Owners : b \in X <=> r[n] = <<"list", b>>
        /\ \A m \in Lines : m \in Z <=> r[n] = <<"head", m>>
        /\ \A m \in All : m \in Y <=> r[n] = <<"part", m>>
        /\ X \subseteq Owners /\ Z \subseteq Lines /\ Y \subseteq All
    BY <1>5, <1>7, <2>2 DEF In
  <2>6. \A e : Cardinality({e}) = 1
    BY FS_Singleton
  <2>7. Cardinality({}) = 0
    BY FS_EmptySet
  <2> HIDE DEF X, Y, Z, All
  <2>8. ASSUME NEW b \in 0 .. Len(script), r[n] = <<"list", b>>
        PROVE  X = {b} /\ Y = {} /\ Z = {}
    <3>1. Y = {} /\ Z = {}
      BY <2>5, <2>8, RolesDiffer
    <3>2. b \in X
      BY <1>5, <2>5, <2>8
    <3>3. \A a \in X : a = b
      BY <1>5, <2>5, <2>8, RolesDiffer
    <3> QED BY <3>1, <3>2, <3>3
  <2>9. ASSUME NEW m \in Lines, r[n] = <<"part", m>>
        PROVE  X = {} /\ Y = {m} /\ Z = {}
    <3>1. m \in All
      <4>1. PICK b \in 0 .. Len(script) : r[m] = <<"list", b>>
        BY <1>2, <1>6, <2>1, <2>9 DEF Assigned
      <4>2. m \in Within(b)
        BY <1>2, <4>1 DEF Assigned, In
      <4> QED BY <1>5, <4>2 DEF All
    <3> QED BY <2>5, <2>9, <3>1, RolesDiffer
  <2>10. ASSUME NEW m \in Lines, r[n] = <<"head", m>>
         PROVE  X = {} /\ Y = {} /\ Z = {m}
    BY <2>5, <2>10, RolesDiffer
  <2>11. ASSUME r[n] = <<"none", 0>>
         PROVE  X = {} /\ Y = {} /\ Z = {} /\ Kind(script, n) \in {"end", "noop"}
    BY <2>2, <2>5, <2>11, RolesDiffer DEF In
  <2>12. \/ Cardinality(X) + Cardinality(Y) + Cardinality(Z) = 1
         \/ Cardinality(X) + Cardinality(Y) + Cardinality(Z) = 0 /\ Kind(script, n) \in {"end", "noop"}
    <3>1. CASE \E b \in 0 .. Len(script) : r[n] = <<"list", b>>
      <4>1. Cardinality(X) = 1 /\ Cardinality(Y) = 0 /\ Cardinality(Z) = 0
        BY <2>6, <2>7, <2>8, <3>1
      <4> QED BY <4>1
    <3>2. CASE \E m \in Lines : r[n] = <<"part", m>>
      <4>1. Cardinality(X) = 0 /\ Cardinality(Y) = 1 /\ Cardinality(Z) = 0
        BY <2>6, <2>7, <2>9, <3>2
      <4> QED BY <4>1
    <3>3. CASE \E m \in Lines : r[n] = <<"head", m>>
      <4>1. Cardinality(X) = 0 /\ Cardinality(Y) = 0 /\ Cardinality(Z) = 1
        BY <2>6, <2>7, <2>10, <3>3
      <4> QED BY <4>1
    <3>4. CASE r[n] = <<"none", 0>>
      <4>1. Cardinality(X) = 0 /\ Cardinality(Y) = 0 /\ Cardinality(Z) = 0 /\ Kind(script, n) \in {"end", "noop"}
        BY <2>7, <2>11, <3>4
      <4> QED BY <4>1
    <3> QED BY <2>4, <3>1, <3>2, <3>3, <3>4
  <2> QED BY <2>12 DEF X, Y, Z, All
<1>9. \A b \in Owners : \A k \in 1 .. Len(lists[b]) - 1 : lists[b][k] < lists[b][k + 1]
  BY <1>1 DEF Ordered, Growing
<1> QED BY <1>3, <1>8, <1>9 DEF NothingLost

-----------------------------------------------------------------------------
(* Depths.  D is how deep a line of the file is.                               *)
D(n) == Depth(script, n)

(* The least and the greatest of a set of numbers. *)
LEMMA NatMin ==
  ASSUME NEW S \in SUBSET Nat, S # {}
  PROVE  \E n \in S : \A m \in S : n <= m
<1> DEFINE R == {p \in Nat \X Nat : p[1] < p[2]}
<1>1. IsWellFoundedOn(R, Nat)
  BY NatLessThanWellFounded DEF OpToRel
<1>2. PICK n \in S : \A m \in S : <<m, n>> \notin R
  <2> HIDE DEF R
  <2> QED BY <1>1, WFMin
<1>3. \A m \in S : ~(m < n)
  BY <1>2
<1> QED BY <1>3

(* A set that has one has no other. *)
LEMMA MinIs ==
  ASSUME NEW S \in SUBSET Nat, S # {}
  PROVE  Min(S) \in S /\ \A m \in S : Min(S) <= m
<1>1. \E n \in S : \A m \in S : n <= m
  BY NatMin
<1> QED BY <1>1 DEF Min

(* The same of the greatest. *)
LEMMA MaxIs ==
  ASSUME NEW S \in SUBSET Int, NEW x \in S, \A m \in S : x >= m
  PROVE  Max(S) = x
<1>1. Max(S) \in S /\ \A m \in S : Max(S) >= m
  BY DEF Max
<1>2. \A a, b \in Int : a >= b /\ b >= a => a = b
  OBVIOUS
<1>3. Max(S) \in Int /\ x \in Int /\ Max(S) >= x /\ x >= Max(S)
  BY <1>1
<1> QED BY <1>2, <1>3

(* How many lines of a kind there are before a line. *)
LEMMA BeforeIs ==
  ASSUME NEW S, NEW s \in Seq(S), NEW kind
  PROVE  /\ Before(s, kind, 1) = 0
         /\ \A n \in 1 .. Len(s) : /\ Before(s, kind, n) \in Nat
                                   /\ Before(s, kind, n + 1) = Before(s, kind, n) + IF Kind(s, n) = kind THEN 1 ELSE 0
         /\ \A n \in 1 .. Len(s) + 1 : Before(s, kind, n) \in Nat
<1> DEFINE B(n) == {k \in LinesOf(s, kind) : k < n}
<1>1. Len(s) \in Nat /\ DOMAIN s = 1 .. Len(s)
  OBVIOUS
<1>2. B(1) = {}
  BY <1>1 DEF LinesOf
<1>3. ASSUME NEW n \in 1 .. Len(s) + 1 PROVE IsFiniteSet(B(n)) /\ Cardinality(B(n)) \in Nat
  <2>1. IsFiniteSet(1 .. Len(s)) /\ B(n) \subseteq 1 .. Len(s)
    BY <1>1, FS_Interval DEF LinesOf
  <2>2. IsFiniteSet(B(n))
    BY <2>1, FS_Subset
  <2> QED BY <2>2, FS_CardinalityType
<1>4. ASSUME NEW n \in 1 .. Len(s)
      PROVE  Cardinality(B(n + 1)) = Cardinality(B(n)) + IF Kind(s, n) = kind THEN 1 ELSE 0
  <2>1. \A k \in 1 .. Len(s) : k < n + 1 <=> k < n \/ k = n
    BY <1>1
  <2>2. n \in 1 .. Len(s) + 1 /\ ~(n < n)
    BY <1>1
  <2>3. CASE Kind(s, n) = kind
    <3>1. B(n + 1) = B(n) \cup {n} /\ n \notin B(n)
      BY <1>1, <2>1, <2>2, <2>3 DEF LinesOf
    <3> HIDE DEF B
    <3>2. Cardinality(B(n + 1)) = Cardinality(B(n)) + 1
      BY <1>3, <2>2, <3>1, FS_AddElement
    <3> QED BY <2>3, <3>2
  <2>4. CASE Kind(s, n) # kind
    <3>1. B(n + 1) = B(n)
      BY <1>1, <2>1, <2>4 DEF LinesOf
    <3> HIDE DEF B
    <3>2. Cardinality(B(n)) + 0 = Cardinality(B(n))
      BY <1>3, <2>2
    <3> QED BY <2>4, <3>1, <3>2
  <2> QED BY <2>3, <2>4
<1>5. \A n : Before(s, kind, n) = Cardinality(B(n))
  BY DEF Before
<1>6. \A n \in 1 .. Len(s) : n \in 1 .. Len(s) + 1
  BY <1>1
<1>7. Cardinality({}) = 0
  BY FS_EmptySet
<1>8. Cardinality(B(1)) = 0
  BY <1>2, <1>7
<1> HIDE DEF B
<1> QED BY <1>3, <1>4, <1>5, <1>6, <1>8

(* Only for and end change how deep a line is. *)
LEMMA DepthIs ==
  ASSUME NEW S, NEW s \in Seq(S)
  PROVE  /\ Depth(s, 1) = 0
         /\ \A n \in 1 .. Len(s) + 1 : Depth(s, n) \in Int
         /\ \A n \in 1 .. Len(s) :
              Depth(s, n + 1) = Depth(s, n) + (IF Kind(s, n) = "for" THEN 1 ELSE 0) - (IF Kind(s, n) = "end" THEN 1 ELSE 0)
<1>1. Depth(s, 1) = 0
  BY BeforeIs DEF Depth
<1>2. ASSUME NEW n \in 1 .. Len(s) + 1 PROVE Depth(s, n) \in Int
  <2>1. Before(s, "for", n) \in Nat /\ Before(s, "end", n) \in Nat
    BY BeforeIs
  <2> QED BY <2>1 DEF Depth
<1>3. ASSUME NEW n \in 1 .. Len(s)
      PROVE  Depth(s, n + 1) = Depth(s, n) + (IF Kind(s, n) = "for" THEN 1 ELSE 0) - (IF Kind(s, n) = "end" THEN 1 ELSE 0)
  <2>1. /\ Before(s, "for", n) \in Nat /\ Before(s, "for", n + 1) = Before(s, "for", n) + IF Kind(s, n) = "for" THEN 1 ELSE 0
        /\ Before(s, "end", n) \in Nat /\ Before(s, "end", n + 1) = Before(s, "end", n) + IF Kind(s, n) = "end" THEN 1 ELSE 0
    BY BeforeIs
  <2> QED BY <2>1 DEF Depth
<1> QED BY <1>1, <1>2, <1>3

(* A text that begins as another is as deep there. *)
LEMMA PrefixDepth ==
  ASSUME NEW S, NEW s \in Seq(S), NEW T, NEW t \in Seq(T), Len(t) <= Len(s),
         \A n \in 1 .. Len(t) : Kind(t, n) = Kind(s, n)
  PROVE  \A n \in 1 .. Len(t) + 1 : Depth(t, n) = Depth(s, n)
<1>1. Len(s) \in Nat /\ DOMAIN s = 1 .. Len(s) /\ Len(t) \in Nat /\ DOMAIN t = 1 .. Len(t)
  OBVIOUS
<1>2. ASSUME NEW n \in 1 .. Len(t) + 1, NEW kind PROVE Before(t, kind, n) = Before(s, kind, n)
  <2>1. \A k : k \in 1 .. Len(s) /\ k < n <=> k \in 1 .. Len(t) /\ k < n
    <3>1. \A k \in 1 .. Len(s) : k < n => k \in 1 .. Len(t)
      BY <1>1
    <3>2. \A k \in 1 .. Len(t) : k \in 1 .. Len(s)
      BY <1>1
    <3> QED BY <3>1, <3>2
  <2>2. {k \in LinesOf(t, kind) : k < n} = {k \in LinesOf(s, kind) : k < n}
    BY <1>1, <2>1 DEF LinesOf
  <2> QED BY <2>2 DEF Before
<1> QED BY <1>2 DEF Depth

(* The part of the file that is this script. *)
LEMMA TextIs ==
  ASSUME TypeOK
  PROVE  /\ Len(Text) \in Nat /\ Len(Text) <= Len(script) /\ DOMAIN Text = 1 .. Len(Text)
         /\ \A n \in 1 .. Len(Text) : Kind(Text, n) = Kind(script, n)
         /\ Text = script <=> Len(Text) = Len(script)
         /\ Len(Text) # Len(script) =>
              onlyOneProc /\ Len(Text) + 1 \in 2 .. Len(script) /\ Kind(script, Len(Text) + 1) = "noop" /\ D(Len(Text) + 1) = 0
         /\ onlyOneProc => \A n \in 2 .. Len(script) : Kind(script, n) = "noop" /\ D(n) = 0 => n >= Len(Text) + 1
         /\ \A n \in 1 .. Len(Text) + 1 : Depth(Text, n) = D(n)
         /\ \A n \in 1 .. Len(Text) : Text[n] = script[n]
<1> DEFINE R == [kind : Kinds, arg : Names]
           blank == {n \in LinesOf(script, "noop") : n > 1 /\ Depth(script, n) = 0}
<1>1. script \in Seq(R) /\ Len(script) \in Nat /\ DOMAIN script = 1 .. Len(script)
  BY StackIs
<1> HIDE DEF R
<1>2. \A n : n \in blank <=> n \in 2 .. Len(script) /\ Kind(script, n) = "noop" /\ D(n) = 0
  <2>1. \A n : n \in 1 .. Len(script) /\ n > 1 <=> n \in 2 .. Len(script)
    BY <1>1
  <2> QED BY <1>1, <2>1 DEF LinesOf, D
<1>3. Text = IF onlyOneProc /\ blank # {} THEN SubSeq(script, 1, Min(blank) - 1) ELSE script
  BY DEF Text
<1> HIDE DEF blank
<1>4. CASE onlyOneProc /\ blank # {}
  <2>1. blank \in SUBSET Nat
    BY <1>1, <1>2
  <2>2. Min(blank) \in blank /\ \A m \in blank : Min(blank) <= m
    BY <1>4, <2>1, MinIs
  <2>3. PICK l \in Nat : l + 1 = Min(blank) /\ l = Min(blank) - 1 /\ l + 1 \in 2 .. Len(script) /\ l >= 1 /\ l < Len(script)
    <3>1. Min(blank) \in 2 .. Len(script)
      BY <1>2, <2>2
    <3>2. Min(blank) - 1 \in Nat /\ (Min(blank) - 1) + 1 = Min(blank) /\ Min(blank) - 1 >= 1 /\ Min(blank) - 1 < Len(script)
      BY <1>1, <3>1
    <3> QED BY <3>1, <3>2
  <2>4. Text = SubSeq(script, 1, l)
    BY <1>3, <1>4, <2>3
  <2>5. \A i \in 1 .. l : script[i] \in R
    <3>1. \A i \in 1 .. l : i \in 1 .. Len(script)
      BY <1>1, <2>3
    <3> QED BY <1>1, <3>1
  <2>6. /\ Text \in Seq(R) /\ Len(Text) = (IF 1 <= l THEN l - 1 + 1 ELSE 0)
        /\ \A i \in 1 .. l - 1 + 1 : Text[i] = script[1 + i - 1]
    BY <1>1, <2>3, <2>4, <2>5, SubSeqProperties
  <2>7. Len(Text) = l /\ \A i \in 1 .. l : Text[i] = script[i]
    <3>1. l - 1 + 1 = l /\ \A i \in 1 .. l : 1 + i - 1 = i
      BY <2>3
    <3> QED BY <2>3, <2>6, <3>1
  <2>8. \A n \in 1 .. Len(Text) : Kind(Text, n) = Kind(script, n)
    BY <2>7 DEF Kind
  <2>9. Len(Text) <= Len(script) /\ Len(Text) # Len(script) /\ DOMAIN Text = 1 .. Len(Text)
    BY <1>1, <2>3, <2>6, <2>7
  <2>10. \A n \in 1 .. Len(Text) + 1 : Depth(Text, n) = D(n)
    BY <1>1, <2>6, <2>8, <2>9, PrefixDepth DEF D
  <2>11. Kind(script, l + 1) = "noop" /\ D(l + 1) = 0 /\ \A n \in 2 .. Len(script) : Kind(script, n) = "noop" /\ D(n) = 0 => n >= l + 1
    BY <1>1, <1>2, <2>2, <2>3
  <2> QED BY <1>4, <2>3, <2>7, <2>8, <2>9, <2>10, <2>11
<1>5. CASE ~(onlyOneProc /\ blank # {})
  <2>1. Text = script
    BY <1>3, <1>5
  <2>2. onlyOneProc => \A n \in 2 .. Len(script) : ~(Kind(script, n) = "noop" /\ D(n) = 0)
    BY <1>2, <1>5
  <2>3. \A n \in 1 .. Len(Text) + 1 : Depth(Text, n) = D(n)
    BY <2>1 DEF D
  <2> QED BY <1>1, <2>1, <2>2, <2>3
<1> QED BY <1>4, <1>5

(* What a script that is well formed is, in terms of the file. *)
Tidy ==
  /\ \A n \in 1 .. Len(Text) + 1 : D(n) \in Nat
  /\ D(1) = 0 /\ D(Len(Text) + 1) = 0
  /\ \A n \in 1 .. Len(Text) :
       /\ D(n + 1) = D(n) + (IF Kind(script, n) = "for" THEN 1 ELSE 0) - (IF Kind(script, n) = "end" THEN 1 ELSE 0)
       /\ Kind(script, n) # "bad" /\ (Kind(script, n) = "end" => D(n) >= 1)
       /\ Kind(script, n) \in Menus => n < Len(Text) /\ Kind(script, n + 1) \in {"choice", "for"}
       /\ Kind(script, n) = "for" =>
            /\ n > 1 /\ Kind(script, n - 1) \in {"choice", "end"}
            /\ n < Len(Text) /\ Kind(script, n + 1) # "end"
            /\ LET m == MenuAt(Text, n)
               IN  Cardinality(Answers(Text, m)) <= Cardinality(Run(Text, m, Menus) \cap LinesOf(Text, "choice"))

(* It says so. *)
LEMMA TidyIs ==
  ASSUME TypeOK, WellFormed(Text)
  PROVE  Tidy
<1> DEFINE L == Len(Text)
<1>1. /\ L \in Nat /\ L <= Len(script) /\ DOMAIN Text = 1 .. L /\ Len(script) \in Nat
      /\ \A n \in 1 .. L : Kind(Text, n) = Kind(script, n)
      /\ \A n \in 1 .. L + 1 : Depth(Text, n) = D(n)
  BY TextIs, StackIs
<1>2. /\ LinesOf(Text, "bad") = {}
      /\ \A n \in DOMAIN Text : Depth(Text, n) >= IF Kind(Text, n) = "end" THEN 1 ELSE 0
      /\ Depth(Text, L + 1) = 0
      /\ \A n \in DOMAIN Text : Kind(Text, n) \in Menus => n < L /\ Kind(Text, n + 1) \in {"choice", "for"}
      /\ \A f \in LinesOf(Text, "for") :
           /\ f > 1 /\ Kind(Text, f - 1) \in {"choice", "end"}
           /\ Kind(Text, f + 1) # "end"
           /\ LET m == MenuAt(Text, f)
              IN  Cardinality(Answers(Text, m)) <= Cardinality(Run(Text, m, Menus) \cap LinesOf(Text, "choice"))
  BY DEF WellFormed
<1> HIDE DEF L
<1>3. /\ D(1) = 0 /\ \A n \in 1 .. Len(script) + 1 : D(n) \in Int
      /\ \A n \in 1 .. Len(script) :
           D(n + 1) = D(n) + (IF Kind(script, n) = "for" THEN 1 ELSE 0) - (IF Kind(script, n) = "end" THEN 1 ELSE 0)
  BY StackIs, DepthIs DEF D
<1>4. \A n \in 1 .. L : n \in 1 .. L + 1 /\ n \in 1 .. Len(script) /\ n \in 1 .. Len(script) + 1
  BY <1>1
<1>5. L + 1 \in 1 .. L + 1 /\ \A n \in 1 .. L + 1 : n \in 1 .. L \/ n = L + 1
  BY <1>1
<1>6. D(L + 1) = 0
  BY <1>1, <1>2, <1>5
<1>7. ASSUME NEW n \in 1 .. L PROVE D(n) \in Nat /\ (Kind(script, n) = "end" => D(n) >= 1)
  <2>1. D(n) \in Int /\ Depth(Text, n) = D(n) /\ Kind(Text, n) = Kind(script, n) /\ n \in DOMAIN Text
    BY <1>1, <1>3, <1>4
  <2>2. D(n) >= IF Kind(script, n) = "end" THEN 1 ELSE 0
    BY <1>2, <2>1
  <2> QED BY <2>1, <2>2
<1>8. \A n \in 1 .. L + 1 : D(n) \in Nat
  BY <1>5, <1>6, <1>7
<1>9. ASSUME NEW n \in 1 .. L
      PROVE  /\ D(n + 1) = D(n) + (IF Kind(script, n) = "for" THEN 1 ELSE 0) - (IF Kind(script, n) = "end" THEN 1 ELSE 0)
             /\ Kind(script, n) # "bad"
             /\ Kind(script, n) \in Menus => n < L /\ Kind(script, n + 1) \in {"choice", "for"}
  <2>1. Kind(Text, n) = Kind(script, n) /\ n \in DOMAIN Text /\ (n < L => Kind(Text, n + 1) = Kind(script, n + 1))
    <3>1. n < L => n + 1 \in 1 .. L
      BY <1>1
    <3> QED BY <1>1, <3>1
  <2>2. Kind(script, n) # "bad"
    BY <1>2, <2>1 DEF LinesOf
  <2> QED BY <1>2, <1>3, <1>4, <2>1, <2>2
<1>10. ASSUME NEW n \in 1 .. L, Kind(script, n) = "for"
       PROVE  /\ n > 1 /\ Kind(script, n - 1) \in {"choice", "end"}
              /\ n < L /\ Kind(script, n + 1) # "end"
              /\ LET m == MenuAt(Text, n)
                 IN  Cardinality(Answers(Text, m)) <= Cardinality(Run(Text, m, Menus) \cap LinesOf(Text, "choice"))
  <2>1. n \in LinesOf(Text, "for")
    BY <1>1, <1>10 DEF LinesOf
  <2>2. D(n + 1) = D(n) + 1
    <3>1. D(n) \in Nat
      BY <1>7
    <3>2. D(n + 1) = D(n) + 1 - 0
      BY <1>9, <1>10
    <3> QED BY <3>1, <3>2
  <2>3. n # L
    BY <1>6, <1>7, <2>2
  <2>4. n < L /\ n + 1 \in 1 .. L
    BY <1>1, <2>3
  <2>5. n > 1
    BY <1>2, <2>1
  <2>6. n - 1 \in 1 .. L
    BY <1>1, <2>5
  <2> QED BY <1>1, <1>2, <2>1, <2>4, <2>5, <2>6
<1>11. /\ \A n \in 1 .. L + 1 : D(n) \in Nat
       /\ D(1) = 0 /\ D(L + 1) = 0
       /\ \A n \in 1 .. L :
            /\ D(n + 1) = D(n) + (IF Kind(script, n) = "for" THEN 1 ELSE 0) - (IF Kind(script, n) = "end" THEN 1 ELSE 0)
            /\ Kind(script, n) # "bad" /\ (Kind(script, n) = "end" => D(n) >= 1)
            /\ Kind(script, n) \in Menus => n < L /\ Kind(script, n + 1) \in {"choice", "for"}
            /\ Kind(script, n) = "for" =>
                 /\ n > 1 /\ Kind(script, n - 1) \in {"choice", "end"}
                 /\ n < L /\ Kind(script, n + 1) # "end"
                 /\ LET m == MenuAt(Text, n)
                    IN  Cardinality(Answers(Text, m)) <= Cardinality(Run(Text, m, Menus) \cap LinesOf(Text, "choice"))
  BY <1>3, <1>6, <1>7, <1>8, <1>9, <1>10
<1> QED BY <1>11 DEF Tidy, L

(* The block that a line is in. *)
LEMMA OpenerOf ==
  ASSUME TypeOK, Tidy, NEW n \in 1 .. Len(Text) + 1, n \in 1 .. Len(script), NEW b \in 0 .. n - 1,
         b = 0 => D(n) = 0,
         b # 0 => Kind(script, b) = "for" /\ D(b) < D(n) /\ \A k \in b + 1 .. n - 1 : D(k) >= D(n)
  PROVE  Opener(script, n) = b
<1> DEFINE S == {0} \cup {f \in LinesOf(script, "for") : f < n /\ Depth(script, f) < Depth(script, n)}
<1>1. Len(Text) \in Nat /\ Len(Text) <= Len(script) /\ Len(script) \in Nat /\ DOMAIN script = 1 .. Len(script)
  BY TextIs, StackIs
<1>2. \A k \in 1 .. n : D(k) \in Nat
  BY <1>1 DEF Tidy
<1>3. \A f : f \in S <=> f = 0 \/ (f \in 1 .. Len(script) /\ Kind(script, f) = "for" /\ f < n /\ D(f) < D(n))
  BY <1>1 DEF LinesOf, D
<1>4. Opener(script, n) = Max(S)
  BY DEF Opener
<1> HIDE DEF S
<1>5. S \in SUBSET Int
  BY <1>1, <1>3
<1>6. b \in S
  BY <1>1, <1>3
<1>7. ASSUME NEW f \in S, f > b PROVE FALSE
  <2>1. f \in 1 .. n - 1 /\ Kind(script, f) = "for" /\ D(f) < D(n) /\ f \in 1 .. n /\ n \in 1 .. n
    BY <1>1, <1>3, <1>7
  <2>2. D(f) \in Nat /\ D(n) \in Nat
    BY <1>2, <2>1
  <2>3. CASE b = 0
    BY <2>1, <2>2, <2>3
  <2>4. CASE b # 0
    <3>1. f \in b + 1 .. n - 1
      BY <1>7, <2>1
    <3>2. D(f) >= D(n)
      BY <2>4, <3>1
    <3> QED BY <2>1, <2>2, <3>2
  <2> QED BY <2>3, <2>4
<1>8. \A f \in S : b >= f
  BY <1>1, <1>5, <1>6, <1>7
<1> QED BY <1>4, <1>5, <1>6, <1>8, MaxIs

(* The menu that a for answers. *)
LEMMA AnswersMenu ==
  ASSUME TypeOK, Tidy, NEW f \in 1 .. Len(Text), Kind(script, f) = "for", NEW m \in 1 .. f - 1,
         Kind(script, m) \in Menus, m > 1 => Kind(script, m - 1) \notin Menus, D(m) = D(f),
         \A k \in m + 1 .. f - 1 : Kind(script, k) \in Menus /\ D(k) = D(m) => Kind(script, k - 1) \in Menus
  PROVE  MenuAt(Text, f) = m /\ f \in Answers(Text, m)
<1> DEFINE S == {k \in 1 .. f - 1 : /\ Kind(Text, k) \in Menus
                                    /\ k > 1 => Kind(Text, k - 1) \notin Menus
                                    /\ Depth(Text, k) = Depth(Text, f)}
<1>1. /\ Len(Text) \in Nat /\ DOMAIN Text = 1 .. Len(Text)
      /\ \A n \in 1 .. Len(Text) : Kind(Text, n) = Kind(script, n)
      /\ \A n \in 1 .. Len(Text) + 1 : Depth(Text, n) = D(n)
  BY TextIs
<1>2. \A k \in 1 .. f : Kind(Text, k) = Kind(script, k) /\ Depth(Text, k) = D(k)
  BY <1>1
<1>3. ASSUME NEW k \in 1 .. f - 1
      PROVE  /\ Kind(Text, k) = Kind(script, k) /\ Depth(Text, k) = D(k) /\ Depth(Text, f) = D(f)
             /\ k > 1 => Kind(Text, k - 1) = Kind(script, k - 1)
  <2>1. k \in 1 .. f /\ f \in 1 .. f /\ (k > 1 => k - 1 \in 1 .. f)
    OBVIOUS
  <2> QED BY <1>2, <2>1
<1>4. \A k \in 1 .. f - 1 : k \in S <=> Kind(script, k) \in Menus /\ (k > 1 => Kind(script, k - 1) \notin Menus) /\ D(k) = D(f)
  BY <1>3
<1>5. S \in SUBSET Int /\ S \subseteq 1 .. f - 1 /\ MenuAt(Text, f) = Max(S)
  BY DEF MenuAt
<1> HIDE DEF S
<1>6. m \in S
  BY <1>4
<1>7. ASSUME NEW k \in S, k > m PROVE FALSE
  <2>1. k \in m + 1 .. f - 1 /\ k > 1 /\ k \in 1 .. f - 1
    BY <1>5, <1>7
  <2> QED BY <1>4, <1>7, <2>1
<1>8. \A k \in S : m >= k
  BY <1>5, <1>7
<1>9. MenuAt(Text, f) = m
  BY <1>5, <1>6, <1>8, MaxIs
<1>10. f \in LinesOf(Text, "for") /\ f > m
  BY <1>1 DEF LinesOf
<1> QED BY <1>9, <1>10 DEF Answers

(* The lines of a menu before its first block. *)
LEMMA RunOf ==
  ASSUME TypeOK, NEW h \in 1 .. Len(Text), NEW m \in 1 .. h - 1, Kind(script, h) \notin Menus,
         \A k \in m .. h - 1 : Kind(script, k) \in Menus
  PROVE  Run(Text, m, Menus) = m .. h - 1 /\ Cardinality(Run(Text, m, Menus)) = h - m
<1>1. Len(Text) \in Nat /\ \A n \in 1 .. Len(Text) : Kind(Text, n) = Kind(script, n)
  BY TextIs
<1>2. \A k \in m .. h : Kind(Text, k) = Kind(script, k)
  BY <1>1
<1>3. ASSUME NEW c \in m .. Len(Text) PROVE c \in m .. h - 1 <=> \A k \in m .. c : Kind(Text, k) \in Menus
  <2>1. CASE c \in m .. h - 1
    <3>1. \A k \in m .. c : k \in m .. h - 1 /\ k \in m .. h
      BY <2>1
    <3> QED BY <1>2, <2>1, <3>1
  <2>2. CASE c \notin m .. h - 1
    <3>1. h \in m .. c /\ h \in m .. h
      BY <1>1, <2>2
    <3> QED BY <1>2, <2>2, <3>1
  <2> QED BY <2>1, <2>2
<1>4. \A c \in m .. h - 1 : c \in m .. Len(Text)
  BY <1>1
<1>5. Run(Text, m, Menus) = m .. h - 1
  BY <1>3, <1>4 DEF Run
<1>6. Cardinality(m .. h - 1) = (h - 1) - m + 1
  <2>1. m \in Int /\ h - 1 \in Int /\ ~(m > h - 1)
    OBVIOUS
  <2> QED BY <2>1, FS_Interval
<1> QED BY <1>5, <1>6

(* Not more blocks answer a menu than it has lines. *)
LEMMA AnswersFew ==
  ASSUME TypeOK, Tidy, NEW f \in 1 .. Len(Text), Kind(script, f) = "for", NEW m \in 1 .. Len(Text), MenuAt(Text, f) = m
  PROVE  /\ IsFiniteSet(Answers(Text, m)) /\ Cardinality(Answers(Text, m)) <= Cardinality(Run(Text, m, Menus))
         /\ Cardinality(Run(Text, m, Menus)) \in Nat
<1>1. Len(Text) \in Nat /\ DOMAIN Text = 1 .. Len(Text)
  BY TextIs
<1>2. Cardinality(Answers(Text, m)) <= Cardinality(Run(Text, m, Menus) \cap LinesOf(Text, "choice"))
  BY DEF Tidy
<1>3. IsFiniteSet(1 .. Len(Text)) /\ IsFiniteSet(m .. Len(Text))
  BY <1>1, FS_Interval
<1>4. IsFiniteSet(Run(Text, m, Menus))
  BY <1>3, FS_Subset DEF Run
<1>5. IsFiniteSet(Answers(Text, m))
  BY <1>1, <1>3, FS_Subset DEF Answers, LinesOf
<1>6. /\ Cardinality(Run(Text, m, Menus) \cap LinesOf(Text, "choice")) <= Cardinality(Run(Text, m, Menus))
      /\ IsFiniteSet(Run(Text, m, Menus) \cap LinesOf(Text, "choice"))
  BY <1>4, FS_Subset
<1>7. /\ Cardinality(Run(Text, m, Menus)) \in Nat /\ Cardinality(Answers(Text, m)) \in Nat
      /\ Cardinality(Run(Text, m, Menus) \cap LinesOf(Text, "choice")) \in Nat
  BY <1>4, <1>5, <1>6, FS_CardinalityType
<1> QED BY <1>2, <1>5, <1>6, <1>7

-----------------------------------------------------------------------------
(* The reader's loops and the author's blocks.                                 *)

(* How deep the lines are that frame i reads. *)
DepthIn(i) ==
  IF i = 1 THEN 0 ELSE D(stack[i].of) + IF IsLoop(stack[i]) THEN 1 ELSE 0

(* The open loops are the blocks that this line is in. *)
LevelAt(i) ==
  /\ i > 1 => /\ D(stack[i].of) = DepthIn(i - 1)
              /\ IF IsLoop(stack[i]) THEN Kind(script, stack[i].of) = "for" ELSE Opener(script, stack[i].of) = stack[i - 1].of
  /\ IsLoop(stack[i]) => \A k \in stack[i].of + 1 .. Here - 1 : D(k) >= DepthIn(i)
Levels ==
  /\ Here <= Len(Text) + 1
  /\ D(Here) = DepthIn(Len(stack))
  /\ \A i \in 1 .. Len(stack) : LevelAt(i)

(* What the innermost loop has seen last and may see next. *)
Expected ==
  /\ IsLoop(stack[Len(stack)]) /\ Here <= Len(Text) => Kind(script, Here) # "for"
  /\ Here > 1 /\ Kind(script, Here - 1) \in Menus => stack[Len(stack)].at = "choice"
  /\ stack[Len(stack)].at = "say" => Here > 1 /\ Kind(script, Here - 1) = "say"
  /\ stack[Len(stack)].at = "first" => Here = stack[Len(stack)].of + 1
  /\ stack[1].at = "next" => Here > 1

(* An open menu is the one which the next block at its depth answers, and has  *)
(* as many blocks to read as it may have. *)
HeadOf(m) ==
  /\ Kind(script, m) \in Menus /\ (m > 1 => Kind(script, m - 1) \notin Menus)
  /\ \A k \in m + 1 .. Here - 1 : Kind(script, k) \in Menus /\ D(k) = D(m) => Kind(script, k - 1) \in Menus
Blocked(i) ==
  LET m == stack[i].of
  IN  /\ stack[i].at = "choice" => blocks[m] = <<>>
      /\ IF i = Len(stack) /\ stack[i].at = "choice"
         THEN stack[i].left = Here - m /\ \A k \in m .. Here - 1 : Kind(script, k) \in Menus
         ELSE stack[i].left + Len(blocks[m]) = Cardinality(Run(Text, m, Menus))
      /\ ToSet(blocks[m]) \subseteq Answers(Text, m)
      /\ Cardinality(ToSet(blocks[m])) = Len(blocks[m])
OpenMenu(i) == HeadOf(stack[i].of) /\ Blocked(i)
Consuming(i) == ~IsLoop(stack[i]) /\ stack[i].at # "say"

Placed == \A b \in Owners : \A n \in Within(b) : Opener(script, n) = b

(* What is known before a step in a script that is well formed. *)
Known(c) ==
  /\ Step(c) /\ Tidy /\ Levels /\ Expected /\ Untouched
  /\ \A i \in 1 .. Len(stack) : Consuming(i) => OpenMenu(i)

(* The lines that are open are in the text. *)
LEMMA KnownHas ==
  ASSUME NEW c, Known(c)
  PROVE  /\ N \in Nat /\ N >= 1 /\ N \in 1 .. N /\ Len(stack) = N /\ Len(Text) \in Nat /\ Len(Text) <= Len(script) /\ Len(script) \in Nat
         /\ Here \in Nat /\ Here >= 1 /\ Here <= Len(Text) + 1 /\ Here <= Len(script) + 1 /\ Here \in 1 .. Len(Text) + 1
         /\ D(Here) = DepthIn(N) /\ D(Here) \in Nat
         /\ \A n \in 1 .. Len(Text) + 1 : D(n) \in Nat
         /\ \A i \in 1 .. N : /\ stack[i].of \in Nat /\ stack[i].of < Here
                              /\ i > 1 => stack[i].of \in 1 .. Len(Text) /\ stack[i].of \in 1 .. Len(Text) + 1 /\ stack[i].of \in Lines
                                          /\ D(stack[i].of) \in Nat
                              /\ DepthIn(i) \in Nat
         /\ (c = 0 <=> Here = Len(script) + 1) /\ (c # 0 => c = Here /\ c \in Lines)
         /\ \A i \in 1 .. N : LevelAt(i)
<1>1. Step(c) /\ Tidy /\ Levels
  BY DEF Known
<1>2. /\ N \in Nat /\ N >= 1 /\ Len(stack) = N /\ Here \in 1 .. Len(script) + 1 /\ Len(script) \in Nat
      /\ \A i \in 1 .. N : stack[i].of \in 0 .. Len(script)
      /\ (c = 0 <=> Here = Len(script) + 1) /\ (c # 0 => c = Here /\ c \in Lines)
  BY <1>1, StepHas
<1>3. Len(Text) \in Nat /\ Len(Text) <= Len(script)
  BY <1>1, TextIs DEF Step
<1>4. Here <= Len(Text) + 1 /\ D(Here) = DepthIn(N) /\ \A i \in 1 .. N : LevelAt(i)
  BY <1>1, <1>2 DEF Levels
<1>5. Here \in Nat /\ Here >= 1 /\ Here \in 1 .. Len(Text) + 1
  BY <1>2, <1>3, <1>4
<1>6. \A n \in 1 .. Len(Text) + 1 : D(n) \in Nat
  BY <1>1 DEF Tidy
<1>7. ASSUME NEW i \in 1 .. N
      PROVE  /\ stack[i].of \in Nat /\ stack[i].of < Here
             /\ i > 1 => stack[i].of \in 1 .. Len(Text) /\ stack[i].of \in 1 .. Len(Text) + 1 /\ stack[i].of \in Lines
                         /\ D(stack[i].of) \in Nat
             /\ DepthIn(i) \in Nat
  <2>0. stack[i].of < Here /\ (i > 1 => stack[i].of # 0)
    BY <1>1, <1>2 DEF Step, Nested
  <2>1. stack[i].of < Here /\ (i > 1 => stack[i].of # 0) /\ stack[i].of \in Nat
    BY <1>2, <2>0
  <2>2. i > 1 => stack[i].of \in 1 .. Len(Text) /\ stack[i].of \in 1 .. Len(Text) + 1 /\ stack[i].of \in Lines
    BY <1>2, <1>3, <1>4, <1>5, <2>1 DEF Lines
  <2>3. i > 1 => D(stack[i].of) \in Nat
    BY <1>6, <2>2
  <2>4. DepthIn(i) \in Nat
    <3>1. CASE i = 1
      BY <3>1 DEF DepthIn
    <3>2. CASE i # 1
      <4>1. D(stack[i].of) \in Nat /\ D(stack[i].of) + 1 \in Nat /\ D(stack[i].of) + 0 \in Nat
        BY <1>2, <2>3, <3>2
      <4> QED BY <3>2, <4>1 DEF DepthIn
    <3> QED BY <3>1, <3>2
  <2> QED BY <2>1, <2>2, <2>3, <2>4
<1>8. N \in 1 .. N /\ Here <= Len(script) + 1 /\ D(Here) \in Nat
  BY <1>2, <1>5, <1>6
<1> QED BY <1>2, <1>3, <1>4, <1>5, <1>6, <1>7, <1>8

(* This line is as deep as any loop that is open, and deeper than the menus    *)
(* that loops have been called from. *)
LEMMA Deepest ==
  ASSUME NEW c, Known(c), NEW i \in 1 .. N
  PROVE  /\ IsLoop(stack[i]) => D(Here) >= DepthIn(i)
         /\ ~IsLoop(stack[i]) => DepthIn(i) = D(stack[i].of)
         /\ ~IsLoop(stack[i]) /\ i < N => D(Here) > D(stack[i].of)
<1>1. /\ N \in Nat /\ N >= 1 /\ N \in 1 .. N /\ Len(stack) = N /\ Here \in Nat /\ D(Here) = DepthIn(N) /\ D(Here) \in Nat
      /\ \A j \in 1 .. N : LevelAt(j) /\ stack[j].of \in Nat /\ stack[j].of < Here /\ DepthIn(j) \in Nat /\ (j > 1 => D(stack[j].of) \in Nat)
  BY KnownHas
<1>2. ASSUME NEW j \in 1 .. N, IsLoop(stack[j]) PROVE D(Here) >= DepthIn(j)
  <2>1. CASE j = N
    BY <1>1, <2>1
  <2>2. CASE j # N
    <3>1. j < N /\ N > 1
      BY <1>1, <2>2
    <3>2. stack[j].of < stack[N].of
      BY <1>1, <3>1, CallsGrow DEF Known
    <3>3. stack[N].of \in stack[j].of + 1 .. Here - 1
      BY <1>1, <3>2
    <3>4. D(stack[N].of) >= DepthIn(j)
      BY <1>1, <1>2, <3>3 DEF LevelAt
    <3>5. DepthIn(N) = D(stack[N].of) + IF IsLoop(stack[N]) THEN 1 ELSE 0
      BY <1>1, <3>1 DEF DepthIn
    <3>6. DepthIn(N) >= D(stack[N].of)
      BY <1>1, <3>1, <3>5
    <3> QED BY <1>1, <3>1, <3>4, <3>6
  <2> QED BY <2>1, <2>2
<1>3. ASSUME ~IsLoop(stack[i]) PROVE DepthIn(i) = D(stack[i].of) /\ i # 1
  <2>1. i # 1
    BY <1>1, <1>3 DEF Known, Step, Nested
  <2>2. D(stack[i].of) \in Nat
    BY <1>1, <2>1
  <2>3. D(stack[i].of) + 0 = D(stack[i].of)
    BY <2>2
  <2> QED BY <1>3, <2>1, <2>3 DEF DepthIn
<1>4. ASSUME ~IsLoop(stack[i]), i < N PROVE D(Here) > D(stack[i].of)
  <2>1. i + 1 \in 1 .. N /\ i + 1 > 1 /\ (i + 1) - 1 = i
    BY <1>1, <1>4
  <2>2. IsLoop(stack[i + 1])
    <3>1. IsLoop(stack[i + 1]) <=> ~IsLoop(stack[(i + 1) - 1])
      BY <1>1, <2>1 DEF Known, Step, Nested
    <3> QED BY <1>4, <2>1, <3>1
  <2>3. D(stack[i + 1].of) = DepthIn(i)
    BY <1>1, <2>1 DEF LevelAt
  <2>4. DepthIn(i + 1) = D(stack[i + 1].of) + 1
    BY <2>1, <2>2 DEF DepthIn
  <2>5. D(Here) >= DepthIn(i + 1)
    BY <1>2, <2>1, <2>2
  <2>6. DepthIn(i) = D(stack[i].of) /\ DepthIn(i) \in Nat
    BY <1>1, <1>3, <1>4
  <2> QED BY <1>1, <2>3, <2>4, <2>5, <2>6
<1> QED BY <1>2, <1>3, <1>4

(* What is read beyond the text is the blank line that ends it. *)
LEMMA BeyondText ==
  ASSUME NEW c, Known(c), c # 0, ~(c <= Len(Text))
  PROVE  /\ Kind(script, c) = "noop" /\ D(c) = 0 /\ onlyOneProc /\ c = Len(Text) + 1 /\ c > 1
         /\ IsLoop(stack[N]) => N = 1 /\ ShouldStop(c)
<1>1. /\ N \in Nat /\ N >= 1 /\ N \in 1 .. N /\ Len(stack) = N /\ Len(Text) \in Nat /\ Here \in Nat /\ Here <= Len(Text) + 1
      /\ c = Here /\ c \in Lines /\ D(Here) = DepthIn(N) /\ Len(script) \in Nat /\ (N > 1 => D(stack[N].of) \in Nat) /\ LevelAt(N)
  BY KnownHas
<1>2. c = Len(Text) + 1 /\ Len(Text) # Len(script)
  BY <1>1 DEF Lines
<1>3. Kind(script, c) = "noop" /\ D(c) = 0 /\ onlyOneProc /\ c \in 2 .. Len(script)
  BY <1>2, TextIs DEF Known, Step
<1>4. c > 1
  BY <1>3
<1>5. ASSUME IsLoop(stack[N]) PROVE N = 1 /\ ShouldStop(c)
  <2>1. N = 1
    <3>1. ASSUME N > 1 PROVE FALSE
      <4>1. DepthIn(N) = D(stack[N].of) + 1
        BY <1>5, <3>1 DEF DepthIn
      <4> QED BY <1>1, <1>3, <3>1, <4>1
    <3> QED BY <1>1, <3>1
  <2>2. stack[N].of = 0
    BY <1>1, <2>1 DEF Known, Step, Nested
  <2>3. stack[N].at # "first"
    <3>1. stack[N].at = "first" => Here = 0 + 1
      BY <1>1, <2>2 DEF Known, Expected
    <3> QED BY <1>1, <1>4, <3>1
  <2>4. Top = stack[N] /\ Top.at = "next"
    BY <1>1, <1>5, <2>3 DEF Top, Last, IsLoop
  <2> QED BY <1>2, <1>3, <2>1, <2>2, <2>4 DEF ShouldStop, Is
<1> QED BY <1>2, <1>3, <1>4, <1>5

(* A line that a loop goes on with is in the loop's block. *)
LEMMA InBlock ==
  ASSUME NEW c, Known(c), c # 0, IsLoop(stack[N]), ~ShouldStop(c)
  PROVE  /\ c \in 1 .. Len(Text) /\ c = Here /\ Opener(script, c) = stack[N].of
         /\ Kind(script, c) \notin {"for", "end"} /\ D(c + 1) = D(c)
<1>1. /\ N \in Nat /\ N >= 1 /\ N \in 1 .. N /\ Len(stack) = N /\ Len(Text) \in Nat /\ Here \in Nat /\ Here <= Len(Text) + 1
      /\ c = Here /\ c \in Lines /\ D(Here) = DepthIn(N) /\ D(Here) \in Nat /\ Len(script) \in Nat /\ LevelAt(N)
      /\ stack[N].of \in Nat /\ stack[N].of < Here /\ (N > 1 => D(stack[N].of) \in Nat /\ stack[N].of \in 1 .. Len(Text))
      /\ Len(Text) <= Len(script)
  BY KnownHas
<1>2. c \in 1 .. Len(Text)
  <2>1. c <= Len(Text)
    BY BeyondText
  <2> QED BY <1>1, <2>1 DEF Lines
<1>3. TypeOK /\ Tidy
  BY DEF Known, Step
<1>4. (N = 1 <=> stack[N].of = 0) /\ (N = 1 => DepthIn(N) = 0) /\ (N > 1 => DepthIn(N) = D(stack[N].of) + 1)
  <2>1. (N = 1 => stack[N].of = 0) /\ (N > 1 => stack[N].of # 0)
    BY <1>1 DEF Known, Step, Nested
  <2> QED BY <1>1, <2>1 DEF DepthIn
<1>5. Opener(script, c) = stack[N].of
  <2> DEFINE b == stack[N].of
  <2>1. b \in 0 .. c - 1 /\ c \in 1 .. Len(Text) + 1 /\ c \in 1 .. Len(script)
    BY <1>1, <1>2
  <2>2. b = 0 => D(c) = 0
    BY <1>1, <1>4
  <2>3. b # 0 => Kind(script, b) = "for" /\ D(b) < D(c) /\ \A k \in b + 1 .. c - 1 : D(k) >= D(c)
    <3>1. ASSUME b # 0 PROVE Kind(script, b) = "for" /\ D(b) < D(c) /\ \A k \in b + 1 .. c - 1 : D(k) >= D(c)
      <4>1. N > 1
        BY <1>1, <1>4, <3>1
      <4>2. D(c) = D(b) + 1 /\ D(b) \in Nat /\ D(c) = DepthIn(N)
        BY <1>1, <1>4, <4>1
      <4>3. Kind(script, b) = "for" /\ \A k \in b + 1 .. c - 1 : D(k) >= D(c)
        BY <1>1, <4>1, <4>2 DEF LevelAt
      <4>4. D(b) < D(c)
        BY <4>2
      <4> QED BY <4>3, <4>4
    <3> QED BY <3>1
  <2> HIDE DEF b
  <2>4. Opener(script, c) = b
    BY <1>3, <2>1, <2>2, <2>3, OpenerOf
  <2> QED BY <2>4 DEF b
<1>6. Kind(script, c) # "for"
  BY <1>1, <1>2 DEF Known, Expected
<1>7. Kind(script, c) # "end"
  <2> SUFFICES ASSUME Kind(script, c) = "end" PROVE FALSE
    OBVIOUS
  <2>1. D(c) >= 1
    BY <1>2, <1>3 DEF Tidy
  <2>2. N > 1 /\ stack[N].of # 0
    BY <1>1, <1>4, <2>1
  <2>3. Top = stack[N]
    BY <1>1 DEF Top, Last
  <2>4. stack[N].at # "next"
    <3>1. ASSUME stack[N].at = "next" PROVE FALSE
      <4>1. ShouldStop(c)
        BY <2>2, <2>3, <3>1 DEF ShouldStop, Is
      <4> QED BY <4>1
    <3> QED BY <3>1
  <2>5. stack[N].at = "first"
    BY <2>4 DEF IsLoop
  <2>6. c = stack[N].of + 1
    BY <1>1, <2>5 DEF Known, Expected
  <2>7. Kind(script, stack[N].of) = "for"
    BY <1>1, <2>2 DEF LevelAt
  <2>8. Kind(script, stack[N].of + 1) # "end"
    BY <1>1, <1>3, <2>2, <2>7 DEF Tidy
  <2> QED BY <2>6, <2>8
<1>8. D(c + 1) = D(c)
  <2>1. D(c + 1) = D(c) + 0 - 0
    BY <1>2, <1>3, <1>6, <1>7 DEF Tidy
  <2> QED BY <1>1, <2>1
<1> QED BY <1>1, <1>2, <1>5, <1>6, <1>7, <1>8

(* A step changes neither the text nor its depths. *)
LEMMA TextKept ==
  ASSUME Rest
  PROVE  Text' = Text /\ (\A n : D(n)' = D(n)) /\ Lines' = Lines
BY DEF Rest, Text, D, Lines

(* The levels of the loops that a step leaves open. *)
LEMMA LevelsKept ==
  ASSUME NEW c, Known(c), NEW k \in 1 .. N, k <= Len(stack'), Len(stack') \in Nat, Here' = Here \/ Here' = Here + 1,
         \A i \in 1 .. k : stack'[i].of = stack[i].of /\ (IsLoop(stack'[i]) <=> IsLoop(stack[i]))
  PROVE  \A i \in 1 .. k : DepthIn(i)' = DepthIn(i) /\ LevelAt(i)'
<1>1. Rest /\ script' = script
  BY DEF Known, Step, Rest
<1>2. Text' = Text /\ \A n : D(n)' = D(n)
  BY <1>1, TextKept
<1>3. N \in Nat /\ Here \in Nat /\ \A i \in 1 .. N : LevelAt(i) /\ stack[i].of \in Nat
  BY KnownHas
<1>4. ASSUME NEW i \in 1 .. k PROVE DepthIn(i)' = DepthIn(i)
  BY <1>2 DEF DepthIn
<1>5. ASSUME NEW i \in 1 .. k PROVE LevelAt(i)'
  <2>1. i \in 1 .. N /\ (i > 1 => i - 1 \in 1 .. k) /\ LevelAt(i)
    BY <1>3
  <2>2. i > 1 => /\ Depth(script', stack'[i].of) = DepthIn(i - 1)'
                 /\ IF IsLoop(stack'[i]) THEN Kind(script', stack'[i].of) = "for" ELSE Opener(script', stack'[i].of) = stack'[i - 1].of
    <3>1. ASSUME i > 1
          PROVE  /\ Depth(script', stack'[i].of) = DepthIn(i - 1)'
                 /\ IF IsLoop(stack'[i]) THEN Kind(script', stack'[i].of) = "for" ELSE Opener(script', stack'[i].of) = stack'[i - 1].of
      <4>1. DepthIn(i - 1)' = DepthIn(i - 1) /\ stack'[i - 1].of = stack[i - 1].of /\ stack'[i].of = stack[i].of /\ (IsLoop(stack'[i]) <=> IsLoop(stack[i]))
        BY <1>4, <2>1, <3>1
      <4>2. /\ D(stack[i].of) = DepthIn(i - 1)
            /\ IF IsLoop(stack[i]) THEN Kind(script, stack[i].of) = "for" ELSE Opener(script, stack[i].of) = stack[i - 1].of
        BY <2>1, <3>1 DEF LevelAt
      <4> QED BY <1>1, <4>1, <4>2 DEF D
    <3> QED BY <3>1
  <2>3. IsLoop(stack'[i]) => \A h \in stack'[i].of + 1 .. Here' - 1 : D(h)' >= DepthIn(i)'
    <3> SUFFICES ASSUME IsLoop(stack[i]), NEW h \in stack[i].of + 1 .. Here' - 1 PROVE D(h) >= DepthIn(i)
      BY <1>2, <1>4
    <3>1. h \in stack[i].of + 1 .. Here - 1 \/ h = Here
      BY <1>3, <2>1
    <3>2. D(Here) >= DepthIn(i)
      BY <2>1, Deepest
    <3> QED BY <2>1, <3>1, <3>2 DEF LevelAt
  <2> QED BY <2>2, <2>3 DEF LevelAt, D
<1> QED BY <1>4, <1>5

(* A menu stays the one that is answered. *)
LEMMA HeadKept ==
  ASSUME NEW c, Known(c), NEW m \in Nat, HeadOf(m),
         Here' = Here \/ (Here' = Here + 1 /\ (Kind(script, Here) \in Menus /\ D(Here) = D(m) => Kind(script, Here - 1) \in Menus))
  PROVE  HeadOf(m)'
<1>1. Rest /\ script' = script
  BY DEF Known, Step, Rest
<1>2. \A n : D(n)' = D(n)
  BY <1>1, TextKept
<1>3. Here \in Nat
  BY KnownHas
<1>4. ASSUME NEW k \in m + 1 .. Here' - 1, Kind(script, k) \in Menus, D(k) = D(m) PROVE Kind(script, k - 1) \in Menus
  <2>1. k \in m + 1 .. Here - 1 \/ (k = Here /\ Here' # Here)
    BY <1>3
  <2> QED BY <1>4, <2>1 DEF HeadOf
<1> QED BY <1>1, <1>2, <1>4 DEF HeadOf

(* Menus below the innermost loop stay as they are. *)
LEMMA MenuKept ==
  ASSUME NEW c, Known(c), NEW i \in 1 .. N, i < N, i < Len(stack'), Len(stack') \in Nat, Here' = Here \/ Here' = Here + 1,
         stack'[i] = stack[i], Consuming(i), blocks'[stack[i].of] = blocks[stack[i].of]
  PROVE  OpenMenu(i)'
<1>1. Rest /\ script' = script /\ Len(stack) = N /\ N \in Nat /\ stack[i].of \in Nat /\ D(Here) \in Nat
  BY KnownHas DEF Known, Step, Rest
<1>2. OpenMenu(i)
  BY <1>1 DEF Known
<1>3. Text' = Text
  BY <1>1, TextKept
<1>4. D(Here) > D(stack[i].of) /\ D(stack[i].of) \in Nat
  <2>1. i # 1
    BY <1>1 DEF Known, Step, Nested, Consuming
  <2> QED BY <2>1, <1>1, Deepest, KnownHas DEF Consuming
<1>5. D(Here) # D(stack[i].of)
  BY <1>1, <1>4
<1>6. HeadOf(stack[i].of)'
  <2>1. PICK m \in Nat : m = stack[i].of
    BY <1>1
  <2>2. HeadOf(m)'
    BY <1>2, <1>5, <2>1, HeadKept DEF OpenMenu
  <2> QED BY <2>1, <2>2 DEF HeadOf
<1>7. Blocked(i)'
  <2>1. i # Len(stack) /\ i # Len(stack')
    BY <1>1
  <2>2. Blocked(i)
    BY <1>2 DEF OpenMenu
  <2> QED BY <1>3, <2>1, <2>2 DEF Blocked
<1> QED BY <1>6, <1>7 DEF OpenMenu, HeadOf

(* The three parts together. *)
Tracking == Levels /\ Expected /\ \A i \in 1 .. Len(stack) : Consuming(i) => OpenMenu(i)

(* An instruction was added. *)
LEMMA PlainTracks ==
  ASSUME NEW c, Known(c), Plain(c)
  PROVE  Tracking' /\ Opener(script, c) = stack[N].of
<1>1. /\ N \in Nat /\ N >= 1 /\ N \in 1 .. N /\ Len(stack) = N /\ Len(Text) \in Nat /\ Here \in Nat /\ D(Here) = DepthIn(N)
  BY KnownHas
<1>2. Step(c) /\ Rest /\ script' = script /\ Tidy
  BY DEF Known, Step, Rest
<1>3. /\ Len(stack') = N /\ \A i \in 1 .. N - 1 : stack'[i] = stack[i]
      /\ stack'[N].of = stack[N].of /\ stack'[N].at = "next"
  BY <1>2, PlainStack
<1>4. Here' = Here + 1 /\ c # 0 /\ IsLoop(stack[N]) /\ ~ShouldStop(c) /\ blocks' = blocks
  BY <1>2, PlainNested DEF Plain
<1>5. /\ c \in 1 .. Len(Text) /\ c = Here /\ Opener(script, c) = stack[N].of
      /\ Kind(script, c) \notin {"for", "end"} /\ D(c + 1) = D(c)
  BY <1>4, InBlock
<1>6. Kind(script, c) \notin Menus \cup {"say"}
  BY <1>4 DEF Plain, Is
<1>7. Text' = Text /\ \A n : D(n)' = D(n)
  BY <1>2, TextKept
<1>8. \A i \in 1 .. N : stack'[i].of = stack[i].of /\ (IsLoop(stack'[i]) <=> IsLoop(stack[i]))
  <2> SUFFICES ASSUME NEW i \in 1 .. N PROVE stack'[i].of = stack[i].of /\ (IsLoop(stack'[i]) <=> IsLoop(stack[i]))
    OBVIOUS
  <2>1. i \in 1 .. N - 1 \/ i = N
    BY <1>1
  <2> QED BY <1>3, <1>4, <2>1 DEF IsLoop
<1>9. PICK k \in 1 .. N : k = N
  BY <1>1
<1>10. \A i \in 1 .. k : DepthIn(i)' = DepthIn(i) /\ LevelAt(i)'
  BY <1>1, <1>3, <1>4, <1>8, <1>9, LevelsKept
<1>11. Levels'
  <2>1. D(Here)' = D(Here')
    BY <1>2 DEF D
  <2>2. D(Here') = D(c)
    BY <1>4, <1>5
  <2>3. D(c) = DepthIn(k)' /\ k \in 1 .. k
    BY <1>1, <1>5, <1>9, <1>10
  <2>4. Here' <= Len(Text') + 1
    BY <1>1, <1>4, <1>5, <1>7
  <2> QED BY <1>3, <1>9, <1>10, <2>1, <2>2, <2>3, <2>4 DEF Levels
<1>12. Expected'
  <2>1. Here' <= Len(Text) => Kind(script, Here') # "for"
    <3> SUFFICES ASSUME Here' <= Len(Text), Kind(script, Here') = "for" PROVE FALSE
      OBVIOUS
    <3>1. Here' \in 1 .. Len(Text) /\ Here' - 1 = c
      BY <1>1, <1>4, <1>5
    <3>2. Kind(script, c) \in {"choice", "end"}
      BY <1>2, <3>1 DEF Tidy
    <3> QED BY <1>5, <1>6, <3>2 DEF Menus
  <2>2. Here' - 1 = c /\ Here' > 1
    BY <1>1, <1>4, <1>5
  <2> QED BY <1>2, <1>3, <1>6, <1>7, <2>1, <2>2 DEF Expected
<1>13. ASSUME NEW i \in 1 .. Len(stack'), Consuming(i)' PROVE OpenMenu(i)'
  <2>1. i # N
    BY <1>3, <1>13 DEF Consuming, IsLoop
  <2>2. i \in 1 .. N /\ i < N /\ i < Len(stack') /\ i \in 1 .. N - 1
    BY <1>1, <1>3, <2>1
  <2>3. Consuming(i)
    BY <1>3, <1>13, <2>2 DEF Consuming
  <2> QED BY <1>1, <1>3, <1>4, <2>2, <2>3, MenuKept
<1> QED BY <1>5, <1>11, <1>12, <1>13 DEF Tracking

(* A consumer was called. *)
LEMMA CalledTracks ==
  ASSUME NEW c, Known(c), Called(c)
  PROVE  Tracking'
<1>1. /\ N \in Nat /\ N >= 1 /\ N \in 1 .. N /\ Len(stack) = N /\ Len(Text) \in Nat /\ Here \in Nat /\ D(Here) = DepthIn(N)
      /\ D(Here) \in Nat /\ Len(script) \in Nat /\ c \in Lines
  BY KnownHas DEF Called
<1>2. Step(c) /\ Rest /\ script' = script /\ Tidy
  BY DEF Known, Step, Rest
<1>3. PICK k \in 1 .. N : k = N
  BY <1>1
<1>4. /\ Len(stack') = k + 1 /\ \A i \in 1 .. k - 1 : stack'[i] = stack[i]
      /\ stack'[k].of = stack[k].of /\ stack'[k].at = "next"
      /\ stack'[k + 1].of = c /\ stack'[k + 1].left = 1 /\ stack'[k + 1].at = (IF Is(c, {"say"}) THEN "say" ELSE "choice")
  BY <1>2, <1>3, CalledStack
<1>5. Here' = Here + 1 /\ c # 0 /\ IsLoop(stack[N]) /\ ~ShouldStop(c) /\ blocks' = blocks /\ Kind(script, c) \in {"say"} \cup Menus
  BY <1>2, CalledNested DEF Called, Is
<1>6. c \in 1 .. Len(Text) /\ c = Here /\ Opener(script, c) = stack[k].of /\ D(c + 1) = D(c)
  BY <1>3, <1>5, InBlock
<1>7. Text' = Text /\ (\A n : D(n)' = D(n))
  BY <1>2, TextKept
<1>8. \A i \in 1 .. k : stack'[i].of = stack[i].of /\ (IsLoop(stack'[i]) <=> IsLoop(stack[i]))
  <2> SUFFICES ASSUME NEW i \in 1 .. k PROVE stack'[i].of = stack[i].of /\ (IsLoop(stack'[i]) <=> IsLoop(stack[i]))
    OBVIOUS
  <2>1. i \in 1 .. k - 1 \/ i = k
    BY <1>1
  <2> QED BY <1>3, <1>4, <1>5, <2>1 DEF IsLoop
<1>9. \A i \in 1 .. k : DepthIn(i)' = DepthIn(i) /\ LevelAt(i)'
  <2>1. k <= Len(stack') /\ Len(stack') \in Nat
    BY <1>1, <1>3, <1>4
  <2> QED BY <1>5, <1>8, <2>1, LevelsKept
<1>10. ~IsLoop(stack'[k + 1]) /\ k + 1 # 1 /\ k + 1 > 1 /\ (k + 1) - 1 = k /\ k \in 1 .. k
  BY <1>1, <1>4 DEF IsLoop
<1>11. Levels'
  <2>1. D(Here)' = D(c)
    <3>1. D(Here)' = D(Here')
      BY <1>2 DEF D
    <3> QED BY <1>5, <1>6, <3>1
  <2>2. DepthIn(k + 1)' = D(c)
    <3>1. DepthIn(k + 1)' = Depth(script', stack'[k + 1].of) + 0
      BY <1>10 DEF DepthIn, D
    <3>2. Depth(script', stack'[k + 1].of) = D(c)
      BY <1>2, <1>4 DEF D
    <3> QED BY <1>1, <1>6, <3>1, <3>2
  <2>3. LevelAt(k + 1)'
    <3>1. Depth(script', stack'[k + 1].of) = D(c)
      BY <1>2, <1>4 DEF D
    <3>2. D(c) = DepthIn(k)'
      BY <1>1, <1>3, <1>6, <1>9
    <3>3. Opener(script', stack'[k + 1].of) = stack'[k].of
      BY <1>2, <1>4, <1>6
    <3> QED BY <1>10, <3>1, <3>2, <3>3 DEF LevelAt, D
  <2>4. Here' <= Len(Text') + 1
    BY <1>1, <1>5, <1>6, <1>7
  <2>5. \A i \in 1 .. k + 1 : i \in 1 .. k \/ i = k + 1
    BY <1>1
  <2>6. \A i \in 1 .. k + 1 : LevelAt(i)'
    BY <1>9, <2>3, <2>5
  <2> QED BY <1>4, <2>1, <2>2, <2>4, <2>6 DEF Levels
<1>12. Expected'
  <2>1. Here' - 1 = c /\ Here' > 1
    BY <1>1, <1>5, <1>6
  <2>2. Kind(script, c) \in Menus => stack'[k + 1].at = "choice"
    BY <1>4 DEF Is, Menus
  <2>3. stack'[k + 1].at = "say" => Kind(script, c) = "say"
    BY <1>4 DEF Is
  <2>4. stack'[k + 1].at # "first"
    BY <1>4
  <2> QED BY <1>2, <1>4, <1>10, <2>1, <2>2, <2>3, <2>4 DEF Expected
<1>13. ASSUME stack'[k + 1].at # "say" PROVE OpenMenu(k + 1)'
  <2>1. Kind(script, c) \in Menus /\ stack'[k + 1].at = "choice"
    BY <1>4, <1>5, <1>13 DEF Is
  <2>2. c > 1 => Kind(script, c - 1) \notin Menus
    BY <1>1, <1>5, <1>6 DEF Known, Expected, IsLoop
  <2>3. Here' = c + 1 /\ (c + 1) - c = 1 /\ c \in Int /\ (c + 1) - 1 = c
    BY <1>5, <1>6
  <2>4. HeadOf(c)'
    <3>1. c + 1 .. (c + 1) - 1 = {}
      BY <2>3
    <3> QED BY <1>2, <2>1, <2>2, <2>3, <3>1 DEF HeadOf
  <2>5. blocks'[c] = <<>>
    BY <1>1, <1>5, <1>6 DEF Known, Untouched
  <2>6. ToSet(<<>>) = {} /\ Len(<<>>) = 0 /\ Cardinality({}) = 0
    BY FS_EmptySet DEF ToSet
  <2>7. stack'[k + 1].left = Here' - c /\ \A n \in c .. Here' - 1 : Kind(script', n) \in Menus
    <3>1. \A n \in c .. (c + 1) - 1 : n = c
      BY <2>3
    <3> QED BY <1>2, <1>4, <2>1, <2>3, <3>1
  <2>8. ToSet(blocks'[c]) \subseteq Answers(Text', c) /\ Cardinality(ToSet(blocks'[c])) = Len(blocks'[c])
    BY <2>5, <2>6
  <2>9. Blocked(k + 1)'
    BY <1>4, <2>1, <2>5, <2>7, <2>8 DEF Blocked
  <2> QED BY <1>4, <2>4, <2>9 DEF OpenMenu, HeadOf
<1>14. ASSUME NEW i \in 1 .. Len(stack'), Consuming(i)' PROVE OpenMenu(i)'
  <2>1. i # k
    BY <1>4, <1>14 DEF Consuming, IsLoop
  <2>2. CASE i = k + 1
    BY <1>13, <1>14, <2>2 DEF Consuming
  <2>3. CASE i # k + 1
    <3>1. i \in 1 .. N /\ i < N /\ i < Len(stack') /\ i \in 1 .. k - 1 /\ Len(stack') \in Nat
      BY <1>1, <1>3, <1>4, <2>1, <2>3
    <3>2. Consuming(i)
      BY <1>4, <1>14, <3>1 DEF Consuming
    <3> QED BY <1>4, <1>5, <3>1, <3>2, MenuKept
  <2> QED BY <2>2, <2>3
<1> QED BY <1>11, <1>12, <1>14 DEF Tracking

(* A consumer took a line over. *)
LEMMA MergedTracks ==
  ASSUME NEW c, Known(c), Merged(c)
  PROVE  Tracking'
<1>1. /\ N \in Nat /\ N >= 1 /\ N \in 1 .. N /\ Len(stack) = N /\ Len(Text) \in Nat /\ Here \in Nat /\ Here >= 1 /\ D(Here) = DepthIn(N)
      /\ D(Here) \in Nat /\ Len(script) \in Nat /\ \A i \in 1 .. N : stack[i].of \in Nat /\ stack[i].of < Here
  BY KnownHas
<1>2. Step(c) /\ Rest /\ script' = script /\ Tidy
  BY DEF Known, Step, Rest
<1>3. PICK k \in 1 .. N : k = N
  BY <1>1
<1>4. /\ k > 1 /\ ~IsLoop(stack[k]) /\ c \in Lines /\ Len(stack') = k /\ \A i \in 1 .. k - 1 : stack'[i] = stack[i]
      /\ stack'[k].of = stack[k].of /\ stack'[k].at = stack[k].at
      /\ stack'[k].left = stack[k].left + IF stack[k].at = "say" THEN 0 ELSE 1
  BY <1>2, <1>3, MergedStack
<1>5. /\ Here' = Here + 1 /\ blocks' = blocks
      /\ \/ stack[k].at = "say" /\ Kind(script, c) = "say"
         \/ stack[k].at = "choice" /\ Kind(script, c) \in Menus
  BY <1>2, <1>3, MergedNested DEF Merged, Is
<1>6. c \in 1 .. Len(Text) /\ c = Here /\ D(c + 1) = D(c)
  <2>1. c # 0 /\ c = Here /\ Kind(script, c) # "noop"
    <3>1. c # 0
      BY <1>1, <1>4 DEF Lines
    <3>2. c = Here
      BY <3>1, KnownHas
    <3> QED BY <1>5, <3>1, <3>2 DEF Menus
  <2>2. c <= Len(Text)
    BY <2>1, BeyondText
  <2>3. c \in 1 .. Len(Text)
    BY <1>1, <2>1, <2>2
  <2>4. D(c + 1) = D(c) + 0 - 0
    BY <1>2, <1>5, <2>3 DEF Tidy, Menus
  <2> QED BY <1>1, <2>1, <2>3, <2>4
<1>7. Text' = Text /\ (\A n : D(n)' = D(n))
  BY <1>2, TextKept
<1>8. \A i \in 1 .. k : stack'[i].of = stack[i].of /\ (IsLoop(stack'[i]) <=> IsLoop(stack[i]))
  <2> SUFFICES ASSUME NEW i \in 1 .. k PROVE stack'[i].of = stack[i].of /\ (IsLoop(stack'[i]) <=> IsLoop(stack[i]))
    OBVIOUS
  <2>1. i \in 1 .. k - 1 \/ i = k
    BY <1>1
  <2> QED BY <1>3, <1>4, <2>1 DEF IsLoop
<1>9. \A i \in 1 .. k : DepthIn(i)' = DepthIn(i) /\ LevelAt(i)'
  <2>1. k <= Len(stack') /\ Len(stack') \in Nat
    BY <1>1, <1>3, <1>4
  <2> QED BY <1>5, <1>8, <2>1, LevelsKept
<1>10. Levels'
  <2>1. D(Here)' = D(c)
    <3>1. D(Here)' = D(Here')
      BY <1>2 DEF D
    <3> QED BY <1>5, <1>6, <3>1
  <2>2. D(c) = DepthIn(k)' /\ k \in 1 .. k
    BY <1>1, <1>3, <1>6, <1>9
  <2>3. Here' <= Len(Text') + 1
    BY <1>1, <1>5, <1>6, <1>7
  <2> QED BY <1>4, <1>9, <2>1, <2>2, <2>3 DEF Levels
<1>11. ~IsLoop(stack'[k]) /\ k \in 1 .. k
  BY <1>3, <1>4, <1>8
<1>12. Expected'
  <2>1. Here' - 1 = c /\ Here' > 1
    BY <1>1, <1>5, <1>6
  <2>2. Kind(script, c) \in Menus => stack'[k].at = "choice"
    BY <1>4, <1>5 DEF Menus
  <2>3. stack'[k].at = "say" => Kind(script, c) = "say"
    BY <1>4, <1>5
  <2>4. stack'[k].at # "first"
    BY <1>4, <1>5
  <2> QED BY <1>2, <1>4, <1>11, <2>1, <2>2, <2>3, <2>4 DEF Expected
<1>13. ASSUME stack'[k].at # "say" PROVE OpenMenu(k)'
  <2>1. stack[k].at = "choice" /\ Kind(script, c) \in Menus
    BY <1>4, <1>5, <1>13
  <2>2. OpenMenu(k)
    BY <1>1, <1>3, <1>4, <2>1 DEF Known, Consuming
  <2>3. PICK m \in Nat : m = stack[k].of /\ m < Here
    BY <1>1
  <2>4. /\ blocks[m] = <<>> /\ stack[k].left = Here - m /\ \A n \in m .. Here - 1 : Kind(script, n) \in Menus
        /\ ToSet(blocks[m]) \subseteq Answers(Text, m) /\ Cardinality(ToSet(blocks[m])) = Len(blocks[m])
    BY <1>1, <1>3, <2>1, <2>2, <2>3 DEF OpenMenu, Blocked
  <2>5. Kind(script, Here - 1) \in Menus
    <3>1. Here - 1 \in m .. Here - 1
      BY <1>1, <2>3
    <3> QED BY <2>4, <3>1
  <2>6. HeadOf(m)'
    BY <1>5, <2>2, <2>3, <2>5, HeadKept DEF OpenMenu
  <2>7. stack'[k].left = Here' - m
    BY <1>1, <1>4, <1>5, <2>1, <2>3, <2>4
  <2>8. \A n \in m .. Here' - 1 : Kind(script', n) \in Menus
    <3>1. \A n \in m .. Here' - 1 : n \in m .. Here - 1 \/ n = c
      BY <1>1, <1>5, <1>6
    <3> QED BY <1>2, <2>1, <2>4, <3>1
  <2>9. Blocked(k)'
    BY <1>4, <1>5, <1>7, <2>1, <2>3, <2>4, <2>7, <2>8 DEF Blocked
  <2> QED BY <1>4, <2>3, <2>6, <2>9 DEF OpenMenu, HeadOf
<1>14. ASSUME NEW i \in 1 .. Len(stack'), Consuming(i)' PROVE OpenMenu(i)'
  <2>1. CASE i = k
    BY <1>13, <1>14, <2>1 DEF Consuming
  <2>2. CASE i # k
    <3>1. i \in 1 .. N /\ i < N /\ i < Len(stack') /\ i \in 1 .. k - 1 /\ Len(stack') \in Nat
      BY <1>1, <1>3, <1>4, <2>2
    <3>2. Consuming(i)
      BY <1>4, <1>14, <3>1 DEF Consuming
    <3> QED BY <1>4, <1>5, <3>1, <3>2, MenuKept
  <2> QED BY <2>1, <2>2
<1> QED BY <1>10, <1>12, <1>14 DEF Tracking

(* A block began. *)
LEMMA EnteredTracks ==
  ASSUME NEW c, Known(c), Entered(c)
  PROVE  Tracking'
<1>1. /\ N \in Nat /\ N >= 1 /\ N \in 1 .. N /\ Len(stack) = N /\ Len(Text) \in Nat /\ Here \in Nat /\ Here >= 1 /\ D(Here) = DepthIn(N)
      /\ D(Here) \in Nat /\ Len(script) \in Nat
  BY KnownHas
<1>2. Step(c) /\ Rest /\ script' = script /\ Tidy /\ TypeOK
  BY DEF Known, Step, Rest
<1>3. PICK k \in 1 .. N : k = N
  BY <1>1
<1>4. /\ k > 1 /\ ~IsLoop(stack[k]) /\ c \in Lines /\ Len(stack') = k + 1 /\ \A i \in 1 .. k : stack'[i] = stack[i]
      /\ stack'[k + 1].of = c /\ stack'[k + 1].at = "first"
  BY <1>2, <1>3, EnteredStack
<1>5. /\ Here' = Here + 1 /\ blocks' = blocks /\ Kind(script, c) = "for" /\ stack[k].at \in {"choice", "for"}
  BY <1>2, <1>3, EnteredNested DEF Entered, Is
<1>6. c \in 1 .. Len(Text) /\ c = Here /\ D(c + 1) = D(c) + 1
  <2>1. c # 0
    BY <1>1, <1>4 DEF Lines
  <2>2. c = Here
    BY <2>1, KnownHas
  <2>3. c <= Len(Text)
    BY <1>5, <2>1, BeyondText
  <2>4. c \in 1 .. Len(Text)
    BY <1>1, <2>2, <2>3
  <2>5. D(c + 1) = D(c) + 1 - 0
    BY <1>2, <1>5, <2>4 DEF Tidy
  <2> QED BY <1>1, <2>2, <2>4, <2>5
<1>7. Text' = Text /\ (\A n : D(n)' = D(n))
  BY <1>2, TextKept
<1>8. \A i \in 1 .. k : stack'[i].of = stack[i].of /\ (IsLoop(stack'[i]) <=> IsLoop(stack[i]))
  BY <1>4 DEF IsLoop
<1>9. \A i \in 1 .. k : DepthIn(i)' = DepthIn(i) /\ LevelAt(i)'
  <2>1. k <= Len(stack') /\ Len(stack') \in Nat
    BY <1>1, <1>3, <1>4
  <2> QED BY <1>5, <1>8, <2>1, LevelsKept
<1>10. IsLoop(stack'[k + 1]) /\ k + 1 # 1 /\ k + 1 > 1 /\ (k + 1) - 1 = k /\ k \in 1 .. k
  BY <1>1, <1>4 DEF IsLoop
<1>11. Levels'
  <2>1. D(Here)' = D(c) + 1
    <3>1. D(Here)' = D(Here')
      BY <1>2 DEF D
    <3> QED BY <1>5, <1>6, <3>1
  <2>2. Depth(script', stack'[k + 1].of) = D(c)
    BY <1>2, <1>4 DEF D
  <2>3. DepthIn(k + 1)' = D(c) + 1
    <3>1. DepthIn(k + 1)' = Depth(script', stack'[k + 1].of) + 1
      BY <1>10 DEF DepthIn, D
    <3> QED BY <2>2, <3>1
  <2>4. LevelAt(k + 1)'
    <3>1. D(c) = DepthIn(k)'
      BY <1>1, <1>3, <1>6, <1>9
    <3>2. Kind(script', stack'[k + 1].of) = "for"
      BY <1>2, <1>4, <1>5
    <3>3. stack'[k + 1].of + 1 .. Here' - 1 = {}
      BY <1>1, <1>4, <1>5, <1>6
    <3> QED BY <1>10, <2>2, <3>1, <3>2, <3>3 DEF LevelAt, D
  <2>5. Here' <= Len(Text') + 1
    BY <1>1, <1>5, <1>6, <1>7
  <2>6. \A i \in 1 .. k + 1 : i \in 1 .. k \/ i = k + 1
    BY <1>1
  <2>7. \A i \in 1 .. k + 1 : LevelAt(i)'
    BY <1>9, <2>4, <2>6
  <2> QED BY <1>4, <2>1, <2>3, <2>5, <2>7 DEF Levels
<1>12. Expected'
  <2>1. Here' - 1 = c /\ Here' > 1 /\ Here' = c + 1
    BY <1>1, <1>5, <1>6
  <2>2. Here' <= Len(Text) => Kind(script, Here') # "for"
    <3> SUFFICES ASSUME Here' <= Len(Text), Kind(script, Here') = "for" PROVE FALSE
      OBVIOUS
    <3>1. Here' \in 1 .. Len(Text)
      BY <1>1, <1>6, <2>1
    <3>2. Kind(script, c) \in {"choice", "end"}
      BY <1>2, <2>1, <3>1 DEF Tidy
    <3> QED BY <1>5, <3>2
  <2>3. Kind(script, c) \notin Menus
    BY <1>5 DEF Menus
  <2>4. Here' = stack'[k + 1].of + 1
    BY <1>4, <2>1
  <2> QED BY <1>2, <1>4, <1>7, <2>1, <2>2, <2>3, <2>4 DEF Expected
<1>13. OpenMenu(k)'
  <2>1. OpenMenu(k)
    BY <1>1, <1>3, <1>4, <1>5 DEF Known, Consuming
  <2>2. PICK m \in Nat : m = stack[k].of /\ m < Here /\ m \in 1 .. Len(Text)
    BY <1>3, <1>4, KnownHas
  <2>3. /\ stack[k].at = "choice" => blocks[m] = <<>>
        /\ IF stack[k].at = "choice" THEN stack[k].left = Here - m /\ \A n \in m .. Here - 1 : Kind(script, n) \in Menus
           ELSE stack[k].left + Len(blocks[m]) = Cardinality(Run(Text, m, Menus))
        /\ ToSet(blocks[m]) \subseteq Answers(Text, m) /\ Cardinality(ToSet(blocks[m])) = Len(blocks[m])
    BY <1>1, <1>3, <2>1, <2>2 DEF OpenMenu, Blocked
  <2>4. HeadOf(m)'
    <3>1. Kind(script, Here) \notin Menus
      BY <1>5, <1>6 DEF Menus
    <3> QED BY <1>5, <2>1, <2>2, <3>1, HeadKept DEF OpenMenu
  <2>5. stack[k].left + Len(blocks[m]) = Cardinality(Run(Text, m, Menus))
    <3>1. CASE stack[k].at = "choice"
      <4>1. m \in 1 .. c - 1 /\ Kind(script, c) \notin Menus /\ \A n \in m .. c - 1 : Kind(script, n) \in Menus
        BY <1>5, <1>6, <2>2, <2>3, <3>1 DEF Menus
      <4>2. Cardinality(Run(Text, m, Menus)) = c - m
        BY <1>2, <1>6, <4>1, RunOf
      <4>3. Len(blocks[m]) = 0 /\ stack[k].left = c - m /\ c - m \in Int
        BY <1>6, <2>2, <2>3, <3>1
      <4> QED BY <4>2, <4>3
    <3>2. CASE stack[k].at # "choice"
      BY <2>3, <3>2
    <3> QED BY <3>1, <3>2
  <2>6. Blocked(k)'
    <3>1. k # k + 1 /\ stack'[k] = stack[k]
      BY <1>4, <1>10
    <3> QED BY <1>4, <1>5, <1>7, <2>2, <2>3, <2>5, <3>1 DEF Blocked
  <2>7. stack'[k].of = m
    BY <1>10, <1>4, <2>2
  <2> QED BY <2>4, <2>6, <2>7 DEF OpenMenu, HeadOf
<1>14. ASSUME NEW i \in 1 .. Len(stack'), Consuming(i)' PROVE OpenMenu(i)'
  <2>1. i # k + 1
    BY <1>10, <1>14 DEF Consuming
  <2>2. CASE i = k
    BY <1>13, <2>2
  <2>3. CASE i # k
    <3>1. i \in 1 .. N /\ i < N /\ i < Len(stack') /\ i \in 1 .. k /\ Len(stack') \in Nat
      BY <1>1, <1>3, <1>4, <2>1, <2>3
    <3>2. Consuming(i)
      BY <1>4, <1>14, <3>1 DEF Consuming
    <3> QED BY <1>4, <1>5, <3>1, <3>2, MenuKept
  <2> QED BY <2>2, <2>3
<1> QED BY <1>11, <1>12, <1>14 DEF Tracking

(* The line a block ends at, and the menu that the block is of. *)
LEMMA Closes ==
  ASSUME NEW c, Known(c), Closed(c)
  PROVE  /\ c \in 1 .. Len(Text) /\ c = Here /\ Kind(script, c) = "end" /\ D(c + 1) = D(c) - 1
         /\ D(c) = D(stack[N].of) + 1 /\ D(stack[N].of) = DepthIn(N - 1) /\ D(stack[N].of) = D(stack[N - 1].of)
         /\ ~IsLoop(stack[N - 1]) /\ OpenMenu(N - 1)
         /\ stack[N].of \in 1 .. Len(Text) /\ Kind(script, stack[N].of) = "for"
         /\ stack[N - 1].of \in 1 .. stack[N].of - 1 /\ stack[N - 1].of \in 1 .. Len(Text)
         /\ MenuAt(Text, stack[N].of) = stack[N - 1].of /\ stack[N].of \in Answers(Text, stack[N - 1].of)
<1>1. /\ N \in Nat /\ N >= 1 /\ N \in 1 .. N /\ Len(stack) = N /\ Len(Text) \in Nat /\ Here \in Nat /\ Here >= 1 /\ D(Here) = DepthIn(N)
      /\ D(Here) \in Nat /\ Len(script) \in Nat /\ Here <= Len(Text) + 1 /\ Len(Text) <= Len(script)
  BY KnownHas
<1>2. Step(c) /\ Tidy /\ TypeOK /\ Nested
  BY DEF Known, Step
<1>3. IsLoop(stack[N]) /\ Stops(c)
  BY DEF Closed
<1>4. PICK k \in 1 .. N : k = N - 1 /\ k > 1 /\ k < N /\ k + 1 = N
  BY <1>1, <1>2, ClosedStack
<1>5. PICK f \in 1 .. Len(Text) : f = stack[N].of /\ D(f) \in Nat /\ f < Here
  BY <1>1, <1>4, KnownHas
<1>6. PICK m \in 1 .. Len(Text) : m = stack[k].of /\ D(m) \in Nat
  BY <1>4, KnownHas
<1>7. /\ D(f) = DepthIn(k) /\ Kind(script, f) = "for" /\ DepthIn(N) = D(f) + 1
  <2>1. LevelAt(N) /\ N > 1
    BY <1>1, <1>4, KnownHas
  <2>2. DepthIn(N) = D(f) + 1
    BY <1>3, <1>5, <2>1 DEF DepthIn
  <2> QED BY <1>3, <1>4, <1>5, <2>1, <2>2 DEF LevelAt
<1>8. ~IsLoop(stack[k]) /\ stack[k].at # "say" /\ m < f
  <2>1. N > 1 /\ N - 1 = k /\ k \in 1 .. N - 1
    BY <1>1, <1>4
  <2>2. ~IsLoop(stack[k])
    BY <1>1, <1>2, <1>3, <2>1 DEF Nested
  <2>3. stack[k].at # "say"
    BY <1>1, <1>2, <1>4, <2>2 DEF Nested
  <2> QED BY <1>1, <1>2, <1>5, <1>6, <2>1, <2>2, <2>3 DEF Nested
<1>9. D(f) = D(m)
  BY <1>6, <1>7, <1>8, Deepest
<1>10. OpenMenu(k)
  BY <1>1, <1>8 DEF Known, Consuming
<1>11. c # 0
  <2> SUFFICES ASSUME c = 0 PROVE FALSE
    OBVIOUS
  <2>1. Here = Len(script) + 1
    BY KnownHas
  <2>2. Here = Len(Text) + 1
    BY <1>1, <2>1
  <2>3. D(Here) = 0
    BY <1>2, <2>2 DEF Tidy
  <2> QED BY <1>1, <1>5, <1>7, <2>3
<1>12. Kind(script, c) = "end"
  <2>1. Top = stack[N]
    BY <1>1 DEF Top, Last
  <2>2. Top.of # 0
    BY <2>1 DEF Closed
  <2> QED BY <1>3, <1>11, <2>2 DEF Stops, ShouldStop, Is
<1>13. c \in 1 .. Len(Text) /\ c = Here
  <2>1. c = Here
    BY <1>11, KnownHas
  <2>2. c <= Len(Text)
    BY <1>11, <1>12, BeyondText
  <2> QED BY <1>1, <2>1, <2>2
<1>14. D(c + 1) = D(c) - 1
  <2>1. D(c + 1) = D(c) + 0 - 1
    BY <1>2, <1>12, <1>13 DEF Tidy
  <2> QED BY <1>1, <1>13, <2>1
<1>15. MenuAt(Text, f) = m /\ f \in Answers(Text, m)
  <2>1. m \in 1 .. f - 1
    BY <1>8
  <2>2. HeadOf(m)
    BY <1>6, <1>10 DEF OpenMenu
  <2>3. \A n \in m + 1 .. f - 1 : n \in m + 1 .. Here - 1
    BY <1>1, <1>5
  <2>4. \A n \in m + 1 .. f - 1 : Kind(script, n) \in Menus /\ D(n) = D(m) => Kind(script, n - 1) \in Menus
    BY <2>2, <2>3 DEF HeadOf
  <2> QED BY <1>2, <1>7, <1>9, <2>1, <2>2, <2>4, AnswersMenu DEF HeadOf
<1>16. D(c) = D(f) + 1
  BY <1>1, <1>7, <1>13
<1> QED BY <1>4, <1>5, <1>6, <1>7, <1>8, <1>9, <1>10, <1>12, <1>13, <1>14, <1>15, <1>16

(* A block ended, and is its menu's. *)
LEMMA ClosedTracks ==
  ASSUME NEW c, Known(c), Closed(c), NEW r, Assigned(r)
  PROVE  Tracking'
<1>1. /\ N \in Nat /\ N >= 1 /\ N \in 1 .. N /\ Len(stack) = N /\ Len(Text) \in Nat /\ Here \in Nat /\ Here >= 1
      /\ D(Here) \in Nat /\ Len(script) \in Nat
  BY KnownHas
<1>2. Step(c) /\ Rest /\ script' = script /\ Tidy /\ TypeOK
  BY DEF Known, Step, Rest
<1>3. PICK k \in 1 .. N : k = N - 1 /\ k > 1 /\ k < N /\ k - 1 = N - 2
  BY <1>1, <1>2, ClosedStack
<1>4. /\ Len(stack') = k /\ \A i \in 1 .. k - 1 : stack'[i] = stack[i]
      /\ stack'[k].of = stack[k].of /\ stack'[k].at = "for" /\ stack'[k].left = stack[k].left - 1
  BY <1>2, <1>3, ClosedStack
<1>5. PICK f \in 1 .. Len(Text) : f = stack[N].of
  BY Closes
<1>6. PICK m \in 1 .. Len(Text) : m = stack[k].of
  BY <1>3, Closes
<1>7. /\ c \in 1 .. Len(Text) /\ c = Here /\ Kind(script, c) = "end" /\ D(c + 1) = D(c) - 1
      /\ D(c) = D(f) + 1 /\ D(f) = DepthIn(k) /\ ~IsLoop(stack[k]) /\ OpenMenu(k) /\ f \in Answers(Text, m)
      /\ m \in 1 .. f - 1
  BY <1>3, <1>5, <1>6, Closes
<1>8. Here' = Here + 1 /\ m \in Lines /\ f \in Lines /\ blocks' = [blocks EXCEPT ![m] = Append(@, f)]
  <2>1. Here' = Here + 1
    BY <1>2, <1>7, ClosedNested
  <2> QED BY <1>2, <1>3, <1>5, <1>6, <2>1, BlocksAre DEF Reads
<1>9. Text' = Text /\ (\A n : D(n)' = D(n))
  BY <1>2, TextKept
<1>10. \A i \in 1 .. k : stack'[i].of = stack[i].of /\ (IsLoop(stack'[i]) <=> IsLoop(stack[i]))
  <2> SUFFICES ASSUME NEW i \in 1 .. k PROVE stack'[i].of = stack[i].of /\ (IsLoop(stack'[i]) <=> IsLoop(stack[i]))
    OBVIOUS
  <2>1. i \in 1 .. k - 1 \/ i = k
    BY <1>1
  <2>2. ~IsLoop(stack'[k])
    BY <1>4 DEF IsLoop
  <2> QED BY <1>4, <1>7, <2>1, <2>2
<1>11. \A i \in 1 .. k : DepthIn(i)' = DepthIn(i) /\ LevelAt(i)'
  <2>1. k <= Len(stack') /\ Len(stack') \in Nat
    BY <1>1, <1>4
  <2> QED BY <1>8, <1>10, <2>1, LevelsKept
<1>12. Levels'
  <2>1. D(Here)' = D(c + 1)
    <3>1. D(Here)' = D(Here')
      BY <1>2 DEF D
    <3> QED BY <1>7, <1>8, <3>1
  <2>2. D(f) \in Nat
    BY <1>2, <1>5 DEF Tidy
  <2>3. D(c + 1) = DepthIn(k)' /\ k \in 1 .. k
    <3>1. k \in 1 .. k
      BY <1>1
    <3>2. DepthIn(k)' = D(f)
      BY <1>7, <1>11, <3>1
    <3>3. D(c + 1) = D(f)
      BY <1>7, <2>2
    <3> QED BY <3>1, <3>2, <3>3
  <2>4. Here' <= Len(Text') + 1
    BY <1>1, <1>7, <1>8, <1>9
  <2> QED BY <1>4, <1>11, <2>1, <2>3, <2>4 DEF Levels
<1>13. Expected'
  <2>1. Here' - 1 = c /\ Here' > 1
    BY <1>1, <1>7, <1>8
  <2>2. Kind(script, c) \notin Menus
    BY <1>7 DEF Menus
  <2>3. ~IsLoop(stack'[k])
    BY <1>4 DEF IsLoop
  <2> QED BY <1>2, <1>4, <2>1, <2>2, <2>3 DEF Expected
<1>14. OpenMenu(k)'
  <2>1. HeadOf(m) /\ Blocked(k)
    BY <1>6, <1>7 DEF OpenMenu
  <2>2. HeadOf(m)'
    <3>1. Kind(script, Here) \notin Menus
      BY <1>7 DEF Menus
    <3> QED BY <1>8, <2>1, <3>1, HeadKept
  <2>3. /\ stack[k].left + Len(blocks[m]) = Cardinality(Run(Text, m, Menus))
        /\ ToSet(blocks[m]) \subseteq Answers(Text, m) /\ Cardinality(ToSet(blocks[m])) = Len(blocks[m])
    BY <1>1, <1>3, <1>6, <2>1 DEF Blocked
  <2>4. blocks[m] \in Seq(Lines) /\ blocks'[m] = Append(blocks[m], f) /\ stack[k].left \in Nat
    <3>1. blocks \in [Lines -> Seq(Lines)]
      BY <1>2 DEF TypeOK, Lines
    <3>2. stack[k].left \in 0 .. Len(script)
      BY <1>2, StepHas
    <3>3. stack[k].left \in Nat
      BY <1>1, <3>2
    <3> QED BY <1>8, <3>1, <3>3
  <2>5. Len(blocks[m]) \in Nat /\ Len(blocks'[m]) = Len(blocks[m]) + 1 /\ ToSet(blocks'[m]) = ToSet(blocks[m]) \cup {f}
    BY <1>8, <2>4, AppendIs
  <2>6. f \notin ToSet(blocks[m])
    BY <1>2, <1>5, <1>8, EndsOpen
  <2>7. IsFiniteSet(ToSet(blocks[m]))
    <3>1. ToSet(blocks[m]) \subseteq 1 .. Len(script)
      BY <2>4 DEF ToSet, Lines
    <3>2. IsFiniteSet(1 .. Len(script))
      BY <1>1, FS_Interval
    <3> QED BY <3>1, <3>2, FS_Subset
  <2>8. Cardinality(ToSet(blocks'[m])) = Cardinality(ToSet(blocks[m])) + 1
    BY <2>5, <2>6, <2>7, FS_AddElement
  <2>9. Cardinality(ToSet(blocks'[m])) = Len(blocks'[m])
    BY <2>3, <2>5, <2>8
  <2>10. stack'[k].left + Len(blocks'[m]) = Cardinality(Run(Text, m, Menus))
    <3>1. PICK a \in Nat : a = stack[k].left
      BY <2>4
    <3>2. PICK b \in Nat : b = Len(blocks[m])
      BY <2>5
    <3>3. (a - 1) + (b + 1) = a + b
      OBVIOUS
    <3> QED BY <1>4, <2>3, <2>5, <3>1, <3>2, <3>3
  <2>11. ToSet(blocks'[m]) \subseteq Answers(Text, m)
    BY <1>7, <2>3, <2>5
  <2>12. Blocked(k)'
    BY <1>4, <1>6, <1>9, <2>9, <2>10, <2>11 DEF Blocked
  <2> QED BY <1>4, <1>6, <2>2, <2>12 DEF OpenMenu, HeadOf
<1>15. ASSUME NEW i \in 1 .. Len(stack'), Consuming(i)' PROVE OpenMenu(i)'
  <2>1. CASE i = k
    BY <1>14, <2>1
  <2>2. CASE i # k
    <3>1. i \in 1 .. N /\ i < N /\ i < Len(stack') /\ i \in 1 .. k - 1 /\ Len(stack') \in Nat /\ i < k
      BY <1>1, <1>3, <1>4, <2>2
    <3>2. Consuming(i)
      BY <1>4, <1>15, <3>1 DEF Consuming
    <3>3. blocks'[stack[i].of] = blocks[stack[i].of]
      <4>1. stack[i].of # m
        BY <1>2, <1>6, <3>1, CallsGrow
      <4>2. blocks \in [1 .. Len(script) -> Seq(1 .. Len(script))]
        BY <1>2 DEF TypeOK
      <4> HIDE DEF N
      <4> QED BY <1>8, <4>1, <4>2
    <3> QED BY <1>4, <1>8, <3>1, <3>2, <3>3, MenuKept
  <2> QED BY <2>1, <2>2
<1> QED BY <1>12, <1>13, <1>15 DEF Tracking

(* A menu that has as many blocks as it may have is followed by no other. *)
LEMMA NoMore ==
  ASSUME NEW c, Known(c), Back(c), Behind, Here <= Len(Text)
  PROVE  Kind(script, Here) # "for"
<1> SUFFICES ASSUME Kind(script, Here) = "for" PROVE FALSE
  OBVIOUS
<1>1. /\ N \in Nat /\ N >= 1 /\ N \in 1 .. N /\ Len(stack) = N /\ Len(Text) \in Nat /\ Here \in Nat /\ Here >= 1 /\ D(Here) = DepthIn(N)
      /\ Len(script) \in Nat /\ Len(Text) <= Len(script) /\ Here \in 1 .. Len(Text)
  BY KnownHas
<1>2. Step(c) /\ Tidy /\ TypeOK
  BY DEF Known, Step
<1>3. c = Here
  <2>1. Here # Len(script) + 1
    BY <1>1
  <2> QED BY <2>1, KnownHas
<1>4. N > 1 /\ ~IsLoop(stack[N]) /\ stack[N].at \in {"say", "choice", "for"}
  BY <1>2, BackStack DEF Back
<1>5. Is(c, {"for"})
  BY <1>1, <1>3 DEF Is
<1>6. stack[N].at # "say"
  <2> SUFFICES ASSUME stack[N].at = "say" PROVE FALSE
    OBVIOUS
  <2>1. Here > 1 /\ Kind(script, Here - 1) = "say"
    BY <1>1 DEF Known, Expected
  <2>2. Kind(script, Here - 1) \in {"choice", "end"}
    BY <1>1, <1>2 DEF Tidy
  <2> QED BY <2>1, <2>2
<1>7. ~(stack[N].left > 0)
  BY <1>4, <1>5, <1>6 DEF Back
<1>8. OpenMenu(N)
  BY <1>1, <1>4, <1>6 DEF Known, Consuming
<1>9. PICK m \in 1 .. Len(Text) : m = stack[N].of /\ m < Here /\ m \in Lines
  BY <1>1, <1>4, KnownHas
<1>10. stack[N].left = 0 /\ stack[N].at = "for"
  <2>1. stack[N].left \in Nat
    BY <1>1, <1>2, StepHas
  <2>2. stack[N].left = 0
    BY <1>7, <2>1
  <2>3. stack[N].at = "choice" => stack[N].left = Here - m
    BY <1>1, <1>8, <1>9 DEF OpenMenu, Blocked
  <2>4. Here - m # 0
    BY <1>1, <1>9
  <2> QED BY <1>4, <1>6, <2>2, <2>3, <2>4
<1>11. HeadOf(m) /\ D(m) = D(Here)
  <2>1. HeadOf(m)
    BY <1>8, <1>9 DEF OpenMenu
  <2>2. DepthIn(N) = D(m)
    BY <1>1, <1>4, <1>9, Deepest
  <2> QED BY <1>1, <2>1, <2>2
<1>12. /\ 0 + Len(blocks[m]) = Cardinality(Run(Text, m, Menus))
       /\ ToSet(blocks[m]) \subseteq Answers(Text, m) /\ Cardinality(ToSet(blocks[m])) = Len(blocks[m])
  BY <1>8, <1>9, <1>10 DEF OpenMenu, Blocked
<1>13. MenuAt(Text, Here) = m /\ Here \in Answers(Text, m)
  <2>1. m \in 1 .. Here - 1
    BY <1>1, <1>9
  <2> QED BY <1>1, <1>2, <1>11, <2>1, AnswersMenu DEF HeadOf
<1>14. /\ IsFiniteSet(Answers(Text, m)) /\ Cardinality(Answers(Text, m)) <= Cardinality(Run(Text, m, Menus))
       /\ Cardinality(Run(Text, m, Menus)) \in Nat
  BY <1>1, <1>2, <1>13, AnswersFew
<1>15. Here \notin ToSet(blocks[m])
  <2>1. \A n \in ToSet(blocks[m]) : n < Here
    BY <1>9 DEF Behind
  <2>2. ~(Here < Here)
    BY <1>1
  <2> QED BY <2>1, <2>2
<1> DEFINE S == ToSet(blocks[m])
           T == Answers(Text, m)
<1>16. S \cup {Here} \subseteq T
  BY <1>12, <1>13
<1>17. Cardinality(S) = Cardinality(Run(Text, m, Menus)) /\ Here \notin S
  <2>1. blocks[m] \in Seq(Lines)
    BY <1>2, <1>9 DEF TypeOK, Lines
  <2>2. Len(blocks[m]) \in Nat
    BY <2>1
  <2> QED BY <1>12, <1>15, <2>2
<1>18. IsFiniteSet(T) /\ Cardinality(T) <= Cardinality(Run(Text, m, Menus)) /\ Cardinality(Run(Text, m, Menus)) \in Nat
  BY <1>14
<1> HIDE DEF S, T
<1>19. IsFiniteSet(S) /\ IsFiniteSet(S \cup {Here})
  BY <1>16, <1>18, FS_Subset
<1>20. Cardinality(S \cup {Here}) <= Cardinality(T) /\ Cardinality(T) \in Nat /\ Cardinality(S \cup {Here}) \in Nat
  BY <1>16, <1>18, <1>19, FS_Subset, FS_CardinalityType
<1>21. Cardinality(S \cup {Here}) = Cardinality(S) + 1
  BY <1>17, <1>19, FS_AddElement
<1> QED BY <1>17, <1>18, <1>20, <1>21

(* A consumer was done; its instruction is in the block it was read in. *)
LEMMA BackTracks ==
  ASSUME NEW c, Known(c), Back(c), Behind
  PROVE  Tracking' /\ Opener(script, stack[N].of) = stack[N - 1].of
<1>1. /\ N \in Nat /\ N >= 1 /\ N \in 1 .. N /\ Len(stack) = N /\ Len(Text) \in Nat /\ Here \in Nat /\ Here >= 1 /\ D(Here) = DepthIn(N)
      /\ Len(script) \in Nat /\ Len(Text) <= Len(script) /\ Here <= Len(Text) + 1
  BY KnownHas
<1>2. Step(c) /\ Rest /\ script' = script /\ Tidy
  BY DEF Known, Step, Rest
<1>3. PICK k \in 1 .. N : k = N - 1 /\ k < N /\ N > 1
  BY <1>1, <1>2, BackStack
<1>4. /\ Len(stack') = k /\ \A i \in 1 .. k : stack'[i] = stack[i]
      /\ IsLoop(stack[k]) /\ stack[k].at = "next" /\ ~IsLoop(stack[N])
  BY <1>2, <1>3, BackStack
<1>5. Here' = Here /\ blocks' = blocks
  BY <1>2, BackNested DEF Back
<1>6. Text' = Text /\ (\A n : D(n)' = D(n))
  BY <1>2, TextKept
<1>7. D(stack[N].of) = DepthIn(k) /\ DepthIn(N) = D(stack[N].of) /\ Opener(script, stack[N].of) = stack[k].of
  <2>1. LevelAt(N)
    BY <1>1, KnownHas
  <2>2. DepthIn(N) = D(stack[N].of)
    BY <1>1, <1>4, Deepest
  <2> QED BY <1>3, <1>4, <2>1, <2>2 DEF LevelAt
<1>8. \A i \in 1 .. k : DepthIn(i)' = DepthIn(i) /\ LevelAt(i)'
  <2>1. k <= Len(stack') /\ Len(stack') \in Nat
    BY <1>1, <1>4
  <2>2. \A i \in 1 .. k : stack'[i].of = stack[i].of /\ (IsLoop(stack'[i]) <=> IsLoop(stack[i]))
    BY <1>4 DEF IsLoop
  <2> QED BY <1>5, <2>1, <2>2, LevelsKept
<1>9. Levels'
  <2>1. D(Here)' = D(Here)
    <3>1. D(Here)' = D(Here')
      BY <1>2 DEF D
    <3> QED BY <1>5, <3>1
  <2>2. D(Here) = DepthIn(k)' /\ k \in 1 .. k
    BY <1>1, <1>7, <1>8
  <2> QED BY <1>1, <1>4, <1>5, <1>6, <1>8, <2>1, <2>2 DEF Levels
<1>10. Expected'
  <2>1. Here <= Len(Text) => Kind(script, Here) # "for"
    BY NoMore
  <2>2. ~(Here > 1 /\ Kind(script, Here - 1) \in Menus)
    <3> SUFFICES ASSUME Here > 1, Kind(script, Here - 1) \in Menus PROVE FALSE
      OBVIOUS
    <3>1. stack[N].at = "choice"
      BY <1>1 DEF Known, Expected
    <3>2. ~Is(c, Menus)
      BY <3>1 DEF Back
    <3>3. Here - 1 \in 1 .. Len(Text) /\ (Here - 1) + 1 = Here
      BY <1>1
    <3>4. Here - 1 < Len(Text) /\ Kind(script, (Here - 1) + 1) \in {"choice", "for"}
      BY <1>2, <3>3 DEF Tidy
    <3>5. Here <= Len(Text) /\ Here # Len(script) + 1
      BY <1>1, <3>4
    <3>6. c # 0 /\ c = Here
      BY <3>5, KnownHas
    <3>7. Kind(script, Here) = "choice"
      BY <2>1, <3>3, <3>4, <3>5
    <3> QED BY <3>2, <3>6, <3>7 DEF Is, Menus
  <2>3. Here > 1
    <3>1. stack[N].of \in Nat /\ stack[N].of < Here /\ stack[N].of # 0
      BY <1>1, <1>2, <1>3, KnownHas DEF Step, Nested
    <3> QED BY <1>1, <3>1
  <2>4. k \in 1 .. k /\ stack'[k].at = "next"
    BY <1>1, <1>4
  <2> QED BY <1>2, <1>4, <1>5, <1>6, <2>1, <2>2, <2>3, <2>4 DEF Expected
<1>11. ASSUME NEW i \in 1 .. Len(stack'), Consuming(i)' PROVE OpenMenu(i)'
  <2>1. Consuming(i)
    BY <1>4, <1>11 DEF Consuming
  <2>2. i # k
    BY <1>4, <2>1 DEF Consuming
  <2>3. i \in 1 .. N /\ i < N /\ i < Len(stack') /\ i \in 1 .. k /\ Len(stack') \in Nat
    BY <1>1, <1>3, <1>4, <2>2
  <2> QED BY <1>4, <1>5, <2>1, <2>3, MenuKept
<1> QED BY <1>3, <1>7, <1>9, <1>10, <1>11 DEF Tracking

(* The script's loop ends at the end of its text. *)
LEMMA StopsThere ==
  ASSUME NEW c, Known(c), Ended(c)
  PROVE  /\ c = 0 => Len(Text) = Len(script) /\ Here = Len(Text) + 1
         /\ c # 0 => Len(Text) # Len(script) /\ Here = Len(Text) + 1
         /\ Here' = Here + (IF c = 0 THEN 0 ELSE 1) /\ Here' = pos'
<1>1. /\ N \in Nat /\ N >= 1 /\ N \in 1 .. N /\ Len(stack) = N /\ Len(Text) \in Nat /\ Here \in Nat /\ D(Here) = DepthIn(N)
      /\ Len(script) \in Nat /\ Len(Text) <= Len(script) /\ Here <= Len(Text) + 1
      /\ (c = 0 <=> Here = Len(script) + 1) /\ (c # 0 => c = Here /\ c \in Lines)
  BY KnownHas
<1>2. Step(c) /\ TypeOK /\ Standing /\ Nested /\ Advance /\ Rest /\ c = Current
  BY DEF Known, Step
<1>3. peeked' = 0 /\ IsLoop(stack[N]) /\ stack[N].of = 0 /\ Stops(c)
  BY DEF Ended
<1>4. N = 1
  BY <1>1, <1>2, <1>3 DEF Nested
<1>5. Here' = pos' /\ Here' = Here + (IF c = 0 THEN 0 ELSE 1)
  <2>1. Here' = pos'
    BY <1>3 DEF Here
  <2>2. Here' = Here + (IF c = 0 THEN 0 ELSE 1)
    BY <1>1, <1>2, <1>3, HereMoves
  <2> QED BY <2>1, <2>2
<1>6. CASE c = 0
  BY <1>1, <1>5, <1>6
<1>7. CASE c # 0
  <2>1. Top = stack[N] /\ Top.of = 0
    BY <1>1, <1>3 DEF Top, Last
  <2>2. Top.at = "next" /\ Kind(script, c) = "noop" /\ onlyOneProc
    BY <1>3, <1>7, <2>1 DEF Stops, ShouldStop, Is
  <2>3. Here > 1
    BY <1>4, <2>1, <2>2 DEF Known, Expected
  <2>4. D(Here) = 0
    BY <1>1, <1>4 DEF DepthIn
  <2>5. Here \in 2 .. Len(script)
    BY <1>1, <1>7, <2>3 DEF Lines
  <2>6. Here >= Len(Text) + 1
    BY <1>1, <1>2, <1>7, <2>2, <2>4, <2>5, TextIs
  <2>7. Here = Len(Text) + 1 /\ Len(Text) # Len(script)
    BY <1>1, <2>5, <2>6
  <2> QED BY <1>5, <1>7, <2>7
<1> QED BY <1>6, <1>7

(* It leaves the file where an object's script ends. *)
LEMMA EndsThere ==
  ASSUME NEW c, Known(c), Ended(c), onlyOneProc
  PROVE  pos' = IF Text = script THEN Len(script) + 1 ELSE Len(Text) + 2
<1>1. Len(Text) \in Nat /\ Len(script) \in Nat
  BY KnownHas
<1>2. Text = script <=> Len(Text) = Len(script)
  BY TextIs DEF Known, Step
<1> QED BY <1>1, <1>2, StopsThere

(* The parts of the loops' state that say where they are. *)
LEMMA ReadsTracks ==
  ASSUME NEW c, Known(c), Reads(c), ~Ended(c), Behind, NEW r, Assigned(r)
  PROVE  Tracking'
BY PlainTracks, CalledTracks, ClosedTracks, BackTracks, MergedTracks, EnteredTracks DEF Reads

(* What is added is added where it was written. *)
LEMMA ReadsPlaced ==
  ASSUME NEW c, Known(c), Reads(c), Behind, Placed
  PROVE  Placed'
<1>1. Step(c) /\ script' = script /\ Owners = 0 .. Len(script) /\ Owners' = 0 .. Len(script)
  <2>1. Step(c) /\ script' = script
    BY DEF Known, Step, Rest
  <2> QED BY <2>1, StepHas, ListsAre DEF Owners
<1>2. ASSUME NEW b \in 0 .. Len(script), NEW n \in Within(b)' PROVE Opener(script, n) = b
  <2>1. CASE n \in Within(b)
    BY <1>1, <2>1 DEF Placed
  <2>2. CASE n \notin Within(b) /\ Plain(c)
    <3>1. n = c /\ b = stack[N].of
      BY <1>1, <1>2, <2>2, WithinIs
    <3> QED BY <2>2, <3>1, PlainTracks
  <2>3. CASE n \notin Within(b) /\ Back(c)
    <3>1. n = stack[N].of /\ b = stack[N - 1].of
      BY <1>1, <1>2, <2>3, WithinIs
    <3> QED BY <2>3, <3>1, BackTracks
  <2> QED BY <1>1, <1>2, <2>1, <2>2, <2>3, WithinIs
<1> QED BY <1>1, <1>2 DEF Placed

-----------------------------------------------------------------------------
(* The invariant.                                                              *)
AsWritten == WellFormed(Text) => Placed /\ (status = "reading" => Tracking)
ReadInv == ReaderInv /\ AsWritten /\ ObjectScriptEnds

(* It holds before the first line. *)
LEMMA InitRead == Init => ReadInv
<1> SUFFICES ASSUME Init PROVE ReadInv
  OBVIOUS
<1>1. /\ pos = 1 /\ peeked = 0 /\ stack = <<Frame("first", 0, 0)>> /\ status = "reading"
      /\ lists = [b \in 0 .. Len(script) |-> << >>]
  BY DEF Init
<1>2. ReaderInv /\ TypeOK
  BY InitReader DEF ReaderInv
<1>3. ObjectScriptEnds
  BY <1>1 DEF ObjectScriptEnds
<1>4. ASSUME WellFormed(Text) PROVE Placed /\ Tracking
  <2>1. Tidy /\ Len(Text) \in Nat
    BY <1>2, <1>4, TidyIs, TextIs
  <2>2. Here = 1 /\ Len(stack) = 1 /\ stack[1].at = "first" /\ stack[1].of = 0 /\ IsLoop(stack[1])
    BY <1>1 DEF Here, Frame, IsLoop
  <2>3. Placed
    BY <1>1 DEF Placed, Owners, Within, ToSet
  <2>4. \A i \in 1 .. 1 : i = 1
    OBVIOUS
  <2>5. 0 + 1 .. 1 - 1 = {} /\ 0 + 1 = 1 /\ ~(1 > 1)
    OBVIOUS
  <2>6. Levels
    <3>1. D(1) = 0
      BY <2>1 DEF Tidy
    <3>2. DepthIn(1) = 0
      BY DEF DepthIn
    <3>3. LevelAt(1)
      BY <2>2, <2>5 DEF LevelAt
    <3>4. 1 <= Len(Text) + 1
      BY <2>1
    <3> QED BY <2>2, <2>4, <3>1, <3>2, <3>3, <3>4 DEF Levels
  <2>7. 1 <= Len(Text) => Kind(script, 1) # "for"
    <3>1. 1 <= Len(Text) => 1 \in 1 .. Len(Text)
      BY <2>1
    <3> QED BY <2>1, <2>5, <3>1 DEF Tidy
  <2>8. Expected
    BY <2>2, <2>5, <2>7 DEF Expected
  <2>9. \A i \in 1 .. Len(stack) : ~Consuming(i)
    BY <2>2, <2>4 DEF Consuming
  <2> QED BY <2>3, <2>6, <2>8, <2>9 DEF Tracking
<1> QED BY <1>2, <1>3, <1>4 DEF ReadInv, AsWritten

(* A step keeps it. *)
LEMMA NextRead == ReadInv /\ Next => ReadInv'
<1> SUFFICES ASSUME ReadInv, Next PROVE ReadInv'
  OBVIOUS
<1>1. status = "reading" /\ ReaderInv /\ ReaderInv' /\ AsWritten
  BY NextReader DEF ReadInv, Next
<1>2. TypeOK /\ Standing /\ Nested /\ Untouched
  BY <1>1 DEF ReaderInv
<1>3. PICK r : Assigned(r)
  BY <1>1 DEF ReaderInv
<1>4. PICK c : c = Current
  OBVIOUS
<1>5. Step(c) /\ Rest /\ ((Throws(c) /\ Stopped(c)) \/ Reads(c))
  BY <1>2, <1>4, StepIs DEF Step, Reads
<1>6. Text' = Text /\ script' = script /\ onlyOneProc' = onlyOneProc
  BY <1>5, TextKept DEF Rest
<1>7. Behind
  BY <1>2, <1>3, BehindIs
<1>8. ASSUME WellFormed(Text) PROVE Placed /\ Known(c)
  <2>1. Tidy
    BY <1>2, <1>8, TidyIs
  <2> QED BY <1>1, <1>2, <1>5, <1>8, <2>1 DEF AsWritten, Known, Tracking
<1>9. CASE Throws(c) /\ Stopped(c)
  <2>1. status' = "thrown" /\ lists' = lists
    BY <1>5, <1>9, StoppedShaped
  <2>2. Placed => Placed'
    BY <1>6, <2>1 DEF Placed, Owners, Within
  <2> QED BY <1>1, <1>6, <1>8, <2>1, <2>2 DEF ReadInv, AsWritten, ObjectScriptEnds
<1>10. CASE Reads(c)
  <2>1. ASSUME WellFormed(Text) PROVE Placed' /\ (status' = "reading" => Tracking')
    <3>1. status' = "reading" => ~Ended(c)
      BY DEF Ended
    <3> QED BY <1>3, <1>7, <1>8, <1>10, <2>1, <3>1, ReadsPlaced, ReadsTracks
  <2>2. ObjectScriptEnds'
    <3> SUFFICES ASSUME status' = "read", onlyOneProc, WellFormed(Text)
                 PROVE  pos' = IF Text = script THEN Len(script) + 1 ELSE Len(Text) + 2
      BY <1>6 DEF ObjectScriptEnds
    <3>1. Ended(c)
      BY <1>1, <1>5, <1>10, ReadsNested
    <3> QED BY <1>8, <3>1, EndsThere
  <2> QED BY <1>1, <1>6, <2>1, <2>2 DEF ReadInv, AsWritten
<1> QED BY <1>5, <1>9, <1>10

(* Standing still keeps it, too. *)
LEMMA StillRead == ReadInv /\ UNCHANGED vars => ReadInv'
<1> SUFFICES ASSUME ReadInv, UNCHANGED vars PROVE ReadInv'
  OBVIOUS
<1>1. /\ script' = script /\ onlyOneProc' = onlyOneProc /\ pos' = pos /\ peeked' = peeked /\ stack' = stack
      /\ lists' = lists /\ blocks' = blocks /\ status' = status
  BY DEF vars
<1>2. Text' = Text /\ (\A n : D(n)' = D(n)) /\ Here' = Here
  BY <1>1 DEF Text, D, Here
<1>3. Placed' <=> Placed
  BY <1>1 DEF Placed, Owners, Within
<1>4. \A i : DepthIn(i)' = DepthIn(i)
  BY <1>1, <1>2 DEF DepthIn, D
<1>5. Levels' <=> Levels
  BY <1>1, <1>2, <1>4 DEF Levels, LevelAt, D
<1>6. Expected' <=> Expected
  BY <1>1, <1>2 DEF Expected
<1>7. \A i : (Consuming(i)' <=> Consuming(i)) /\ (OpenMenu(i)' <=> OpenMenu(i))
  BY <1>1, <1>2 DEF Consuming, OpenMenu, HeadOf, Blocked, D
<1>8. Tracking' <=> Tracking
  BY <1>1, <1>5, <1>6, <1>7 DEF Tracking
<1>9. ObjectScriptEnds' <=> ObjectScriptEnds
  BY <1>1, <1>2 DEF ObjectScriptEnds
<1> QED BY <1>1, <1>2, <1>3, <1>8, <1>9, StillReader DEF ReadInv, AsWritten

(* What reading makes of a script: each of its lines has one place, in the     *)
(* order of the file, the instructions are in the blocks that they were        *)
(* written in, and an object's script is read up to its end.                   *)
THEOREM ReaderReadsAsWritten == Spec => []ReadAsWritten
<1>1. ReadInv => ReadAsWritten
  <2> SUFFICES ASSUME ReadInv PROVE ReadAsWritten
    OBVIOUS
  <2>1. TypeOK /\ NothingLost /\ ObjectScriptEnds /\ AsWritten
    BY ReaderLosesNothing DEF ReadInv
  <2>2. BlocksAsWritten
    BY <2>1 DEF BlocksAsWritten, AsWritten, Placed
  <2> QED BY <2>1, <2>2 DEF ReadAsWritten
<1>2. ReadInv /\ [Next]_vars => ReadInv'
  BY NextRead, StillRead
<1> QED BY <1>1, <1>2, InitRead, PTL DEF Spec

-----------------------------------------------------------------------------
(* What the compiler relies on.                                                *)

(* What is in a list is an instruction of the text, not behind an end of the   *)
(* list's block, and the first of the lines it is made of.                     *)
AtBlock(b, n) ==
  IF b = 0 THEN D(n) = 0
  ELSE b < n /\ Kind(script, b) = "for" /\ D(n) = D(b) + 1 /\ \A k \in b + 1 .. n : D(k) > D(b)
SoundAt(b, n) ==
  /\ n \in 1 .. Len(Text) /\ Kind(script, n) \notin {"for", "end"}
  /\ Kind(script, n) \in Menus /\ n > 1 => Kind(script, n - 1) \notin Menus
  /\ Kind(script, n) = "say" /\ n > 1 => Kind(script, n - 1) # "say"
  /\ AtBlock(b, n)
Sound == \A b \in 0 .. Len(script) : \A n \in Within(b) : SoundAt(b, n)

(* A say or a menu takes over the lines behind it that are of its kind.        *)
RunTo(m, n) ==
  /\ m < n /\ n \in 1 .. Len(Text) /\ D(n) = D(m)
  /\ (\A k \in m .. n : Kind(script, k) = "say") \/ (\A k \in m .. n : Kind(script, k) \in Menus)
Parts == \A m \in Lines : \A n \in Taken(m) : RunTo(m, n)

(* A menu has blocks that answer it, and is open or in a list.                 *)
InList(m) == \E b \in 0 .. Len(script) : m \in Within(b)
HeadsAt(m, f) ==
  /\ m \in 1 .. Len(Text) /\ Kind(script, m) \in Menus
  /\ f \in Answers(Text, m) /\ D(f) = D(m) /\ Kind(script, f) = "for" /\ f > m
  /\ Consumes(m) \/ InList(m)
Heads == \A m \in Lines : \A f \in ToSet(blocks[m]) : HeadsAt(m, f)

(* Every other instruction is in a list.                                       *)
Plains ==
  \A n \in 1 .. Len(Text) : n < Here /\ Kind(script, n) \notin {"say", "for", "end"} \cup Menus => InList(n)

(* A choice has a name and a text, a title has no name.                        *)
PairedAt(m) ==
  Kind(script, m) \in Menus =>
    \E p \in Nat : Len(operand[m]) = IF Kind(script, m) = "choicetitle" THEN 2 * p + 1 ELSE 2 * p
Paired == \A m \in Lines : PairedAt(m)

(* A menu begins with its own line, and has a title on that line only.         *)
LinedAt(m) ==
  Kind(script, m) \in Menus =>
    /\ Len(operand[m]) >= 1 /\ operand[m][1].line = m
    /\ Kind(script, m) = "choicetitle" => \A k \in 2 .. Len(operand[m]) : operand[m][k].line # m
Lined == \A m \in Lines : LinedAt(m)

(* The lines that were read last.                                              *)
SeenBy(f) ==
  /\ f.at = "for" => Here > 1 /\ Kind(script, Here - 1) = "end"
  /\ f.at = "say" => /\ \A k \in f.of .. Here - 1 : Kind(script, k) = "say"
                     /\ f.of > 1 => Kind(script, f.of - 1) # "say"
  /\ IsLoop(f) /\ Here <= Len(Text) /\ Here > 1 /\ Kind(script, Here - 1) = "say" => Kind(script, Here) # "say"
Seen == SeenBy(stack[Len(stack)])

(* A consumer was called for a say or a menu.                                  *)
LEMMA CalledFor ==
  ASSUME NEW c, Known(c), Seen, N > 1, ~IsLoop(stack[N])
  PROVE  /\ stack[N].of \in 1 .. Len(Text) /\ stack[N].of < Here /\ Here \in Nat
         /\ stack[N].at = "say" => /\ \A k \in stack[N].of .. Here - 1 : Kind(script, k) = "say"
                                   /\ Kind(script, stack[N].of) = "say"
                                   /\ stack[N].of > 1 => Kind(script, stack[N].of - 1) # "say"
         /\ stack[N].at # "say" => HeadOf(stack[N].of) /\ OpenMenu(N)
         /\ stack[N].at = "choice" => \A k \in stack[N].of .. Here - 1 : Kind(script, k) \in Menus
<1>1. N \in Nat /\ N \in 1 .. N /\ Len(stack) = N /\ Here \in Nat /\ stack[N].of \in 1 .. Len(Text) /\ stack[N].of < Here
  BY KnownHas
<1>2. ASSUME stack[N].at = "say"
      PROVE  /\ \A k \in stack[N].of .. Here - 1 : Kind(script, k) = "say"
             /\ Kind(script, stack[N].of) = "say"
             /\ stack[N].of > 1 => Kind(script, stack[N].of - 1) # "say"
  <2>1. stack[N].of \in stack[N].of .. Here - 1
    BY <1>1
  <2> QED BY <1>1, <1>2, <2>1 DEF Seen, SeenBy
<1>3. ASSUME stack[N].at # "say" PROVE HeadOf(stack[N].of) /\ OpenMenu(N)
  BY <1>1, <1>3 DEF Known, Consuming, OpenMenu
<1>4. ASSUME stack[N].at = "choice" PROVE \A k \in stack[N].of .. Here - 1 : Kind(script, k) \in Menus
  <2>1. Blocked(N)
    BY <1>3, <1>4 DEF OpenMenu
  <2> QED BY <1>1, <1>4, <2>1 DEF Blocked
<1> QED BY <1>1, <1>2, <1>3, <1>4

(* What is added to a list is sound.                                           *)
LEMMA ReadsSound ==
  ASSUME NEW c, Known(c), Reads(c), Seen, Sound
  PROVE  Sound'
<1>1. /\ N \in Nat /\ N >= 1 /\ N \in 1 .. N /\ Len(stack) = N /\ Len(Text) \in Nat /\ Here \in Nat /\ D(Here) = DepthIn(N)
      /\ \A i \in 1 .. N : /\ stack[i].of \in Nat /\ stack[i].of < Here /\ LevelAt(i)
                           /\ i > 1 => D(stack[i].of) \in Nat
      /\ \A n \in 1 .. Len(Text) + 1 : D(n) \in Nat
      /\ Here <= Len(Text) + 1
  BY KnownHas
<1>2. Step(c) /\ Rest /\ script' = script /\ Nested
  BY DEF Known, Step, Rest
<1>3. Text' = Text /\ (\A n : D(n)' = D(n))
  BY <1>2, TextKept
<1>4. ASSUME NEW i \in 1 .. N, IsLoop(stack[i]), NEW n \in 1 .. Len(Text), stack[i].of < n, n <= Here, D(n) = DepthIn(i)
      PROVE  AtBlock(stack[i].of, n)
  <2>1. PICK b \in Nat : b = stack[i].of
    BY <1>1
  <2>2. CASE i = 1
    <3>1. b = 0
      BY <1>2, <2>1, <2>2, <1>1 DEF Nested
    <3> QED BY <1>4, <2>1, <2>2, <3>1 DEF AtBlock, DepthIn
  <2>3. CASE i # 1
    <3>1. i > 1 /\ i \in 1 .. Len(stack) /\ i \in Nat
      BY <1>1, <2>3
    <3>2. b # 0 /\ D(b) \in Nat /\ DepthIn(i) = D(b) + 1
      BY <1>1, <1>2, <1>4, <2>1, <2>3, <3>1 DEF Nested, DepthIn
    <3>3. Kind(script, b) = "for" /\ \A k \in b + 1 .. Here - 1 : D(k) >= DepthIn(i)
      BY <1>1, <1>4, <2>1, <3>1 DEF LevelAt
    <3>4. ASSUME NEW k \in b + 1 .. n PROVE D(k) > D(b)
      <4>1. k \in 1 .. Len(Text) + 1 /\ (k \in b + 1 .. Here - 1 \/ k = n)
        BY <1>1, <1>4
      <4>2. D(k) \in Nat /\ D(k) >= DepthIn(i)
        <5>1. D(k) \in Nat
          BY <1>1, <4>1
        <5> QED BY <1>4, <3>2, <3>3, <4>1, <5>1
      <4> QED BY <3>2, <4>2
    <3> QED BY <1>4, <2>1, <3>2, <3>3, <3>4 DEF AtBlock
  <2> QED BY <2>2, <2>3
<1>5. ASSUME Plain(c) PROVE SoundAt(stack[N].of, c)
  <2>1. c # 0 /\ IsLoop(stack[N]) /\ ~ShouldStop(c) /\ Kind(script, c) \notin {"say"} \cup Menus
    BY <1>5 DEF Plain, Is
  <2>2. c \in 1 .. Len(Text) /\ c = Here /\ Kind(script, c) \notin {"for", "end"}
    BY <2>1, InBlock
  <2>3. AtBlock(stack[N].of, c)
    <3>1. stack[N].of < c /\ c <= Here /\ D(c) = DepthIn(N)
      BY <1>1, <2>2
    <3> QED BY <1>1, <1>4, <2>1, <2>2, <3>1
  <2> QED BY <2>1, <2>2, <2>3 DEF SoundAt
<1>6. ASSUME Back(c) PROVE SoundAt(stack[N - 1].of, stack[N].of)
  <2>1. N > 1 /\ IsLoop(stack[N - 1]) /\ ~IsLoop(stack[N]) /\ N - 1 \in 1 .. N
    BY <1>1, <1>2, <1>6, BackStack
  <2>2. PICK n \in 1 .. Len(Text) : n = stack[N].of /\ n < Here
    BY <2>1, CalledFor
  <2>4. Kind(script, n) \in Menus \cup {"say"} /\ (Kind(script, n) \in Menus /\ n > 1 => Kind(script, n - 1) \notin Menus)
        /\ (Kind(script, n) = "say" /\ n > 1 => Kind(script, n - 1) # "say")
    <3>1. CASE stack[N].at = "say"
      <4>1. Kind(script, n) = "say" /\ (n > 1 => Kind(script, n - 1) # "say")
        BY <2>1, <2>2, <3>1, CalledFor
      <4> QED BY <4>1 DEF Menus
    <3>2. CASE stack[N].at # "say"
      <4>1. HeadOf(n)
        BY <2>1, <2>2, <3>2, CalledFor
      <4> QED BY <4>1 DEF HeadOf, Menus
    <3> QED BY <3>1, <3>2
  <2>5. AtBlock(stack[N - 1].of, n)
    <3>1. D(n) = DepthIn(N - 1)
      BY <1>1, <2>1, <2>2 DEF LevelAt
    <3>2. stack[N - 1].of < n /\ n <= Here
      <4>1. N - 1 \in 1 .. N - 1
        BY <1>1, <2>1
      <4> QED BY <1>1, <1>2, <2>2, <4>1 DEF Nested
    <3> QED BY <1>4, <2>1, <2>2, <3>1, <3>2
  <2>6. Kind(script, n) \notin {"for", "end"}
    BY <2>4 DEF Menus
  <2> QED BY <2>2, <2>4, <2>5, <2>6 DEF SoundAt
<1>7. ASSUME NEW b \in 0 .. Len(script), NEW n \in Within(b)' PROVE SoundAt(b, n)
  <2>1. CASE n \in Within(b)
    BY <2>1 DEF Sound
  <2>2. CASE n \notin Within(b) /\ Plain(c)
    <3>1. n = c /\ b = stack[N].of
      BY <1>2, <1>7, <2>2, WithinIs
    <3> QED BY <1>5, <2>2, <3>1
  <2>3. CASE n \notin Within(b) /\ Back(c)
    <3>1. n = stack[N].of /\ b = stack[N - 1].of
      BY <1>2, <1>7, <2>3, WithinIs
    <3> QED BY <1>6, <2>3, <3>1
  <2> QED BY <1>2, <1>7, <2>1, <2>2, <2>3, WithinIs
<1>8. ASSUME NEW b \in 0 .. Len(script), NEW n \in Within(b)' PROVE SoundAt(b, n)'
  <2>1. SoundAt(b, n)
    BY <1>7
  <2> QED BY <1>2, <1>3, <2>1 DEF SoundAt, AtBlock
<1> QED BY <1>2, <1>8 DEF Sound

(* What is taken over is.                                                      *)
LEMMA ReadsParts ==
  ASSUME NEW c, Known(c), Reads(c), Seen, Parts
  PROVE  Parts'
<1>1. Step(c) /\ Rest /\ script' = script /\ Untouched /\ Lines' = Lines
  BY TextKept DEF Known, Step, Rest
<1>2. Text' = Text /\ (\A n : D(n)' = D(n))
  BY <1>1, TextKept
<1>3. ASSUME Merged(c) PROVE RunTo(stack[N].of, c)
  <2>1. N > 1 /\ ~IsLoop(stack[N]) /\ c \in Lines
    BY <1>1, <1>3, MergedStack
  <2>2. PICK m \in 1 .. Len(Text) : m = stack[N].of /\ m < Here
    BY <2>1, CalledFor
  <2>3. c # 0 /\ c = Here /\ Here \in Nat /\ Len(Text) \in Nat
    BY <2>1, KnownHas DEF Lines
  <2>4. /\ stack[N].at \in {"say", "choice"}
        /\ stack[N].at = "say" => Kind(script, c) = "say"
        /\ stack[N].at = "choice" => Kind(script, c) \in Menus
    BY <1>3 DEF Merged, Is
  <2>5. c \in 1 .. Len(Text)
    <3>1. Kind(script, c) # "noop"
      BY <2>4 DEF Menus
    <3>2. c <= Len(Text)
      BY <2>3, <3>1, BeyondText
    <3> QED BY <2>2, <2>3, <3>2
  <2>6. (\A k \in m .. c : k \in m .. Here - 1 \/ k = c) /\ D(c) = D(m)
    <3>1. D(Here) = DepthIn(N) /\ N \in Nat /\ m \in 1 .. Len(Text) + 1
      BY <2>3, KnownHas
    <3>2. D(m) \in Nat
      BY <3>1, KnownHas
    <3>3. D(c) = D(m)
      BY <2>1, <2>2, <2>3, <3>1, <3>2 DEF DepthIn
    <3> QED BY <2>3, <3>3
  <2>7. CASE stack[N].at = "say"
    <3>1. \A k \in m .. Here - 1 : Kind(script, k) = "say"
      BY <2>1, <2>2, <2>7, CalledFor
    <3>2. \A k \in m .. c : Kind(script, k) = "say"
      BY <2>4, <2>6, <2>7, <3>1
    <3> QED BY <2>2, <2>3, <2>5, <2>6, <3>2 DEF RunTo
  <2>8. CASE stack[N].at = "choice"
    <3>1. \A k \in m .. Here - 1 : Kind(script, k) \in Menus
      BY <2>1, <2>2, <2>8, CalledFor
    <3>2. \A k \in m .. c : Kind(script, k) \in Menus
      BY <2>4, <2>6, <2>8, <3>1
    <3> QED BY <2>2, <2>3, <2>5, <2>6, <3>2 DEF RunTo
  <2> QED BY <2>4, <2>7, <2>8
<1>4. ASSUME NEW m \in Lines, NEW n \in Taken(m)' PROVE RunTo(m, n)
  <2>1. CASE n \in Taken(m)
    BY <2>1 DEF Parts
  <2>2. CASE n \notin Taken(m)
    <3>1. Merged(c) /\ m = stack[N].of /\ n = c
      BY <1>1, <1>4, <2>2, TakenIs
    <3> QED BY <1>3, <3>1
  <2> QED BY <2>1, <2>2
<1>5. ASSUME NEW m \in Lines, NEW n \in Taken(m)' PROVE RunTo(m, n)'
  <2>1. RunTo(m, n)
    BY <1>4
  <2> QED BY <1>1, <1>2, <2>1 DEF RunTo
<1> QED BY <1>1, <1>5 DEF Parts

(* Lists lose nothing. *)
LEMMA ListsGrow ==
  ASSUME NEW c, Step(c), Reads(c), NEW m, InList(m)
  PROVE  InList(m)'
<1>1. PICK b \in 0 .. Len(script) : m \in Within(b)
  BY DEF InList
<1>2. script' = script
  BY DEF Step, Rest
<1>3. m \in Within(b)'
  BY <1>1, WithinIs
<1> QED BY <1>1, <1>2, <1>3 DEF InList

(* Blocks are blocks of their menus. *)
LEMMA ReadsHeads ==
  ASSUME NEW c, Known(c), Reads(c), Seen, Heads
  PROVE  Heads'
<1>1. Step(c) /\ Rest /\ script' = script /\ Lines' = Lines
  BY TextKept DEF Known, Step, Rest
<1>2. Text' = Text /\ (\A n : D(n)' = D(n))
  BY <1>1, TextKept
<1>3. /\ N \in Nat /\ N >= 1 /\ N \in 1 .. N /\ Len(stack) = N /\ Len(Text) \in Nat /\ Here \in Nat
  BY KnownHas
<1>4. ASSUME NEW m, Consumes(m) PROVE Consumes(m)' \/ InList(m)'
  <2>1. CASE ~Back(c) \/ m # stack[N].of
    BY <1>1, <1>4, <2>1, OpenIs DEF Reads
  <2>2. CASE Back(c) /\ m = stack[N].of
    <3>1. PICK b \in 0 .. Len(script) : b = stack[N - 1].of
      BY <1>1, <2>2, ListsAre DEF Reads
    <3>2. m \in Within(b)'
      BY <1>1, <2>2, <3>1, WithinIs
    <3> QED BY <1>1, <3>2 DEF InList
  <2> QED BY <2>1, <2>2
<1>5. ASSUME Closed(c) PROVE HeadsAt(stack[N - 1].of, stack[N].of)
  <2>1. N > 2 /\ N - 1 \in 2 .. Len(stack)
    BY <1>1, <1>3, <1>5, ClosedStack
  <2>2. PICK f \in 1 .. Len(Text) : f = stack[N].of
    BY <1>5, Closes
  <2>3. PICK m \in 1 .. Len(Text) : m = stack[N - 1].of /\ m < f
    BY <1>5, <2>2, Closes
  <2>4. ~IsLoop(stack[N - 1]) /\ OpenMenu(N - 1) /\ Kind(script, f) = "for" /\ f \in Answers(Text, m) /\ D(f) = D(m)
    BY <1>5, <2>2, <2>3, Closes
  <2>5. Kind(script, m) \in Menus
    BY <2>3, <2>4 DEF OpenMenu, HeadOf
  <2>6. Consumes(m)
    BY <2>1, <2>3, <2>4 DEF Consumes
  <2> QED BY <2>2, <2>3, <2>4, <2>5, <2>6 DEF HeadsAt
<1>6. ASSUME NEW m \in Lines, NEW f \in ToSet(blocks'[m]) PROVE HeadsAt(m, f)
  <2>1. CASE f \in ToSet(blocks[m])
    BY <2>1 DEF Heads
  <2>2. CASE f \notin ToSet(blocks[m])
    <3>1. Closed(c) /\ m = stack[N - 1].of /\ f = stack[N].of
      BY <1>1, <1>6, <2>2, HeadsAre
    <3> QED BY <1>5, <3>1
  <2> QED BY <2>1, <2>2
<1>7. ASSUME NEW m \in Lines, NEW f \in ToSet(blocks'[m]) PROVE HeadsAt(m, f)'
  <2>1. HeadsAt(m, f)
    BY <1>6
  <2>2. Consumes(m)' \/ InList(m)'
    BY <1>1, <1>4, <2>1, ListsGrow DEF HeadsAt
  <2> QED BY <1>1, <1>2, <2>1, <2>2 DEF HeadsAt
<1> QED BY <1>1, <1>7 DEF Heads

(* A plain instruction goes to a list at once. *)
LEMMA ReadsPlains ==
  ASSUME NEW c, Known(c), Reads(c), Plains
  PROVE  Plains'
<1>1. Step(c) /\ Rest /\ script' = script
  BY DEF Known, Step, Rest
<1>2. Text' = Text
  BY <1>1, TextKept
<1>3. Here \in Nat /\ Len(Text) \in Nat /\ Len(Text) <= Len(script) /\ (c = 0 <=> Here = Len(script) + 1) /\ (c # 0 => c = Here)
  BY KnownHas
<1>4. ASSUME NEW n \in 1 .. Len(Text), n < Here', Kind(script, n) \notin {"say", "for", "end"} \cup Menus PROVE InList(n)'
  <2>1. CASE n < Here
    BY <1>1, <1>4, <2>1, ListsGrow DEF Plains
  <2>2. CASE ~(n < Here)
    <3>1. Here' = Here \/ Here' = Here + 1
      BY <1>1, <1>3, PlainNested, CalledNested, ClosedNested, BackNested, MergedNested, EnteredNested, HereMoves DEF Reads, Step, Ended
    <3>2. n = Here /\ Here' # Here
      BY <1>3, <1>4, <2>2, <3>1
    <3>3. n = c
      BY <1>3, <3>2
    <3>4. ~Called(c) /\ ~Merged(c) /\ ~Entered(c)
      BY <1>4, <3>3 DEF Called, Merged, Entered, Is
    <3>5. ~Closed(c)
      BY <1>4, <3>3, Closes
    <3>6. ~Back(c)
      BY <1>1, <3>2, BackNested
    <3>7. ~Ended(c)
      <4> SUFFICES ASSUME Ended(c) PROVE FALSE
        OBVIOUS
      <4>1. IsLoop(stack[N]) /\ stack[N].of = 0 /\ Stops(c) /\ c # 0
        BY <1>3, <3>2 DEF Ended
      <4>2. ShouldStop(c)
        BY <4>1 DEF Stops
      <4>3. Here >= Len(Text) + 1
        BY <1>3, <3>2, <4>2, StopsThere
      <4> QED BY <1>3, <3>2, <4>3
    <3>8. Plain(c)
      BY <3>4, <3>5, <3>6, <3>7 DEF Reads
    <3>9. PICK b \in 0 .. Len(script) : b = stack[N].of
      BY <1>1, <3>8, ListsAre
    <3>10. c \in Within(b)'
      BY <1>1, <3>8, <3>9, WithinIs
    <3> QED BY <1>1, <3>3, <3>10 DEF InList
  <2> QED BY <2>1, <2>2
<1>5. ASSUME NEW n \in 1 .. Len(Text), (n < Here)', Kind(script, n) \notin {"say", "for", "end"} \cup Menus PROVE InList(n)'
  BY <1>4, <1>5
<1> QED BY <1>1, <1>2, <1>5 DEF Plains

(* The operands of a line that nothing was merged with.                        *)
LEMMA OperandPaired ==
  ASSUME NEW n
  PROVE  /\ Kind(script, n) = "choicetitle" => Len(OperandOf(script, n)) = 2 * 0 + 1
         /\ Kind(script, n) = "choice" => Len(OperandOf(script, n)) = 2 * 1
<1>1. \A x, y : Len(<<x>>) = 2 * 0 + 1 /\ Len(<<x, y>>) = 2 * 1
  OBVIOUS
<1>2. ASSUME Kind(script, n) = "choicetitle" PROVE Len(OperandOf(script, n)) = 2 * 0 + 1
  <2>1. OperandOf(script, n) = <<[what |-> "text", line |-> n]>>
    BY <1>2 DEF OperandOf
  <2> QED BY <1>1, <2>1
<1>3. ASSUME Kind(script, n) = "choice" PROVE Len(OperandOf(script, n)) = 2 * 1
  <2>1. OperandOf(script, n) = <<[what |-> "name", line |-> n], [what |-> "text", line |-> n]>>
    BY <1>3 DEF OperandOf
  <2> QED BY <1>1, <2>1
<1> QED BY <1>2, <1>3

(* A menu takes whole choices over. *)
LEMMA ReadsPaired ==
  ASSUME NEW c, Known(c), Reads(c), Seen, Paired
  PROVE  Paired'
<1>1. Step(c) /\ Rest /\ script' = script /\ Lines' = Lines /\ Tidy /\ Untouched
  BY TextKept DEF Known, Step, Rest
<1>2. N \in Nat /\ N \in 1 .. N /\ Len(Text) \in Nat /\ Here \in Nat
  BY KnownHas
<1>3. operand \in [Lines -> Seq([what : {"name", "text"}, line : 1 .. Len(script)])]
  BY <1>1 DEF Step, TypeOK, Lines
<1>4. ASSUME Merged(c), Kind(script, stack[N].of) \in Menus
      PROVE  Len(operand'[stack[N].of]) = Len(operand[stack[N].of]) + 2 /\ Len(operand[stack[N].of]) \in Nat
  <2>1. N > 1 /\ ~IsLoop(stack[N]) /\ c \in Lines
    BY <1>1, <1>4, MergedStack
  <2>2. PICK m \in 1 .. Len(Text) : m = stack[N].of /\ m < Here
    BY <2>1, CalledFor
  <2>3. stack[N].at = "choice" /\ Kind(script, c) \in Menus
    <3>1. stack[N].at # "say"
      <4>1. Kind(script, stack[N].of) # "say"
        BY <1>4 DEF Menus
      <4> QED BY <2>1, <4>1, CalledFor
    <3> QED BY <1>4, <3>1 DEF Merged, Is
  <2>4. c = Here /\ c # 0
    BY <2>1, KnownHas DEF Lines
  <2>5. Kind(script, Here - 1) \in Menus /\ Here - 1 \in 1 .. Len(Text)
    <3>1. Here - 1 \in m .. Here - 1
      BY <1>2, <2>2
    <3>2. Kind(script, Here - 1) \in Menus
      BY <2>1, <2>2, <2>3, <3>1, CalledFor
    <3>3. Here <= Len(Text) + 1
      BY KnownHas
    <3> QED BY <1>2, <2>2, <3>1, <3>2, <3>3
  <2>6. Kind(script, c) = "choice"
    <3>1. (Here - 1) + 1 = c
      BY <1>2, <2>4
    <3>2. Kind(script, c) \in {"choice", "for"}
      BY <1>1, <2>5, <3>1 DEF Tidy
    <3> QED BY <2>3, <3>2 DEF Menus
  <2>7. operand[c] = OperandOf(script, c)
    BY <1>1, <1>2, <2>1, <2>4 DEF Untouched
  <2>8. Len(operand[c]) = 2
    BY <2>6, <2>7, OperandPaired
  <2>9. operand'[m] = operand[m] \o operand[c] /\ m \in Lines
    BY <1>1, <1>3, <1>4, <2>2, OperandsAre
  <2>10. operand[m] \in Seq([what : {"name", "text"}, line : 1 .. Len(script)]) /\ operand[c] \in Seq([what : {"name", "text"}, line : 1 .. Len(script)])
    BY <1>3, <2>1, <2>9
  <2>11. Len(operand[m] \o operand[c]) = Len(operand[m]) + Len(operand[c]) /\ Len(operand[m]) \in Nat
    BY <2>10
  <2> QED BY <2>2, <2>8, <2>9, <2>11
<1>5. ASSUME NEW m \in Lines, Kind(script, m) \in Menus
      PROVE \E p \in Nat : Len(operand'[m]) = IF Kind(script, m) = "choicetitle" THEN 2 * p + 1 ELSE 2 * p
  <2>1. PICK p \in Nat : Len(operand[m]) = IF Kind(script, m) = "choicetitle" THEN 2 * p + 1 ELSE 2 * p
    BY <1>5 DEF Paired, PairedAt
  <2>2. CASE operand'[m] = operand[m]
    BY <2>1, <2>2
  <2>3. CASE operand'[m] # operand[m]
    <3>1. Merged(c) /\ m = stack[N].of
      BY <1>1, <1>3, <2>3, OperandsAre
    <3>2. Len(operand'[m]) = Len(operand[m]) + 2
      BY <1>4, <1>5, <3>1
    <3>3. p + 1 \in Nat /\ 2 * (p + 1) = 2 * p + 2 /\ 2 * (p + 1) + 1 = (2 * p + 1) + 2
      OBVIOUS
    <3> QED BY <2>1, <3>2, <3>3
  <2> QED BY <2>2, <2>3
<1> QED BY <1>1, <1>5 DEF Paired, PairedAt

(* A line's own operands. *)
LEMMA OperandLined ==
  ASSUME NEW n
  PROVE  /\ \A k \in 1 .. Len(OperandOf(script, n)) : OperandOf(script, n)[k].line = n
         /\ Kind(script, n) \in Menus => Len(OperandOf(script, n)) >= 1
         /\ Kind(script, n) = "choicetitle" => Len(OperandOf(script, n)) = 1
<1>1. \A x, y : /\ Len(<<x>>) = 1 /\ Len(<<x, y>>) = 2 /\ Len(<< >>) = 0
                /\ <<x>>[1] = x /\ <<x, y>>[1] = x /\ <<x, y>>[2] = y
  OBVIOUS
<1>2. \A i : i \in 1 .. 2 => i = 1 \/ i = 2
  OBVIOUS
<1>3. \A i : i \in 1 .. 1 => i = 1
  OBVIOUS
<1>4. [what |-> "text", line |-> n].line = n /\ [what |-> "name", line |-> n].line = n
  OBVIOUS
<1>5. CASE Kind(script, n) \in {"say", "choicetitle"}
  <2>1. OperandOf(script, n) = <<[what |-> "text", line |-> n]>> /\ Kind(script, n) # "choice"
    BY <1>5 DEF OperandOf
  <2> QED BY <1>1, <1>3, <1>4, <2>1
<1>6. CASE Kind(script, n) = "choice"
  <2>1. OperandOf(script, n) = <<[what |-> "name", line |-> n], [what |-> "text", line |-> n]>>
    BY <1>6 DEF OperandOf
  <2> QED BY <1>1, <1>2, <1>4, <1>6, <2>1
<1>7. CASE Kind(script, n) \notin {"say", "choicetitle", "choice"}
  <2>1. OperandOf(script, n) = << >>
    BY <1>7 DEF OperandOf
  <2>2. \A i : i \notin 1 .. 0
    OBVIOUS
  <2> QED BY <1>1, <1>7, <2>1, <2>2 DEF Menus
<1> QED BY <1>5, <1>6, <1>7

(* It stays at the beginning. *)
LEMMA ReadsLined ==
  ASSUME NEW c, Known(c), Reads(c), Lined
  PROVE  Lined'
<1> DEFINE R == [what : {"name", "text"}, line : 1 .. Len(script)]
<1>1. Step(c) /\ Rest /\ script' = script /\ Lines' = Lines /\ Untouched
  BY TextKept DEF Known, Step, Rest
<1>2. operand \in [Lines -> Seq(R)]
  BY <1>1 DEF Step, TypeOK, Lines
<1> SUFFICES ASSUME NEW m \in Lines, Kind(script, m) \in Menus
             PROVE  /\ Len(operand'[m]) >= 1 /\ operand'[m][1].line = m
                    /\ Kind(script, m) = "choicetitle" => \A k \in 2 .. Len(operand'[m]) : operand'[m][k].line # m
  BY <1>1 DEF Lined, LinedAt
<1>3. /\ Len(operand[m]) >= 1 /\ operand[m][1].line = m
      /\ Kind(script, m) = "choicetitle" => \A k \in 2 .. Len(operand[m]) : operand[m][k].line # m
  BY DEF Lined, LinedAt
<1>4. CASE operand'[m] = operand[m]
  BY <1>3, <1>4
<1>5. CASE operand'[m] # operand[m]
  <2>1. Merged(c) /\ m = stack[N].of /\ c \in Lines /\ operand'[m] = operand[m] \o operand[c]
    <3>1. Merged(c)
      BY <1>1, <1>5, OperandsAre
    <3>2. stack[N].of \in Lines /\ c \in Lines /\ operand' = [operand EXCEPT ![stack[N].of] = @ \o operand[c]]
      BY <1>1, <3>1, OperandsAre
    <3>3. m = stack[N].of
      BY <1>2, <1>5, <3>2
    <3> QED BY <1>2, <3>1, <3>2, <3>3
  <2>2. N > 1 /\ N \in 1 .. N /\ c = Here /\ m < Here
    BY <1>1, <2>1, MergedStack, KnownHas DEF Lines
  <2>3. operand[c] = OperandOf(script, c) /\ c # m
    <3>1. Here \in Nat
      BY KnownHas
    <3> QED BY <1>1, <2>1, <2>2, <3>1 DEF Untouched
  <2>4. \A k \in 1 .. Len(operand[c]) : operand[c][k].line = c
    BY <2>3, OperandLined
  <2>5. PICK s \in Seq(R), t \in Seq(R) : s = operand[m] /\ t = operand[c]
    BY <1>2, <2>1
  <2> HIDE DEF R
  <2>6. Len(s) \in Nat /\ Len(t) \in Nat /\ Len(s) >= 1 /\ s[1].line = m
    BY <1>3, <2>5
  <2>7. /\ Len(s \o t) = Len(s) + Len(t)
        /\ \A i \in 1 .. Len(s) + Len(t) : (s \o t)[i] = IF i <= Len(s) THEN s[i] ELSE t[i - Len(s)]
    BY ConcatProperties
  <2>8. Len(s \o t) >= 1 /\ (s \o t)[1].line = m
    <3>1. 1 \in 1 .. Len(s) + Len(t) /\ 1 <= Len(s)
      BY <2>6
    <3> QED BY <2>6, <2>7, <3>1
  <2>9. ASSUME Kind(script, m) = "choicetitle", NEW k \in 2 .. Len(s \o t) PROVE (s \o t)[k].line # m
    <3>1. k \in 1 .. Len(s) + Len(t) /\ k \in Nat
      BY <2>6, <2>7, <2>9
    <3>2. CASE k <= Len(s)
      <4>1. k \in 2 .. Len(s)
        BY <2>6, <2>9, <3>1, <3>2
      <4>2. s[k].line # m
        BY <1>3, <2>5, <2>9, <4>1
      <4> QED BY <2>7, <3>1, <3>2, <4>2
    <3>3. CASE ~(k <= Len(s))
      <4>1. k - Len(s) \in 1 .. Len(t)
        BY <2>6, <3>1, <3>3
      <4>2. t[k - Len(s)].line = c
        BY <2>4, <2>5, <4>1
      <4> QED BY <2>3, <2>7, <3>1, <3>3, <4>2
    <3> QED BY <3>2, <3>3
  <2> QED BY <2>1, <2>5, <2>8, <2>9
<1> QED BY <1>4, <1>5

(* The lines read last are known after a step, too. *)
LEMMA ReadsSeen ==
  ASSUME NEW c, Known(c), Reads(c), ~Ended(c), Seen
  PROVE  Seen'
<1>1. Step(c) /\ Rest /\ script' = script
  BY DEF Known, Step, Rest
<1>2. Text' = Text
  BY <1>1, TextKept
<1>3. /\ N \in Nat /\ N >= 1 /\ N \in 1 .. N /\ Len(stack) = N /\ Here \in Nat /\ Len(Text) \in Nat /\ Len(Text) <= Len(script)
      /\ Len(script) \in Nat /\ Here >= 1
      /\ (c = 0 <=> Here = Len(script) + 1) /\ (c # 0 => c = Here)
  BY KnownHas
<1>4. PICK f : f = stack'[Len(stack')]
  OBVIOUS
<1>11. SeenBy(f)' => Seen'
  BY <1>4 DEF Seen, SeenBy
<1>5. CASE Plain(c)
  <2>1. Len(stack') = N /\ stack'[N].at = "next" /\ Here' = Here + 1 /\ c # 0 /\ Kind(script, c) # "say"
    BY <1>1, <1>5, PlainStack, PlainNested DEF Plain, Is
  <2>2. Here' - 1 = c
    BY <1>3, <2>1
  <2>3. SeenBy(f)'
    BY <1>1, <1>4, <2>1, <2>2 DEF SeenBy
  <2> QED BY <1>11, <2>3
<1>6. CASE Called(c)
  <2>1. /\ Len(stack') = N + 1 /\ stack'[N + 1].at = (IF Is(c, {"say"}) THEN "say" ELSE "choice") /\ stack'[N + 1].of = c
        /\ Here' = Here + 1 /\ c # 0
    BY <1>1, <1>6, CalledStack, CalledNested DEF Called
  <2>2. Here' - 1 = c /\ c = Here
    BY <1>3, <2>1
  <2>3. ASSUME Is(c, {"say"}) PROVE /\ \A k \in c .. c : Kind(script, k) = "say"
                                    /\ c > 1 => Kind(script, c - 1) # "say"
    <3>1. Kind(script, c) = "say"
      BY <2>3 DEF Is
    <3>2. \A k \in c .. c : k = c
      BY <1>3, <2>2
    <3>3. c \in 1 .. Len(Text) /\ IsLoop(stack[N])
      BY <1>6, <2>1, InBlock DEF Called
    <3>4. c > 1 => Kind(script, c - 1) # "say"
      BY <1>3, <2>2, <3>1, <3>3 DEF Seen, SeenBy
    <3> QED BY <3>1, <3>2, <3>4
  <2>4. SeenBy(f)'
    <3>1. ~IsLoop(stack'[N + 1]) /\ stack'[N + 1].at # "for" /\ (stack'[N + 1].at = "say" => Is(c, {"say"}))
      BY <2>1 DEF IsLoop
    <3> QED BY <1>1, <1>4, <2>1, <2>2, <2>3, <3>1 DEF SeenBy, IsLoop
  <2> QED BY <1>11, <2>4
<1>7. CASE Closed(c)
  <2>1. N > 2 /\ Len(stack') = N - 1 /\ stack'[N - 1].at = "for" /\ Kind(script, c) = "end" /\ c = Here /\ c \in 1 .. Len(Text)
    BY <1>1, <1>7, ClosedStack, Closes
  <2>2. Here' = Here + 1 /\ Here' - 1 = c /\ Here' > 1
    <3>1. c # 0 /\ Here' = Here + (IF c = 0 THEN 0 ELSE 1)
      BY <1>1, <1>7, <2>1, ClosedNested
    <3> QED BY <1>3, <2>1, <3>1
  <2>3. SeenBy(f)'
    BY <1>1, <1>4, <2>1, <2>2 DEF SeenBy, IsLoop
  <2> QED BY <1>11, <2>3
<1>8. CASE Back(c)
  <2>1. /\ N > 1 /\ stack[N - 1].at = "next" /\ ~IsLoop(stack[N]) /\ Len(stack') = N - 1 /\ Here' = Here
        /\ stack'[N - 1] = stack[N - 1]
    <3>1. N > 1 /\ \A i \in 1 .. N - 1 : stack'[i] = stack[i]
      BY <1>1, <1>8, BackStack
    <3>2. N - 1 \in 1 .. N - 1
      BY <1>3, <3>1
    <3> QED BY <1>1, <1>8, <3>1, <3>2, BackStack, BackNested
  <2>2. ASSUME Here <= Len(Text), Here > 1, Kind(script, Here - 1) = "say" PROVE Kind(script, Here) # "say"
    <3>1. c = Here /\ c # 0
      BY <1>3, <2>2
    <3>2. CASE stack[N].at = "say"
      BY <1>8, <3>1, <3>2 DEF Back, Is
    <3>3. stack[N].at # "choice"
      <4> SUFFICES ASSUME stack[N].at = "choice" PROVE FALSE
        OBVIOUS
      <4>1. PICK m \in 1 .. Len(Text) : m = stack[N].of /\ m < Here
        BY <2>1, CalledFor
      <4>2. Here - 1 \in m .. Here - 1
        BY <1>3, <4>1
      <4>3. Kind(script, Here - 1) \in Menus
        BY <2>1, <4>1, <4>2, CalledFor
      <4> QED BY <2>2, <4>3 DEF Menus
    <3>4. stack[N].at # "for"
      BY <1>3, <2>2 DEF Seen, SeenBy
    <3> QED BY <1>8, <3>2, <3>3, <3>4 DEF Back
  <2>3. SeenBy(f)'
    BY <1>1, <1>2, <1>4, <2>1, <2>2 DEF SeenBy
  <2> QED BY <1>11, <2>3
<1>9. CASE Merged(c)
  <2>1. /\ N > 1 /\ ~IsLoop(stack[N]) /\ c \in Lines /\ Len(stack') = N /\ stack'[N].at = stack[N].at /\ stack'[N].of = stack[N].of
        /\ Here' = Here + 1
    BY <1>1, <1>9, MergedStack, MergedNested
  <2>2. PICK m \in 1 .. Len(Text) : m = stack[N].of /\ m < Here
    BY <2>1, CalledFor
  <2>3. c = Here /\ Here' - 1 = Here /\ c # 0
    BY <1>3, <2>1 DEF Lines
  <2>4. ASSUME stack[N].at = "say" PROVE (\A k \in m .. Here : Kind(script, k) = "say") /\ (m > 1 => Kind(script, m - 1) # "say")
    <3>1. Kind(script, Here) = "say"
      BY <1>9, <2>3, <2>4 DEF Merged, Is
    <3>2. \A k \in m .. Here - 1 : Kind(script, k) = "say"
      BY <2>1, <2>2, <2>4, CalledFor
    <3>3. \A k \in m .. Here : k \in m .. Here - 1 \/ k = Here
      BY <1>3
    <3>4. m > 1 => Kind(script, m - 1) # "say"
      BY <2>1, <2>2, <2>4, CalledFor
    <3> QED BY <3>1, <3>2, <3>3, <3>4
  <2>5. stack[N].at # "for"
    BY <1>9 DEF Merged
  <2>6. SeenBy(f)'
    BY <1>1, <1>4, <2>1, <2>2, <2>3, <2>4, <2>5 DEF SeenBy, IsLoop
  <2> QED BY <1>11, <2>6
<1>10. CASE Entered(c)
  <2>1. Len(stack') = N + 1 /\ stack'[N + 1].at = "first" /\ Here' = Here + 1 /\ c # 0 /\ Kind(script, c) = "for"
    BY <1>1, <1>10, EnteredStack, EnteredNested DEF Entered, Is
  <2>2. Here' - 1 = c
    BY <1>3, <2>1
  <2>3. SeenBy(f)'
    BY <1>1, <1>4, <2>1, <2>2 DEF SeenBy
  <2> QED BY <1>11, <2>3
<1> QED BY <1>5, <1>6, <1>7, <1>8, <1>9, <1>10 DEF Reads

(* Supported scripts are read without an exception. *)
LEMMA NotRefused ==
  ASSUME NEW c, Known(c), Seen, Supported(Text)
  PROVE  ~Throws(c)
<1> SUFFICES ASSUME Throws(c) PROVE FALSE
  OBVIOUS
<1>1. Tidy /\ Nested /\ TypeOK
  BY DEF Known, Step
<1>2. /\ N \in Nat /\ N >= 1 /\ N \in 1 .. N /\ Len(stack) = N /\ Here \in Nat /\ Len(Text) \in Nat /\ Len(Text) <= Len(script)
      /\ Len(script) \in Nat /\ Here >= 1 /\ Here <= Len(Text) + 1 /\ D(Here) = DepthIn(N)
      /\ (c = 0 <=> Here = Len(script) + 1) /\ (c # 0 => c = Here /\ c \in Lines)
  BY KnownHas
<1>3. Top = stack[N]
  BY <1>2 DEF Top, Last
<1>4. ~Is(c, {"bad"})
  <2> SUFFICES ASSUME c # 0, Kind(script, c) = "bad" PROVE FALSE
    BY DEF Is
  <2>1. c <= Len(Text)
    BY BeyondText
  <2>2. c \in 1 .. Len(Text)
    BY <1>2, <2>1 DEF Lines
  <2> QED BY <1>1, <2>2 DEF Tidy
<1>5. c = 0 /\ Here = Len(Text) + 1 /\ D(Here) = 0
  <2>1. c = 0
    BY <1>4 DEF Throws
  <2>2. Here = Len(Text) + 1
    BY <1>2, <2>1
  <2> QED BY <1>1, <2>1, <2>2 DEF Tidy
<1>6. stack[N].of # 0 \/ ~IsLoop(stack[N])
  BY <1>3, <1>4 DEF Throws, IsLoop
<1>7. N > 1
  BY <1>1, <1>2, <1>6 DEF Nested
<1>8. stack[N].of \in 1 .. Len(Text) /\ D(stack[N].of) \in Nat
  BY <1>2, <1>7, KnownHas
<1>9. ~IsLoop(stack[N]) /\ stack[N].at \in {"choice", "for"}
  <2>1. ~IsLoop(stack[N])
    <3> SUFFICES ASSUME IsLoop(stack[N]) PROVE FALSE
      OBVIOUS
    <3>1. DepthIn(N) = D(stack[N].of) + 1
      BY <1>2, <1>7 DEF DepthIn
    <3> QED BY <1>2, <1>5, <1>8, <3>1
  <2> QED BY <1>3, <1>4, <2>1 DEF Throws, IsLoop
<1>10. Here - 1 = Len(Text) /\ Len(Text) \in 1 .. Len(Text) /\ Here > 1
  BY <1>2, <1>5, <1>8
<1>11. CASE stack[N].at = "choice"
  <2>1. PICK m \in 1 .. Len(Text) : m = stack[N].of /\ m < Here
    BY <1>7, <1>9, CalledFor
  <2>2. Here - 1 \in m .. Here - 1
    BY <1>2, <2>1
  <2>3. Kind(script, Here - 1) \in Menus
    BY <1>7, <1>9, <1>11, <2>1, <2>2, CalledFor
  <2>4. Len(Text) < Len(Text)
    BY <1>1, <1>10, <2>3 DEF Tidy
  <2> QED BY <1>2, <2>4
<1>12. CASE stack[N].at = "for"
  <2>1. Kind(script, Len(Text)) = "end"
    BY <1>2, <1>10, <1>12 DEF Seen, SeenBy
  <2>2. Kind(Text, Len(Text)) = "end"
    BY <1>1, <1>10, <2>1, TextIs
  <2>3. Text # <<>>
    BY <1>10
  <2> QED BY <2>2, <2>3 DEF Supported
<1> QED BY <1>9, <1>11, <1>12

(* The invariant that the compiler needs. *)
Prepared ==
  /\ Sound /\ Parts /\ Heads /\ Paired /\ Lined
  /\ status # "thrown" => Plains
  /\ status = "reading" => Seen
  /\ status = "read" => Here > Len(Text)
  /\ Supported(Text) => status # "thrown"
CompilerInv == ReadInv /\ (WellFormed(Text) => Prepared)

(* It holds before the first line. *)
LEMMA InitCompiler == Init => CompilerInv
<1> SUFFICES ASSUME Init PROVE CompilerInv
  OBVIOUS
<1>1. /\ pos = 1 /\ peeked = 0 /\ stack = <<Frame("first", 0, 0)>> /\ status = "reading"
      /\ lists = [b \in 0 .. Len(script) |-> << >>]
      /\ operand = [n \in 1 .. Len(script) |-> OperandOf(script, n)]
      /\ blocks = [n \in 1 .. Len(script) |-> << >>]
  BY DEF Init
<1>2. ReadInv /\ TypeOK
  BY InitRead DEF ReadInv, ReaderInv
<1>3. Here = 1 /\ Len(stack) = 1 /\ stack[1].at = "first" /\ IsLoop(stack[1])
  BY <1>1 DEF Here, Frame, IsLoop
<1>4. Sound
  BY <1>1 DEF Sound, Within, ToSet
<1>5. Parts
  <2>1. ASSUME NEW m \in Lines, NEW n \in Taken(m) PROVE FALSE
    <3>1. operand[m] = OperandOf(script, m)
      BY <1>1 DEF Lines
    <3>2. PICK k \in DOMAIN OperandOf(script, m) : OperandOf(script, m)[k].line = n /\ n # m
      BY <2>1, <3>1 DEF Taken
    <3>3. \A x, y : DOMAIN <<x>> = {1} /\ DOMAIN <<x, y>> = {1, 2} /\ DOMAIN <<>> = {}
      OBVIOUS
    <3> QED BY <3>2, <3>3 DEF OperandOf
  <2> QED BY <2>1 DEF Parts
<1>6. Heads
  BY <1>1 DEF Heads, Lines, ToSet
<1>7. Plains
  <2>1. \A n \in 1 .. Len(Text) : ~(n < 1)
    BY <1>2, TextIs
  <2> QED BY <1>3, <2>1 DEF Plains
<1>8. Paired
  <2>1. ASSUME NEW m \in Lines, Kind(script, m) \in Menus
        PROVE  \E p \in Nat : Len(operand[m]) = IF Kind(script, m) = "choicetitle" THEN 2 * p + 1 ELSE 2 * p
    <3>1. operand[m] = OperandOf(script, m)
      BY <1>1 DEF Lines
    <3>2. CASE Kind(script, m) = "choicetitle"
      BY <3>1, <3>2, OperandPaired
    <3>3. CASE Kind(script, m) # "choicetitle"
      <4>1. Kind(script, m) = "choice"
        BY <2>1, <3>3 DEF Menus
      <4>2. Len(operand[m]) = 2 * 1
        BY <3>1, <4>1, OperandPaired
      <4> QED BY <3>3, <4>2
    <3> QED BY <3>2, <3>3
  <2> QED BY <2>1 DEF Paired, PairedAt
<1>9. Seen
  <2>1. ~(Here > 1)
    BY <1>3
  <2> QED BY <1>3, <2>1 DEF Seen, SeenBy
<1>10. Lined
  <2>1. \A m \in Lines : operand[m] = OperandOf(script, m)
    BY <1>1 DEF Lines
  <2>2. \A k \in 2 .. 1 : FALSE
    OBVIOUS
  <2>3. ASSUME NEW m \in Lines, Kind(script, m) \in Menus PROVE Len(operand[m]) >= 1 /\ operand[m][1].line = m
    <3>1. Len(operand[m]) >= 1 /\ \A k \in 1 .. Len(operand[m]) : operand[m][k].line = m
      BY <2>1, <2>3, OperandLined
    <3>2. Len(operand[m]) \in Nat
      BY <1>2 DEF TypeOK, Lines
    <3>3. 1 \in 1 .. Len(operand[m])
      BY <3>1, <3>2
    <3> QED BY <3>1, <3>3
  <2>4. ASSUME NEW m \in Lines, Kind(script, m) = "choicetitle" PROVE Len(operand[m]) = 1
    BY <2>1, <2>4, OperandLined
  <2> QED BY <2>2, <2>3, <2>4 DEF Lined, LinedAt
<1> QED BY <1>1, <1>2, <1>4, <1>5, <1>6, <1>7, <1>8, <1>9, <1>10 DEF CompilerInv, Prepared

(* A step keeps it. *)
LEMMA NextCompiler == CompilerInv /\ Next => CompilerInv'
<1> SUFFICES ASSUME CompilerInv, Next PROVE CompilerInv'
  OBVIOUS
<1>1. status = "reading" /\ ReadInv /\ ReadInv' /\ ReaderInv /\ AsWritten
  BY NextRead DEF CompilerInv, ReadInv, Next
<1>2. TypeOK /\ Standing /\ Nested /\ Untouched
  BY <1>1 DEF ReaderInv
<1>4. PICK c : c = Current
  OBVIOUS
<1>5. Step(c) /\ Rest /\ ((Throws(c) /\ Stopped(c)) \/ Reads(c))
  BY <1>2, <1>4, StepIs DEF Step, Reads
<1>6. Text' = Text /\ script' = script
  BY <1>5, TextKept DEF Rest
<1> SUFFICES ASSUME WellFormed(Text) PROVE Prepared'
  BY <1>1, <1>6 DEF CompilerInv
<1>7. Known(c) /\ Prepared /\ Seen
  <2>1. Tidy
    BY <1>2, TidyIs
  <2> QED BY <1>1, <1>2, <1>5, <2>1 DEF AsWritten, Known, Tracking, CompilerInv, Prepared
<1>8. CASE Throws(c) /\ Stopped(c)
  <2>1. status' = "thrown" /\ UNCHANGED <<peeked, stack, lists, operand, blocks>> /\ ~Supported(Text)
    BY <1>7, <1>8, NotRefused DEF Stopped
  <2>2. Lines' = Lines /\ \A n : D(n)' = D(n)
    BY <1>5, TextKept
  <2>3. Sound'
    BY <1>6, <1>7, <2>1, <2>2 DEF Prepared, Sound, SoundAt, AtBlock, Within
  <2>4. Parts'
    BY <1>6, <1>7, <2>1, <2>2 DEF Prepared, Parts, RunTo, Taken
  <2>5. Heads'
    BY <1>6, <1>7, <2>1, <2>2 DEF Prepared, Heads, HeadsAt, Consumes, InList, Within
  <2>6. Paired'
    BY <1>6, <1>7, <2>1, <2>2 DEF Prepared, Paired, PairedAt
  <2>7. Lined'
    BY <1>6, <1>7, <2>1, <2>2 DEF Prepared, Lined, LinedAt
  <2> QED BY <1>6, <2>1, <2>3, <2>4, <2>5, <2>6, <2>7 DEF Prepared
<1>9. CASE Reads(c)
  <2>1. Sound' /\ Parts' /\ Heads' /\ Plains' /\ Paired' /\ Lined'
    BY <1>1, <1>7, <1>9, ReadsSound, ReadsParts, ReadsHeads, ReadsPlains, ReadsPaired, ReadsLined DEF Prepared
  <2>2. status' # "thrown" /\ (status' = "read" <=> Ended(c))
    BY <1>1, <1>5, <1>9, ReadsNested
  <2>3. status' = "reading" => Seen'
    BY <1>7, <1>9, <2>2, ReadsSeen
  <2>4. Ended(c) => Here' > Len(Text)
    <3>1. Len(Text) \in Nat
      BY <1>2, TextIs
    <3> QED BY <1>7, <3>1, StopsThere
  <2> QED BY <1>6, <2>1, <2>2, <2>3, <2>4 DEF Prepared
<1> QED BY <1>5, <1>8, <1>9

(* Standing still keeps it, too. *)
LEMMA StillCompiler == CompilerInv /\ UNCHANGED vars => CompilerInv'
<1> SUFFICES ASSUME CompilerInv, UNCHANGED vars PROVE CompilerInv'
  OBVIOUS
<1>1. /\ script' = script /\ onlyOneProc' = onlyOneProc /\ pos' = pos /\ peeked' = peeked /\ stack' = stack
      /\ lists' = lists /\ blocks' = blocks /\ operand' = operand /\ status' = status
  BY DEF vars
<1>2. Text' = Text /\ (\A n : D(n)' = D(n)) /\ Here' = Here /\ Lines' = Lines
  BY <1>1 DEF Text, D, Here, Lines
<1>3. Sound' <=> Sound
  BY <1>1, <1>2 DEF Sound, SoundAt, AtBlock, Within
<1>4. Parts' <=> Parts
  <2>1. \A m : Taken(m)' = Taken(m)
    BY <1>1 DEF Taken
  <2>2. \A m, n : RunTo(m, n)' <=> RunTo(m, n)
    BY <1>1, <1>2 DEF RunTo
  <2> QED BY <1>2, <2>1, <2>2 DEF Parts
<1>5. Heads' <=> Heads
  BY <1>1, <1>2 DEF Heads, HeadsAt, Consumes, InList, Within
<1>6. Plains' <=> Plains
  BY <1>1, <1>2 DEF Plains, InList, Within
<1>7. Paired' <=> Paired
  BY <1>1, <1>2 DEF Paired, PairedAt
<1>8. Seen' <=> Seen
  BY <1>1, <1>2 DEF Seen, SeenBy
<1>9. Lined' <=> Lined
  BY <1>1, <1>2 DEF Lined, LinedAt
<1>10. Prepared' <=> Prepared
  BY <1>1, <1>2, <1>3, <1>4, <1>5, <1>6, <1>7, <1>8, <1>9 DEF Prepared
<1> QED BY <1>1, <1>2, <1>10, StillRead DEF CompilerInv

-----------------------------------------------------------------------------
(* A script that was read, as the compiler finds it.                           *)
Ready ==
  /\ TypeOK /\ Tidy /\ Ordered /\ Sound /\ Parts /\ Heads /\ Plains /\ Paired /\ Lined
  /\ Here > Len(Text)
  /\ \E r : Assigned(r)
  /\ \A n : ~Open(n) /\ ~Consumes(n)

(* It is one that was read. *)
LEMMA ReadyIs ==
  ASSUME CompilerInv, status = "read", WellFormed(Text)
  PROVE  Ready
<1>1. ReaderInv /\ Prepared
  BY DEF CompilerInv, ReadInv
<1>2. TypeOK /\ Standing /\ Ordered /\ \E r : Assigned(r)
  BY <1>1 DEF ReaderInv
<1>3. Tidy
  BY <1>2, TidyIs
<1>4. \A n : ~Open(n) /\ ~Consumes(n)
  <2>1. stack = <<>>
    BY <1>2 DEF Standing
  <2>2. Len(stack) = 0
    BY <2>1
  <2>3. \A i \in 2 .. Len(stack) : FALSE
    BY <2>2
  <2> QED BY <2>3 DEF Open, Consumes
<1> QED BY <1>1, <1>2, <1>3, <1>4 DEF Ready, Prepared

(* Its lists and its blocks. *)
LEMMA ReadyHas ==
  ASSUME Ready
  PROVE  /\ Owners = 0 .. Len(script) /\ DOMAIN blocks = Lines /\ Len(script) \in Nat /\ Len(Text) \in Nat /\ Len(Text) <= Len(script)
         /\ 1 .. Len(Text) \subseteq Lines
         /\ \A n \in 1 .. Len(Text) + 1 : D(n) \in Nat
         /\ \A b \in 0 .. Len(script) : lists[b] \in Seq(Nat) /\ Growing(lists[b]) /\ Within(b) \subseteq 1 .. Len(Text)
         /\ \A m \in Lines : blocks[m] \in Seq(Nat) /\ Growing(blocks[m]) /\ ToSet(blocks[m]) \subseteq 1 .. Len(Text)
<1>1. TypeOK /\ Tidy /\ Ordered /\ Sound /\ Heads
  BY DEF Ready
<1>2. Owners = 0 .. Len(script) /\ DOMAIN blocks = Lines
  BY <1>1 DEF TypeOK, Owners, Lines
<1>3. Len(script) \in Nat /\ Len(Text) \in Nat /\ Len(Text) <= Len(script) /\ DOMAIN Text = 1 .. Len(Text)
  BY <1>1, StackIs, TextIs
<1>4. 1 .. Len(Text) \subseteq Lines
  BY <1>3 DEF Lines
<1>5. \A n \in 1 .. Len(Text) + 1 : D(n) \in Nat
  BY <1>1 DEF Tidy
<1>6. ASSUME NEW s \in Seq(1 .. Len(script)) PROVE s \in Seq(Nat)
  BY <1>3, <1>6
<1>7. ASSUME NEW b \in 0 .. Len(script)
      PROVE  lists[b] \in Seq(Nat) /\ Growing(lists[b]) /\ Within(b) \subseteq 1 .. Len(Text)
  <2>1. lists[b] \in Seq(Nat) /\ Growing(lists[b])
    BY <1>1, <1>2, <1>6 DEF TypeOK, Ordered
  <2>2. \A n \in Within(b) : n \in 1 .. Len(Text)
    BY <1>1 DEF Sound, SoundAt
  <2> QED BY <2>1, <2>2
<1>8. ASSUME NEW m \in Lines
      PROVE  blocks[m] \in Seq(Nat) /\ Growing(blocks[m]) /\ ToSet(blocks[m]) \subseteq 1 .. Len(Text)
  <2>1. blocks[m] \in Seq(Nat) /\ Growing(blocks[m])
    BY <1>1, <1>6 DEF TypeOK, Ordered, Lines
  <2>2. \A f \in ToSet(blocks[m]) : f \in 1 .. Len(Text)
    BY <1>1, <1>3 DEF Heads, HeadsAt, Answers, LinesOf
  <2> QED BY <2>1, <2>2
<1> QED BY <1>2, <1>3, <1>4, <1>5, <1>7, <1>8

(* Where its lines are, and that they are there once. *)
LEMMA PlacesAre ==
  ASSUME Ready, NEW n \in 1 .. Len(Text)
  PROVE  /\ \/ InList(n)
            \/ \E m \in Lines : n \in Taken(m) /\ InList(m)
            \/ \E m \in Lines : n \in ToSet(blocks[m])
            \/ Kind(script, n) = "end"
         /\ \A a, b \in 0 .. Len(script) : n \in Within(a) /\ n \in Within(b) => a = b
         /\ \A a, b \in Lines : n \in ToSet(blocks[a]) /\ n \in ToSet(blocks[b]) => a = b
<1>1. PICK r : Assigned(r)
  BY DEF Ready
<1>2. Here > Len(Text) /\ n \in Lines /\ Here \in Nat /\ ~(n >= Here)
  <2>1. TypeOK /\ Here > Len(Text) /\ n \in Lines /\ Len(Text) \in Nat
    BY ReadyHas DEF Ready
  <2>2. Here \in Nat
    BY <2>1 DEF TypeOK, Here
  <2> QED BY <2>1, <2>2
<1>3. In(n, r[n]) /\ r[n] \in Roles
  BY <1>1, <1>2 DEF Assigned
<1>4. r[n] # <<"open", 0>> /\ r[n] # <<"ahead", 0>>
  BY <1>2, <1>3 DEF In, Ready
<1>5. \/ \E b \in 0 .. Len(script) : r[n] = <<"list", b>>
      \/ \E m \in Lines : r[n] = <<"part", m>>
      \/ \E m \in Lines : r[n] = <<"head", m>>
      \/ r[n] = <<"none", 0>>
  BY <1>3, <1>4 DEF Roles
<1>6. ASSUME NEW b \in 0 .. Len(script), r[n] = <<"list", b>> PROVE InList(n)
  BY <1>3, <1>6 DEF In, InList
<1>7. ASSUME NEW m \in Lines, r[n] = <<"part", m>> PROVE n \in Taken(m) /\ InList(m)
  <2>1. n \in Taken(m)
    BY <1>3, <1>7 DEF In
  <2>2. PICK b \in 0 .. Len(script) : r[m] = <<"list", b>>
    BY <1>1, <1>2, <1>7 DEF Assigned, Ready
  <2>3. m \in Within(b)
    BY <1>1, <2>2 DEF Assigned, In
  <2> QED BY <2>1, <2>3 DEF InList
<1>8. ASSUME NEW m \in Lines, r[n] = <<"head", m>> PROVE n \in ToSet(blocks[m])
  BY <1>3, <1>8 DEF In
<1>9. ASSUME r[n] = <<"none", 0>> PROVE InList(n) \/ Kind(script, n) = "end"
  <2>1. Kind(script, n) \in {"end", "noop"}
    BY <1>3, <1>9 DEF In
  <2>2. CASE Kind(script, n) = "noop"
    <3>1. n < Here /\ Kind(script, n) \notin {"say", "for", "end"} \cup Menus
      BY <1>2, <2>2 DEF Menus
    <3> QED BY <3>1 DEF Ready, Plains
  <2> QED BY <2>1, <2>2
<1>10. \A a, b \in 0 .. Len(script) : n \in Within(a) /\ n \in Within(b) => a = b
  BY <1>3, RolesDiffer DEF In
<1>11. \A a, b \in Lines : n \in ToSet(blocks[a]) /\ n \in ToSet(blocks[b]) => a = b
  BY <1>3, RolesDiffer DEF In
<1> QED BY <1>5, <1>6, <1>7, <1>8, <1>9, <1>10, <1>11

(* Growing sequences. *)
LEMMA GrowingIs ==
  ASSUME NEW s \in Seq(Nat), Growing(s)
  PROVE  /\ \A i, j \in 1 .. Len(s) : i < j <=> s[i] < s[j]
         /\ \A i, j \in 1 .. Len(s) : s[i] = s[j] => i = j
<1>1. Len(s) \in Nat /\ \A i \in 1 .. Len(s) : s[i] \in Nat
  OBVIOUS
<1>2. ASSUME NEW i \in 1 .. Len(s), NEW j \in 1 .. Len(s), i < j PROVE s[i] < s[j]
  <2> DEFINE S == {k \in Nat : k \in i + 1 .. Len(s) /\ ~(s[i] < s[k])}
  <2> SUFFICES ASSUME S # {} PROVE FALSE
    <3>1. j \notin S => s[i] < s[j]
      BY <1>1, <1>2
    <3> QED BY <3>1
  <2>1. S \in SUBSET Nat
    OBVIOUS
  <2>2. \E n \in S : \A m \in S : n <= m
    <3> HIDE DEF S
    <3> QED BY <2>1, NatMin
  <2>3. PICK k \in S : \A m \in S : k <= m
    BY <2>2
  <2>4. k \in i + 1 .. Len(s) /\ ~(s[i] < s[k]) /\ k \in Nat
    OBVIOUS
  <2>5. k - 1 \in 1 .. Len(s) - 1 /\ k - 1 \in Nat /\ (k - 1) + 1 = k /\ k - 1 >= i /\ k - 1 \in 1 .. Len(s) /\ k \in 1 .. Len(s)
    BY <1>1, <2>4
  <2>6. s[k - 1] < s[k]
    BY <2>5 DEF Growing
  <2>7. k - 1 = i \/ s[i] < s[k - 1]
    <3>1. k - 1 \notin S
      BY <2>3, <2>4
    <3> QED BY <1>1, <2>5, <3>1
  <2> QED BY <1>1, <2>4, <2>5, <2>6, <2>7
<1>3. ASSUME NEW i \in 1 .. Len(s), NEW j \in 1 .. Len(s) PROVE (i < j <=> s[i] < s[j]) /\ (s[i] = s[j] => i = j)
  <2>1. s[i] \in Nat /\ s[j] \in Nat /\ (i < j => s[i] < s[j]) /\ (j < i => s[j] < s[i]) /\ (i = j => s[i] = s[j])
    BY <1>1, <1>2
  <2> QED BY <1>1, <2>1
<1> QED BY <1>3

(* The greatest of some numbers that have a bound. *)
LEMMA GreatestIs ==
  ASSUME NEW u \in Nat, NEW S \in SUBSET (0 .. u), S # {}
  PROVE  Max(S) \in S /\ \A x \in S : x <= Max(S)
<1> DEFINE T == {k \in Nat : u - k \in S}
<1>1. T \in SUBSET Nat
  OBVIOUS
<1>2. T # {}
  <2>1. PICK x \in S : TRUE
    OBVIOUS
  <2>2. u - x \in Nat /\ u - (u - x) = x
    BY <2>1
  <2>3. u - x \in T
    BY <2>1, <2>2
  <2> QED BY <2>3
<1>3. \E n \in T : \A m \in T : n <= m
  <2> HIDE DEF T
  <2> QED BY <1>1, <1>2, NatMin
<1>4. PICK k \in T : \A m \in T : k <= m
  BY <1>3
<1>5. u - k \in S /\ k \in Nat
  OBVIOUS
<1>6. ASSUME NEW m \in S PROVE u - k >= m
  <2>1. u - m \in Nat /\ u - (u - m) = m
    BY <1>6
  <2>2. u - m \in T
    BY <2>1
  <2>3. k <= u - m
    BY <1>4, <2>2
  <2> QED BY <1>5, <2>1, <2>3
<1>7. S \in SUBSET Int
  OBVIOUS
<1>8. Max(S) = u - k
  <2> HIDE DEF T
  <2> QED BY <1>5, <1>6, <1>7, MaxIs
<1>9. \A x \in S : x <= u - k
  BY <1>5, <1>6, <1>7
<1> QED BY <1>5, <1>8, <1>9

(* The list that an instruction is in, and its place there.                    *)
LEMMA OwnerIs ==
  ASSUME Ready, NEW b \in 0 .. Len(script), NEW n \in Within(b)
  PROVE  /\ Owner(n) = b /\ n \in 1 .. Len(Text)
         /\ Index(n) \in 0 .. Len(lists[b]) - 1 /\ lists[b][Index(n) + 1] = n
<1>1. Owners = 0 .. Len(script) /\ lists[b] \in Seq(Nat) /\ n \in 1 .. Len(Text)
  BY ReadyHas
<1>2. Owner(n) = b
  <2>1. \E a \in Owners : n \in Within(a)
    BY <1>1
  <2>2. Owner(n) \in Owners /\ n \in Within(Owner(n))
    BY <2>1 DEF Owner
  <2> QED BY <1>1, <2>2, PlacesAre
<1>3. \E k \in 0 .. Len(lists[b]) - 1 : lists[b][k + 1] = n
  <2>1. PICK i \in 1 .. Len(lists[b]) : lists[b][i] = n
    BY <1>1 DEF Within, ToSet
  <2>2. Len(lists[b]) \in Nat
    BY <1>1
  <2>3. i - 1 \in 0 .. Len(lists[b]) - 1 /\ (i - 1) + 1 = i
    BY <2>2
  <2> QED BY <2>1, <2>3
<1>4. Index(n) \in 0 .. Len(lists[b]) - 1 /\ lists[b][Index(n) + 1] = n
  BY <1>2, <1>3 DEF Index
<1> QED BY <1>1, <1>2, <1>4

(* ... and the instruction at a place. *)
LEMMA IndexIs ==
  ASSUME Ready, NEW b \in 0 .. Len(script), NEW k \in 0 .. Len(lists[b]) - 1
  PROVE  lists[b][k + 1] \in Within(b) /\ Index(lists[b][k + 1]) = k
<1>1. lists[b] \in Seq(Nat) /\ Growing(lists[b])
  BY ReadyHas
<1>2. Len(lists[b]) \in Nat /\ k + 1 \in 1 .. Len(lists[b])
  BY <1>1
<1>3. lists[b][k + 1] \in Within(b)
  BY <1>1, <1>2 DEF Within, ToSet
<1>4. PICK n \in Within(b) : n = lists[b][k + 1]
  BY <1>3
<1>5. Index(n) \in 0 .. Len(lists[b]) - 1 /\ lists[b][Index(n) + 1] = n
  BY OwnerIs
<1>6. Index(n) + 1 \in 1 .. Len(lists[b])
  BY <1>2, <1>5
<1>7. Index(n) + 1 = k + 1
  BY <1>1, <1>2, <1>4, <1>5, <1>6, GrowingIs
<1> QED BY <1>3, <1>4, <1>5, <1>7

(* What follows an instruction in its list is the next one that is there.      *)
LEMMA NextIs ==
  ASSUME Ready, NEW b \in 0 .. Len(script), NEW n \in Within(b), NEW e \in Within(b), n < e
  PROVE  /\ Index(n) + 1 < Len(lists[b]) /\ lists[b][Index(n) + 2] \in Within(b)
         /\ n < lists[b][Index(n) + 2] /\ lists[b][Index(n) + 2] <= e
<1>1. lists[b] \in Seq(Nat) /\ Growing(lists[b]) /\ n \in Nat /\ e \in Nat
  BY ReadyHas
<1>2. Len(lists[b]) \in Nat
  BY <1>1
<1>3. /\ Index(n) \in 0 .. Len(lists[b]) - 1 /\ lists[b][Index(n) + 1] = n
      /\ Index(e) \in 0 .. Len(lists[b]) - 1 /\ lists[b][Index(e) + 1] = e
  BY OwnerIs
<1>4. PICK i \in 0 .. Len(lists[b]) - 1, j \in 0 .. Len(lists[b]) - 1 : i = Index(n) /\ j = Index(e)
  BY <1>3
<1>5. i + 1 \in 1 .. Len(lists[b]) /\ j + 1 \in 1 .. Len(lists[b]) /\ lists[b][i + 1] = n /\ lists[b][j + 1] = e
  BY <1>2, <1>3, <1>4
<1>6. i + 1 < j + 1
  BY <1>1, <1>5, GrowingIs
<1>7. i + 2 \in 1 .. Len(lists[b]) /\ i + 1 < Len(lists[b]) /\ i + 1 < i + 2 /\ ~(j + 1 < i + 2)
  BY <1>2, <1>4, <1>6
<1>8. n < lists[b][i + 2] /\ ~(e < lists[b][i + 2])
  BY <1>1, <1>5, <1>7, GrowingIs
<1>9. PICK x \in Nat : x = lists[b][i + 2]
  BY <1>1, <1>7
<1>10. x <= e
  BY <1>1, <1>8, <1>9
<1>11. x \in Within(b)
  <2>1. i + 2 \in DOMAIN lists[b]
    BY <1>1, <1>7
  <2> QED BY <1>9, <2>1 DEF Within, ToSet
<1> QED BY <1>4, <1>7, <1>8, <1>9, <1>10, <1>11

(* The lists that are compiled, and the menus that blocks are of.              *)
BlockOf(f, m) ==
  /\ f \in 1 .. Len(Text) /\ m \in 1 .. Len(Text) /\ m \in Lines /\ MenuOf(f) = m /\ f \in ToSet(blocks[m])
  /\ Kind(script, f) = "for" /\ Kind(script, m) \in Menus /\ m < f /\ D(m) = D(f) /\ InList(m) /\ f \in Answers(Text, m)

(* A block that is read is of one menu. *)
LEMMA BlockIs ==
  ASSUME Ready, NEW m \in Lines, NEW f \in ToSet(blocks[m])
  PROVE  BlockOf(f, m)
<1>1. f \in 1 .. Len(Text) /\ DOMAIN blocks = Lines
  BY ReadyHas
<1>2. HeadsAt(m, f) /\ ~Consumes(m)
  BY DEF Ready, Heads
<1>3. MenuOf(f) = m
  <2>1. MenuOf(f) \in DOMAIN blocks /\ f \in ToSet(blocks[MenuOf(f)])
    BY <1>1 DEF MenuOf
  <2> QED BY <1>1, <2>1, PlacesAre
<1> QED BY <1>1, <1>2, <1>3 DEF BlockOf, HeadsAt

(* Lists are the script's and those of blocks, and no instruction is in another. *)
LEMMA ListsRead ==
  ASSUME Ready
  PROVE  /\ 0 \in Lists /\ Lists \subseteq 0 .. Len(script)
         /\ \A b \in Lists : b # 0 => \E m \in Lines : BlockOf(b, m)
         /\ \A m \in Lines : ToSet(blocks[m]) \subseteq Lists
         /\ \A b \in 0 .. Len(script) : \A n \in Within(b) : b \in Lists
<1>1. DOMAIN blocks = Lines /\ Len(script) \in Nat /\ Len(Text) \in Nat /\ Len(Text) <= Len(script)
  BY ReadyHas
<1>2. 0 \in Lists /\ \A m \in Lines : ToSet(blocks[m]) \subseteq Lists
  BY <1>1 DEF Lists
<1>3. ASSUME NEW b \in Lists, b # 0 PROVE b \in 0 .. Len(script) /\ \E m \in Lines : BlockOf(b, m)
  <2>1. PICK m \in Lines : b \in ToSet(blocks[m])
    BY <1>1, <1>3 DEF Lists
  <2>2. BlockOf(b, m)
    BY <2>1, BlockIs
  <2>3. b \in 1 .. Len(Text)
    BY <2>2 DEF BlockOf
  <2>4. b \in 0 .. Len(script)
    BY <1>1, <2>3
  <2> QED BY <2>2, <2>4
<1>4. ASSUME NEW b \in 0 .. Len(script), NEW n \in Within(b), b # 0 PROVE b \in Lists
  <2>1. SoundAt(b, n)
    BY DEF Ready, Sound
  <2>2. b < n /\ n \in 1 .. Len(Text) /\ Kind(script, b) = "for"
    BY <1>4, <2>1 DEF SoundAt, AtBlock
  <2>3. b \in 1 .. Len(Text)
    BY <1>1, <1>4, <2>2
  <2>4. ~InList(b)
    <3>1. ASSUME NEW a \in 0 .. Len(script), b \in Within(a) PROVE FALSE
      BY <2>2, <3>1 DEF Ready, Sound, SoundAt
    <3> QED BY <3>1 DEF InList
  <2>5. \A m \in Lines : b \notin Taken(m)
    <3>1. ASSUME NEW m \in Lines, b \in Taken(m) PROVE FALSE
      <4>1. RunTo(m, b)
        BY <3>1 DEF Ready, Parts
      <4>2. b \in m .. b
        BY <2>3, <4>1 DEF RunTo, Lines
      <4> QED BY <2>2, <4>1, <4>2 DEF RunTo, Menus
    <3> QED BY <3>1
  <2>6. PICK m \in Lines : b \in ToSet(blocks[m])
    BY <2>2, <2>3, <2>4, <2>5, PlacesAre
  <2> QED BY <1>2, <2>6
<1>5. 0 \in 0 .. Len(script)
  BY <1>1
<1> QED BY <1>2, <1>3, <1>4, <1>5

(* An instruction is in the script's list if it is in no block.                *)
LEMMA OutsideIs ==
  ASSUME Ready, NEW n, InList(n)
  PROVE  n \in 1 .. Len(Text) /\ (n \in Within(0) <=> D(n) = 0)
<1>1. PICK b \in 0 .. Len(script) : n \in Within(b)
  BY DEF InList
<1>2. SoundAt(b, n)
  BY <1>1 DEF Ready, Sound
<1>3. n \in 1 .. Len(Text) /\ Len(Text) \in Nat /\ 0 \in 0 .. Len(script)
  BY <1>2, ReadyHas DEF SoundAt
<1>4. CASE b = 0
  <2>1. D(n) = 0
    BY <1>2, <1>4 DEF SoundAt, AtBlock
  <2> QED BY <1>1, <1>3, <1>4, <2>1
<1>5. CASE b # 0
  <2>1. b < n /\ D(n) = D(b) + 1
    BY <1>2, <1>5 DEF SoundAt, AtBlock
  <2>2. b \in 1 .. Len(Text) + 1
    BY <1>3, <1>5, <2>1
  <2>3. D(n) # 0
    BY <2>1, <2>2, ReadyHas
  <2>4. n \notin Within(0)
    BY <1>1, <1>3, <1>5, PlacesAre
  <2> QED BY <1>3, <2>3, <2>4
<1> QED BY <1>4, <1>5

(* A name says where its method is from. *)
BlockNo(b) == CHOOSE k \in DOMAIN blocks[MenuOf(b)] : blocks[MenuOf(b)][k] = b

(* A block has a place among its menu's. *)
LEMMA BlockNoIs ==
  ASSUME Ready, NEW b, NEW m, BlockOf(b, m)
  PROVE  MenuOf(b) = m /\ BlockNo(b) \in DOMAIN blocks[m] /\ blocks[m][BlockNo(b)] = b /\ BlockNo(b) \in Nat
<1>1. MenuOf(b) = m /\ b \in ToSet(blocks[m]) /\ m \in Lines
  BY DEF BlockOf
<1>2. blocks[m] \in Seq(Nat)
  BY <1>1, ReadyHas
<1>3. \E k \in DOMAIN blocks[m] : blocks[m][k] = b
  BY <1>1 DEF ToSet
<1>4. BlockNo(b) \in DOMAIN blocks[m] /\ blocks[m][BlockNo(b)] = b
  BY <1>1, <1>3 DEF BlockNo
<1> QED BY <1>1, <1>2, <1>4

(* What the names are. *)
LEMMA NameIs ==
  ASSUME NEW n, NEW b
  PROVE  NameInstruction(n, b) = IF b = 0 THEN <<n>> ELSE <<n, Index(MenuOf(b)), BlockNo(b) - 1>>
<1>1. \A x, y : <<n>> \o << >> = <<n>> /\ <<n>> \o <<x, y>> = <<n, x, y>>
  <2> TAKE x, y
  <2>1. PICK S : S = {n, x, y}
    OBVIOUS
  <2>2. <<n>> \in Seq(S) /\ << >> \in Seq(S) /\ <<x, y>> \in Seq(S) /\ <<n, x, y>> \in Seq(S)
    BY <2>1
  <2>3. <<n>> \o << >> = <<n>>
    BY <2>2, ConcatEmptySeq
  <2>4. <<n>> \o <<x, y>> = <<n, x, y>>
    <3>1. PICK s \in Seq(S), t \in Seq(S), u \in Seq(S) : s = <<n>> /\ t = <<x, y>> /\ u = <<n, x, y>>
      BY <2>2
    <3>2. Len(s) = 1 /\ Len(t) = 2 /\ Len(u) = 3 /\ s[1] = n /\ t[1] = x /\ t[2] = y /\ u[1] = n /\ u[2] = x /\ u[3] = y
      BY <3>1
    <3>3. s \o t \in Seq(S) /\ Len(s \o t) = 3 /\ (s \o t)[1] = n /\ (s \o t)[2] = x /\ (s \o t)[3] = y
      <4>1. /\ s \o t \in Seq(S) /\ Len(s \o t) = Len(s) + Len(t)
            /\ \A i \in 1 .. Len(s) + Len(t) : (s \o t)[i] = IF i <= Len(s) THEN s[i] ELSE t[i - Len(s)]
        BY ConcatProperties
      <4>2. 1 \in 1 .. 1 + 2 /\ 2 \in 1 .. 1 + 2 /\ 3 \in 1 .. 1 + 2 /\ 1 + 2 = 3
        OBVIOUS
      <4>3. (s \o t)[1] = s[1] /\ (s \o t)[2] = t[1] /\ (s \o t)[3] = t[2]
        BY <3>2, <4>1, <4>2
      <4> QED BY <3>2, <4>1, <4>2, <4>3
    <3>4. \A i \in 1 .. 3 : (s \o t)[i] = u[i]
      <4>1. \A i \in 1 .. 3 : i = 1 \/ i = 2 \/ i = 3
        OBVIOUS
      <4> QED BY <3>2, <3>3, <4>1
    <3>5. s \o t = u
      BY <3>2, <3>3, <3>4, SeqEqual
    <3> QED BY <3>1, <3>5
  <2> QED BY <2>3, <2>4
<1>2. MakeSuffix(b) = IF b = 0 THEN << >> ELSE <<Index(MenuOf(b)), BlockNo(b) - 1>>
  BY DEF MakeSuffix, BlockNo
<1> QED BY <1>1, <1>2 DEF NameInstruction

(* Menus with blocks are all in the script's list. *)
Flat == \A b \in Lists : \A m \in Lines : BlockOf(b, m) => m \in Within(0)

(* In a supported script they are. *)
LEMMA FlatIs ==
  ASSUME Ready, Supported(Text)
  PROVE  Flat
<1> SUFFICES ASSUME NEW b \in Lists, NEW m \in Lines, BlockOf(b, m) PROVE m \in Within(0)
  BY DEF Flat
<1>1. b \in 1 .. Len(Text) /\ Kind(script, b) = "for" /\ D(m) = D(b) /\ InList(m)
  BY DEF BlockOf
<1>2. b + 1 \in 1 .. Len(Text) /\ D(b + 1) = D(b) + 1 - 0
  <2>1. Tidy /\ Len(Text) \in Nat /\ Kind(script, b) # "end"
    BY <1>1, ReadyHas DEF Ready
  <2>2. b < Len(Text)
    BY <1>1, <2>1 DEF Tidy
  <2>3. D(b + 1) = D(b) + 1 - 0
    BY <1>1, <2>1 DEF Tidy
  <2> QED BY <1>1, <2>1, <2>2, <2>3
<1>3. DOMAIN Text = 1 .. Len(Text) /\ Depth(Text, b + 1) = D(b + 1)
  BY <1>2, TextIs DEF Ready
<1>4. D(b + 1) <= 1
  BY <1>2, <1>3 DEF Supported
<1>5. D(b) \in Nat
  BY <1>1, ReadyHas
<1>6. D(b) = 0
  BY <1>2, <1>4, <1>5
<1> QED BY <1>1, <1>6, OutsideIs

(* Methods have different names, then. *)
LEMMA NamesDiffer ==
  ASSUME Ready, Flat, NEW a \in Lists, NEW b \in Lists, NEW i \in Nat, NEW j \in Nat,
         NameInstruction(i, a) = NameInstruction(j, b)
  PROVE  i = j /\ a = b
<1>1. \A x, y, z, u, v, w : /\ <<x>> = <<y>> => x = y
                            /\ <<x, y, z>> = <<u, v, w>> => x = u /\ y = v /\ z = w
                            /\ <<x>> # <<u, v, w>> /\ <<u, v, w>> # <<x>>
  <2>1. \A x, u, v, w : Len(<<x>>) = 1 /\ Len(<<u, v, w>>) = 3
    OBVIOUS
  <2>2. \A x, y : <<x>> = <<y>> => x = y
    OBVIOUS
  <2>3. \A x, y, z, u, v, w : <<x, y, z>> = <<u, v, w>> => x = u /\ y = v /\ z = w
    OBVIOUS
  <2>4. ASSUME NEW x, NEW u, NEW v, NEW w, <<x>> = <<u, v, w>> PROVE FALSE
    <3>1. Len(<<x>>) = Len(<<u, v, w>>)
      BY <2>4
    <3> QED BY <2>1, <3>1
  <2> QED BY <2>2, <2>3, <2>4
<1>2. CASE a = 0 /\ b = 0
  BY <1>1, <1>2, NameIs
<1>3. ~(a = 0 /\ b # 0) /\ ~(a # 0 /\ b = 0)
  BY <1>1, NameIs
<1>4. CASE a # 0 /\ b # 0
  <2>1. i = j /\ Index(MenuOf(a)) = Index(MenuOf(b)) /\ BlockNo(a) - 1 = BlockNo(b) - 1
    BY <1>1, <1>4, NameIs
  <2>2. PICK m \in Lines, k \in Lines : BlockOf(a, m) /\ BlockOf(b, k)
    BY <1>4, ListsRead
  <2>3. /\ MenuOf(a) = m /\ BlockNo(a) \in DOMAIN blocks[m] /\ blocks[m][BlockNo(a)] = a /\ BlockNo(a) \in Nat
        /\ MenuOf(b) = k /\ BlockNo(b) \in DOMAIN blocks[k] /\ blocks[k][BlockNo(b)] = b /\ BlockNo(b) \in Nat
    BY <2>2, BlockNoIs
  <2>4. m \in Within(0) /\ k \in Within(0)
    BY <2>2 DEF Flat
  <2>5. 0 \in 0 .. Len(script)
    BY ReadyHas
  <2>6. lists[0][Index(m) + 1] = m /\ lists[0][Index(k) + 1] = k
    BY <2>4, <2>5, OwnerIs
  <2>7. m = k
    BY <2>1, <2>3, <2>6
  <2>8. BlockNo(a) = BlockNo(b)
    BY <2>1, <2>3
  <2> QED BY <2>1, <2>3, <2>7, <2>8
<1> QED BY <1>2, <1>3, <1>4

(* Two instructions of the same depth, with nothing less deep between them, are *)
(* in the same block.                                                           *)
LEMMA SameBlock ==
  ASSUME Ready, NEW b \in 0 .. Len(script), NEW n \in Within(b), NEW a \in 0 .. Len(script), NEW e \in Within(a),
         n < e, D(e) = D(n), \A k \in n + 1 .. e : D(k) >= D(n)
  PROVE  a = b
<1>1. SoundAt(b, n) /\ SoundAt(a, e)
  BY DEF Ready, Sound
<1>2. n \in 1 .. Len(Text) /\ e \in 1 .. Len(Text) /\ AtBlock(b, n) /\ AtBlock(a, e) /\ Kind(script, n) # "for" /\ Len(Text) \in Nat
  BY <1>1, ReadyHas DEF SoundAt
<1>3. D(n) \in Nat /\ D(e) \in Nat /\ Len(script) \in Nat
  BY <1>2, ReadyHas
<1>4. (b = 0 <=> D(n) = 0) /\ (b # 0 => b \in 1 .. Len(Text) /\ D(b) \in Nat)
  <2>1. CASE b = 0
    BY <1>2, <2>1 DEF AtBlock
  <2>2. CASE b # 0
    <3>1. b \in 1 .. Len(Text)
      BY <1>2, <2>2 DEF AtBlock
    <3>2. D(b) \in Nat /\ D(n) = D(b) + 1
      BY <1>2, <2>2, <3>1, ReadyHas DEF AtBlock
    <3> QED BY <2>2, <3>1, <3>2
  <2> QED BY <2>1, <2>2
<1>5. (a = 0 <=> D(e) = 0) /\ (a # 0 => a \in 1 .. Len(Text) /\ D(a) \in Nat)
  <2>1. CASE a = 0
    BY <1>2, <2>1 DEF AtBlock
  <2>2. CASE a # 0
    <3>1. a \in 1 .. Len(Text)
      BY <1>2, <2>2 DEF AtBlock
    <3>2. D(a) \in Nat /\ D(e) = D(a) + 1
      BY <1>2, <2>2, <3>1, ReadyHas DEF AtBlock
    <3> QED BY <2>2, <3>1, <3>2
  <2> QED BY <2>1, <2>2
<1>6. CASE b = 0
  BY <1>4, <1>5, <1>6
<1>7. CASE b # 0
  <2>1. a # 0
    BY <1>4, <1>5, <1>7
  <2>2. /\ b < n /\ D(n) = D(b) + 1 /\ \A k \in b + 1 .. n : D(k) > D(b)
        /\ a < e /\ D(e) = D(a) + 1 /\ Kind(script, a) = "for" /\ \A k \in a + 1 .. e : D(k) > D(a)
    BY <1>2, <1>7, <2>1 DEF AtBlock
  <2>3. D(a) = D(b)
    BY <1>4, <1>5, <1>7, <2>1, <2>2
  <2>4. ~(a < b)
    <3> SUFFICES ASSUME a < b PROVE FALSE
      OBVIOUS
    <3>1. b \in a + 1 .. e
      BY <1>2, <2>2
    <3> QED BY <1>4, <1>5, <1>7, <2>1, <2>2, <2>3, <3>1
  <2>5. ~(b < a)
    <3> SUFFICES ASSUME b < a PROVE FALSE
      OBVIOUS
    <3>1. a # n
      BY <1>2, <2>2
    <3>2. CASE a < n
      <4>1. a \in b + 1 .. n
        BY <1>2, <3>2
      <4> QED BY <1>4, <1>5, <1>7, <2>1, <2>2, <2>3, <4>1
    <3>3. CASE n < a
      <4>1. a \in n + 1 .. e
        BY <1>2, <2>2, <3>3
      <4>2. D(a) >= D(n)
        BY <4>1
      <4> QED BY <1>4, <1>5, <1>7, <2>1, <2>2, <4>2
    <3> QED BY <1>2, <3>1, <3>2, <3>3
  <2> QED BY <2>4, <2>5
<1> QED BY <1>6, <1>7

(* After a line that is not the last, and no say, comes an instruction of the   *)
(* script's list.                                                               *)
LEMMA LaterOutside ==
  ASSUME Ready, Supported(Text), NEW n \in 1 .. Len(Text), n < Len(Text), Kind(script, n) # "say"
  PROVE  \E e \in Within(0) : n < e
<1> DEFINE z == Len(Text)
<1>1. z \in Nat /\ z \in 1 .. z /\ z = Len(Text)
  BY ReadyHas
<1>2. Tidy /\ TypeOK
  BY DEF Ready
<1>3. Kind(script, z) # "end"
  <2>1. Text # <<>>
    BY <1>1
  <2>2. Kind(Text, z) # "end"
    BY <2>1 DEF Supported
  <2> QED BY <1>1, <1>2, <2>2, TextIs
<1>4. Kind(script, z) # "for" /\ Kind(script, z) \notin Menus
  <2>1. PICK y \in 1 .. Len(Text) : y = Len(Text)
    BY <1>1
  <2>2. Kind(script, y) \in Menus => y < Len(Text)
    BY <1>2, <2>1 DEF Tidy
  <2>3. Kind(script, y) = "for" => y < Len(Text)
    BY <1>2, <2>1 DEF Tidy
  <2> QED BY <1>1, <2>1, <2>2, <2>3
<1>5. D(z) = 0
  <2>1. D(z + 1) = D(z) + 0 - 0
    BY <1>1, <1>2, <1>3, <1>4 DEF Tidy
  <2>2. D(z + 1) = 0 /\ D(z) \in Nat
    BY <1>1, <1>2 DEF Tidy
  <2> QED BY <2>1, <2>2
<1> HIDE DEF z
<1>6. CASE InList(z)
  BY <1>1, <1>5, <1>6, OutsideIs
<1>7. ASSUME NEW m \in Lines, z \in Taken(m), InList(m) PROVE m \in Within(0) /\ n < m
  <2>1. RunTo(m, z)
    BY <1>7 DEF Ready, Parts
  <2>2. m < z /\ D(m) = 0 /\ m \in Nat
    BY <1>5, <2>1 DEF RunTo, Lines
  <2>3. z \in m .. z
    BY <1>1, <2>2
  <2>4. \A k \in m .. z : Kind(script, k) = "say"
    BY <1>4, <2>1, <2>3 DEF RunTo
  <2>5. n \notin m .. z
    BY <2>4
  <2> QED BY <1>1, <1>7, <2>2, <2>5, OutsideIs
<1>8. \A m \in Lines : z \notin ToSet(blocks[m])
  BY <1>4, BlockIs DEF BlockOf
<1> QED BY <1>1, <1>3, <1>6, <1>7, <1>8, PlacesAre

(* A label that no other label follows is one that can be jumped to.            *)
LEMMA AfterLabel ==
  ASSUME Ready, Supported(Text), NEW l \in 1 .. Len(Text), l < Len(Text), Kind(script, l) \in Labels, Kind(script, l + 1) \notin Labels
  PROVE  InList(l) /\ ThereIsANextInstruction(Index(l), Owner(l))
<1>1. Tidy /\ TypeOK /\ Len(Text) \in Nat /\ Here > Len(Text) /\ Len(script) \in Nat /\ 0 \in 0 .. Len(script)
  BY ReadyHas DEF Ready
<1>2. Kind(script, l) \notin {"say", "for", "end"} \cup Menus
  BY DEF Labels, Menus
<1>3. InList(l)
  <2>1. l < Here
    <3>1. Here \in Nat
      BY <1>1 DEF TypeOK, Here
    <3> QED BY <1>1, <3>1
  <2> QED BY <1>2, <2>1 DEF Ready, Plains
<1>4. PICK b \in 0 .. Len(script) : l \in Within(b)
  BY <1>3 DEF InList
<1>5. Owner(l) = b /\ Index(l) \in 0 .. Len(lists[b]) - 1 /\ lists[b][Index(l) + 1] = l
  BY <1>4, OwnerIs
<1>6. l + 1 \in 1 .. Len(Text) /\ l + 2 \in 1 .. Len(Text) + 1 /\ (l + 1) + 1 = l + 2
  BY <1>1
<1>7. D(l) \in Nat /\ D(l + 1) = D(l) /\ D(l + 2) \in Nat
  <2>1. D(l + 1) = D(l) + 0 - 0
    BY <1>1, <1>2 DEF Tidy
  <2> QED BY <1>1, <1>6, <2>1, ReadyHas
<1>8. SoundAt(b, l)
  BY <1>4 DEF Ready, Sound
<1>9. ASSUME NEW x \in Within(b), l < x, Kind(script, x) \in Labels, \A e \in Within(b) : l < e => x <= e PROVE FALSE
  <2>1. x \in Nat /\ l + 2 <= x /\ x # l + 1
    <3>1. x \in 1 .. Len(Text)
      BY <1>4, ReadyHas
    <3>2. x # l + 1
      BY <1>9
    <3> QED BY <1>9, <3>1, <3>2
  <2>2. ~InList(l + 1)
    <3> SUFFICES ASSUME NEW a \in 0 .. Len(script), l + 1 \in Within(a) PROVE FALSE
      BY DEF InList
    <3>1. l < l + 1 /\ \A k \in l + 1 .. l + 1 : k = l + 1
      BY <1>6
    <3>2. D(l + 1) >= D(l)
      BY <1>7
    <3>3. \A k \in l + 1 .. l + 1 : D(k) >= D(l)
      BY <3>1, <3>2
    <3>4. a = b
      BY <1>4, <1>7, <3>1, <3>3, SameBlock
    <3>5. x <= l + 1
      BY <1>9, <3>1, <3>4
    <3> QED BY <2>1, <3>5
  <2>3. ASSUME NEW m \in Lines, l + 1 \in Taken(m) PROVE FALSE
    <3>1. RunTo(m, l + 1)
      BY <2>3 DEF Ready, Parts
    <3>2. l \in m .. l + 1
      BY <3>1 DEF RunTo, Lines
    <3> QED BY <1>2, <3>1, <3>2 DEF RunTo
  <2>4. ASSUME NEW m \in Lines, l + 1 \in ToSet(blocks[m]) PROVE FALSE
    <3>1. Kind(script, l + 1) = "for"
      BY <2>4, BlockIs DEF BlockOf
    <3>2. PICK k \in 1 .. Len(Text) : k = l + 1
      BY <1>6
    <3>3. Kind(script, k - 1) \in {"choice", "end"}
      BY <1>1, <3>1, <3>2 DEF Tidy
    <3>4. k - 1 = l
      BY <3>2
    <3> QED BY <1>2, <3>3, <3>4 DEF Menus
  <2>5. Kind(script, l + 1) = "end"
    BY <1>6, <2>2, <2>3, <2>4, PlacesAre
  <2>6. D(l + 1) >= 1 /\ D((l + 1) + 1) = D(l + 1) + 0 - 1
    BY <1>1, <1>6, <2>5 DEF Tidy
  <2>7. D(l + 2) = D(l) - 1 /\ D(l) # 0
    BY <1>6, <1>7, <2>6
  <2>8. b # 0 /\ D(l) = D(b) + 1 /\ b < l
    BY <1>8, <2>7 DEF SoundAt, AtBlock
  <2>9. SoundAt(b, x)
    BY <1>4 DEF Ready, Sound
  <2>10. \A k \in b + 1 .. x : D(k) > D(b)
    BY <2>8, <2>9 DEF SoundAt, AtBlock
  <2>11. l + 2 \in b + 1 .. x
    BY <2>1, <2>8
  <2>12. b \in 1 .. Len(Text) + 1
    BY <1>1, <2>8
  <2>13. D(b) \in Nat
    BY <2>12, ReadyHas
  <2> QED BY <1>7, <2>7, <2>8, <2>10, <2>11, <2>13
<1>10. ASSUME NEW e \in Within(b), l < e PROVE Index(l) + 1 < Len(lists[b]) /\ Kind(script, lists[b][Index(l) + 2]) \notin Labels
  <2>1. Index(l) + 1 < Len(lists[b]) /\ lists[b][Index(l) + 2] \in Within(b) /\ l < lists[b][Index(l) + 2]
    BY <1>4, <1>10, NextIs
  <2>2. \A f \in Within(b) : l < f => lists[b][Index(l) + 2] <= f
    BY <1>4, NextIs
  <2> QED BY <1>9, <2>1, <2>2
<1>11. CASE b = 0
  <2>1. PICK e \in Within(0) : l < e
    BY <1>2, LaterOutside
  <2>2. Index(l) + 1 < Len(lists[b]) /\ Kind(script, lists[b][Index(l) + 2]) \notin Labels
    BY <1>10, <1>11, <2>1
  <2>3. Count(b) = Len(lists[b])
    <3>1. Len(lists[b]) + 0 = Len(lists[b])
      BY <1>4, ReadyHas
    <3> QED BY <1>11, <3>1 DEF Count
  <2> QED BY <1>3, <1>5, <2>2, <2>3 DEF ThereIsANextInstruction
<1>12. CASE b # 0
  <2>1. PICK k \in Nat : k = Index(l)
    BY <1>5
  <2>2. lists[b] \in Seq(Nat) /\ Growing(lists[b])
    BY ReadyHas
  <2>3. Len(lists[b]) \in Nat /\ k < Len(lists[b]) /\ Count(b) = Len(lists[b]) + 1
    BY <1>5, <1>12, <2>1, <2>2 DEF Count
  <2>4. k + 1 < Count(b)
    BY <2>3
  <2>5. CASE k + 1 = Len(lists[b])
    BY <1>3, <1>5, <2>1, <2>4, <2>5 DEF ThereIsANextInstruction, IsReturn
  <2>6. CASE k + 1 # Len(lists[b])
    <3>1. k + 1 \in 1 .. Len(lists[b]) /\ k + 2 \in 1 .. Len(lists[b]) /\ k + 1 < k + 2
      BY <2>3, <2>6
    <3>2. lists[b][k + 1] < lists[b][k + 2]
      BY <2>2, <3>1, GrowingIs
    <3>3. lists[b][k + 2] \in Within(b)
      BY <2>2, <3>1 DEF Within, ToSet
    <3>4. Kind(script, lists[b][k + 2]) \notin Labels
      BY <1>5, <1>10, <2>1, <3>2, <3>3
    <3> QED BY <1>3, <1>5, <2>1, <2>4, <3>4 DEF ThereIsANextInstruction
  <2> QED BY <2>5, <2>6
<1> QED BY <1>11, <1>12

(* A goto has a label to jump to.                                               *)
LEMMA RegisteredIs ==
  ASSUME Ready, Supported(Text), NEW g \in 1 .. Len(Text), Kind(script, g) = "goto"
  PROVE  Registered(g) # {} /\ Max(Registered(g)) \in Registered(g)
<1>1. TypeOK /\ Len(Text) \in Nat /\ Len(script) \in Nat /\ Len(Text) <= Len(script)
  BY ReadyHas DEF Ready
<1>2. DOMAIN Text = 1 .. Len(Text) /\ \A n \in 1 .. Len(Text) : Kind(Text, n) = Kind(script, n) /\ Text[n] = script[n]
  BY <1>1, TextIs
<1>3. g \in LinesOf(Text, "goto")
  BY <1>2 DEF LinesOf
<1>4. PICK l \in 1 .. g - 1 : Kind(Text, l) \in Labels /\ Text[l].arg = Text[g].arg /\ Kind(Text, l + 1) \notin Labels
  BY <1>3 DEF Supported
<1>5. l \in 1 .. Len(Text) /\ l < Len(Text) /\ l + 1 \in 1 .. Len(Text) /\ l < g
  BY <1>1, <1>4
<1>6. Kind(script, l) \in Labels /\ script[l].arg = script[g].arg /\ Kind(script, l + 1) \notin Labels
  BY <1>2, <1>4, <1>5
<1>7. InList(l) /\ ThereIsANextInstruction(Index(l), Owner(l))
  BY <1>5, <1>6, AfterLabel
<1>8. PICK b \in 0 .. Len(script) : l \in Within(b)
  BY <1>7 DEF InList
<1>9. b \in Lists /\ Lists \subseteq 0 .. Len(script)
  BY <1>8, ListsRead
<1>10. l \in Registered(g)
  BY <1>5, <1>6, <1>7, <1>8, <1>9 DEF Registered
<1>11. Registered(g) \subseteq 0 .. Len(script)
  <2>1. ASSUME NEW x \in Registered(g) PROVE x \in 0 .. Len(script)
    <3>1. PICK a \in Lists : x \in Within(a)
      BY <2>1 DEF Registered
    <3>2. x \in 1 .. Len(Text)
      BY <1>9, <3>1, ReadyHas
    <3> QED BY <1>1, <3>2
  <2> QED BY <2>1
<1> QED BY <1>1, <1>10, <1>11, GreatestIs

(* So no exception is thrown: there is no goto without a label and no choice    *)
(* without a procedure.                                                         *)
LEMMA ThrowsNot ==
  ASSUME Ready, Supported(Text)
  PROVE  ~CompileThrows
<1> SUFFICES ASSUME NEW b \in Lists, NEW i \in Within(b),
                    \/ Kind(script, i) = "goto" /\ Registered(i) = {}
                    \/ Kind(script, i) \in Menus /\ Len(ChoiceOperands(i)) % 2 = 1
             PROVE  FALSE
  BY DEF CompileThrows
<1>1. i \in 1 .. Len(Text) /\ i \in Lines
  BY ListsRead, ReadyHas
<1>2. CASE Kind(script, i) = "goto" /\ Registered(i) = {}
  BY <1>1, <1>2, RegisteredIs
<1>3. CASE Kind(script, i) \in Menus /\ Len(ChoiceOperands(i)) % 2 = 1
  <2>1. PICK p \in Nat : Len(operand[i]) = IF Kind(script, i) = "choicetitle" THEN 2 * p + 1 ELSE 2 * p
    BY <1>1, <1>3 DEF Ready, Paired, PairedAt
  <2>2. PICK R : operand[i] \in Seq(R)
    BY <1>1 DEF Ready, TypeOK, Lines
  <2>3. Len(ChoiceOperands(i)) = 2 * p
    <3>1. CASE Kind(script, i) = "choicetitle"
      <4>1. Len(operand[i]) = 2 * p + 1 /\ operand[i] # << >>
        BY <2>1, <3>1
      <4>2. Len(Tail(operand[i])) = Len(operand[i]) - 1
        BY <2>2, <4>1
      <4> QED BY <3>1, <4>1, <4>2 DEF ChoiceOperands
    <3>2. CASE Kind(script, i) # "choicetitle"
      BY <2>1, <3>2 DEF ChoiceOperands
    <3> QED BY <3>1, <3>2
  <2>4. (2 * p) % 2 = 0
    OBVIOUS
  <2> QED BY <1>3, <2>3, <2>4
<1> QED BY <1>2, <1>3

(* The methods and their names.                                                 *)
MethodNames == {NameInstruction(x[1], x[2]) : x \in Methods}

(* How many methods a list has. *)
LEMMA CountIs ==
  ASSUME Ready, NEW b \in Lists
  PROVE  /\ b \in 0 .. Len(script) /\ Len(lists[b]) \in Nat /\ Count(b) \in Nat
         /\ Count(b) = IF b = 0 THEN Len(lists[b]) ELSE Len(lists[b]) + 1
<1>1. b \in 0 .. Len(script)
  BY ListsRead
<1>2. Len(lists[b]) \in Nat
  BY <1>1, ReadyHas
<1>3. PICK k \in Nat : k = Len(lists[b])
  BY <1>2
<1>4. Count(b) = k + IF b = 0 THEN 0 ELSE 1
  BY <1>3 DEF Count
<1>5. Count(b) \in Nat /\ Count(b) = IF b = 0 THEN k ELSE k + 1
  BY <1>4
<1> QED BY <1>1, <1>2, <1>3, <1>5

(* The method of a place is there. *)
LEMMA MethodIs ==
  ASSUME Ready, NEW b \in Lists, NEW n \in Nat, n < Count(b)
  PROVE  <<n, b>> \in Methods /\ NameInstruction(n, b) \in MethodNames
<1>1. n \in 0 .. Count(b) - 1
  BY CountIs
<1>2. <<n, b>> \in Methods
  BY <1>1 DEF Methods
<1>3. PICK x \in Methods : x = <<n, b>> /\ x[1] = n /\ x[2] = b
  BY <1>2
<1>4. NameInstruction(x[1], x[2]) \in MethodNames
  BY DEF MethodNames
<1> QED BY <1>2, <1>3, <1>4

(* And there is no other. *)
LEMMA MethodsAre ==
  ASSUME Ready, NEW x \in Methods
  PROVE  x = <<x[1], x[2]>> /\ x[2] \in Lists /\ x[1] \in Nat /\ x[1] < Count(x[2])
<1>1. PICK b \in Lists : x \in {<<n, b>> : n \in 0 .. Count(b) - 1}
  BY DEF Methods
<1>2. PICK n \in 0 .. Count(b) - 1 : x = <<n, b>>
  BY <1>1
<1>3. n \in Nat /\ n < Count(b)
  BY CountIs
<1> QED BY <1>1, <1>2, <1>3

(* The method of what follows an instruction is there. *)
LEMMA NextMethodIs ==
  ASSUME Ready, NEW b \in Lists, NEW l \in Within(b), ThereIsANextInstruction(Index(l), Owner(l))
  PROVE  Owner(l) = b /\ Index(l) \in Nat /\ NameInstruction(Index(l) + 1, b) \in MethodNames
<1>1. Owner(l) = b /\ Index(l) \in 0 .. Len(lists[b]) - 1
  BY CountIs, OwnerIs
<1>2. PICK k \in Nat : k = Index(l)
  BY <1>1
<1>3. k + 1 < Count(b) /\ k + 1 \in Nat
  BY <1>1, <1>2 DEF ThereIsANextInstruction
<1>4. NameInstruction(k + 1, b) \in MethodNames
  BY <1>3, MethodIs
<1> QED BY <1>1, <1>2, <1>4

(* What a block returns to is there. *)
LEMMA ReturnIs ==
  ASSUME Ready, Flat, Supported(Text), NEW b \in Lists, b # 0
  PROVE  ReturnTo(b) \in MethodNames
<1>1. PICK m \in Lines : BlockOf(b, m)
  BY ListsRead
<1>2. m \in Within(0) /\ MenuOf(b) = m /\ m \in 1 .. Len(Text) /\ m < b /\ b \in 1 .. Len(Text) /\ Kind(script, m) \in Menus
  BY <1>1 DEF Flat, BlockOf
<1>3. m < Len(Text) /\ Kind(script, m) # "say"
  <2>1. Len(Text) \in Nat
    BY ReadyHas
  <2> QED BY <1>2, <2>1 DEF Menus
<1>4. PICK e \in Within(0) : m < e
  BY <1>2, <1>3, LaterOutside
<1>5. 0 \in Lists /\ 0 \in 0 .. Len(script)
  BY ListsRead, CountIs
<1>6. Index(m) + 1 < Len(lists[0]) /\ Owner(m) = 0 /\ Index(m) \in 0 .. Len(lists[0]) - 1
  BY <1>2, <1>4, <1>5, NextIs, OwnerIs
<1>7. Count(0) = Len(lists[0]) /\ Len(lists[0]) \in Nat
  BY <1>5, CountIs
<1>8. PICK k \in Nat : k = Index(m)
  BY <1>6, <1>7
<1>9. k + 1 \in Nat /\ k + 1 < Count(0)
  BY <1>6, <1>7, <1>8
<1>10. NameInstruction(k + 1, 0) \in MethodNames
  BY <1>5, <1>9, MethodIs
<1> QED BY <1>2, <1>6, <1>8, <1>10 DEF ReturnTo

(* Whatever a method calls is there. *)
LEMMA CallsAre ==
  ASSUME Ready, Flat, Supported(Text), NEW b \in Lists, NEW n \in Nat, n < Count(b)
  PROVE  Calls(n, b) \subseteq MethodNames
<1>1. CASE IsReturn(n, b)
  <2>1. b # 0
    BY <1>1, CountIs DEF IsReturn
  <2>2. ReturnTo(b) \in MethodNames
    BY <2>1, ReturnIs
  <2> QED BY <1>1, <2>2 DEF Calls
<1>2. CASE ~IsReturn(n, b)
  <2>1. b \in 0 .. Len(script) /\ n \in 0 .. Len(lists[b]) - 1
    BY <1>2, CountIs DEF IsReturn
  <2>2. PICK i : i = lists[b][n + 1]
    OBVIOUS
  <2>3. i \in Within(b) /\ Index(i) = n
    BY <2>1, <2>2, IndexIs
  <2>4. i \in 1 .. Len(Text) /\ i \in Lines
    BY <2>1, <2>3, ReadyHas
  <2>5. CASE Kind(script, i) \in Menus
    <3>1. ASSUME NEW f \in ToSet(blocks[i]) PROVE NameInstruction(0, f) \in MethodNames
      <4>1. f \in Lists /\ BlockOf(f, i)
        BY <2>4, ListsRead, BlockIs
      <4>2. f # 0
        BY <4>1 DEF BlockOf
      <4>3. 0 < Count(f)
        BY <4>1, <4>2, CountIs
      <4> QED BY <4>1, <4>3, MethodIs
    <3>2. Calls(n, b) = {NameInstruction(0, f) : f \in ToSet(blocks[i])}
      BY <1>2, <2>2, <2>5 DEF Calls
    <3> QED BY <3>1, <3>2
  <2>6. CASE Kind(script, i) = "goto"
    <3>1. PICK l : l = Max(Registered(i)) /\ l \in Registered(i)
      BY <2>4, <2>6, RegisteredIs
    <3>2. PICK a \in Lists : l \in Within(a) /\ ThereIsANextInstruction(Index(l), Owner(l))
      BY <3>1 DEF Registered
    <3>3. NameInstruction(Index(l) + 1, Owner(l)) \in MethodNames
      BY <3>2, NextMethodIs
    <3>4. Calls(n, b) = {NameInstruction(Index(l) + 1, Owner(l))}
      <4>1. Kind(script, i) \notin Menus
        BY <2>6 DEF Menus
      <4> QED BY <1>2, <2>2, <2>6, <3>1, <4>1 DEF Calls
    <3> QED BY <3>3, <3>4
  <2>7. CASE Kind(script, i) \notin Menus /\ Kind(script, i) # "goto"
    <3>1. Calls(n, b) = IF FallsThrough(n, b) /\ ThereIsANextInstruction(n, b) THEN {NameInstruction(n + 1, b)} ELSE {}
      BY <1>2, <2>2, <2>7 DEF Calls
    <3>2. ThereIsANextInstruction(n, b) => NameInstruction(n + 1, b) \in MethodNames
      <4>1. ThereIsANextInstruction(n, b) => n + 1 \in Nat /\ n + 1 < Count(b)
        BY DEF ThereIsANextInstruction
      <4> QED BY <4>1, MethodIs
    <3> QED BY <3>1, <3>2
  <2> QED BY <2>5, <2>6, <2>7
<1> QED BY <1>1, <1>2

(* The story begins with a method that is there. *)
LEMMA MainIs ==
  ASSUME Ready, Supported(Text), lists[0] # << >>
  PROVE  Main \in MethodNames
<1> DEFINE starts == {l \in UNION {Within(b) : b \in Lists} :
                        /\ Kind(script, l) = "start"
                        /\ ThereIsANextInstruction(Index(l), Owner(l))}
<1>1. Main = <<IF starts = {} THEN 0 ELSE Index(Max(starts)) + 1>>
  BY DEF Main
<1>2. 0 \in Lists /\ Lists \subseteq 0 .. Len(script) /\ Len(script) \in Nat /\ Len(Text) \in Nat /\ Len(Text) <= Len(script)
  BY ListsRead, ReadyHas
<1>3. \A k : NameInstruction(k, 0) = <<k>>
  BY NameIs
<1>4. ASSUME NEW l \in starts PROVE l \in 0 .. Len(script) /\ l \in Within(0)
  <2>1. PICK b \in Lists : l \in Within(b)
    OBVIOUS
  <2>2. InList(l) /\ l \in 1 .. Len(Text)
    BY <1>2, <2>1, ReadyHas DEF InList
  <2>3. DOMAIN Text = 1 .. Len(Text) /\ Kind(Text, l) = "start" /\ Depth(Text, l) = D(l)
    <3>1. l \in 1 .. Len(Text) + 1
      BY <1>2, <2>2
    <3> QED BY <2>2, <3>1, TextIs DEF Ready
  <2>4. D(l) = 0
    BY <2>2, <2>3 DEF Supported, LinesOf
  <2> QED BY <1>2, <2>2, <2>4, OutsideIs
<1>5. CASE starts = {}
  <2>1. lists[0] \in Seq(Nat) /\ Count(0) = Len(lists[0]) /\ Len(lists[0]) \in Nat
    BY <1>2, CountIs, ReadyHas
  <2>2. 0 < Count(0)
    BY <2>1
  <2>3. NameInstruction(0, 0) \in MethodNames
    BY <1>2, <2>2, MethodIs
  <2> QED BY <1>1, <1>3, <1>5, <2>3
<1>6. CASE starts # {}
  <2>1. starts \subseteq 0 .. Len(script)
    <3> HIDE DEF starts
    <3> QED BY <1>4
  <2>2. PICK l \in starts : l = Max(starts)
    <3> HIDE DEF starts
    <3> QED BY <1>2, <1>6, <2>1, GreatestIs
  <2>3. NameInstruction(Index(l) + 1, 0) \in MethodNames
    BY <1>2, <1>4, NextMethodIs
  <2> QED BY <1>1, <1>3, <1>6, <2>2, <2>3
<1> HIDE DEF starts
<1> QED BY <1>5, <1>6

(* The C# compiler takes what was made of a supported script. *)
LEMMA CompilesIs ==
  ASSUME Ready, Supported(Text)
  PROVE  Compiles
<1>1. Flat
  BY FlatIs
<1>2. ASSUME NEW x \in Methods, NEW y \in Methods, NameInstruction(x[1], x[2]) = NameInstruction(y[1], y[2])
      PROVE  x = y
  <2>1. x = <<x[1], x[2]>> /\ x[2] \in Lists /\ x[1] \in Nat /\ y = <<y[1], y[2]>> /\ y[2] \in Lists /\ y[1] \in Nat
    BY MethodsAre
  <2>2. x[1] = y[1] /\ x[2] = y[2]
    BY <1>1, <1>2, <2>1, NamesDiffer
  <2> QED BY <2>1, <2>2
<1>3. ASSUME NEW x \in Methods PROVE Calls(x[1], x[2]) \subseteq MethodNames
  BY <1>1, MethodsAre, CallsAre
<1>4. lists[0] # << >> => Main \in MethodNames
  BY MainIs
<1> QED BY <1>2, <1>3, <1>4 DEF Compiles, MethodNames

(* Every script that keeps to the limits of the compiler is read without an     *)
(* exception, and when it is read its methods have different names and call     *)
(* only each other: CodeLoader returns an assembly (Script.cs).                 *)
THEOREM SupportedScriptsCompile == Spec => []SupportedCompiles
<1>1. CompilerInv => SupportedCompiles
  <2> SUFFICES ASSUME CompilerInv, Supported(Text) PROVE status # "thrown" /\ (status = "read" => Compiled)
    BY DEF SupportedCompiles
  <2>1. WellFormed(Text)
    BY DEF Supported
  <2>2. status # "thrown"
    BY <2>1 DEF CompilerInv, Prepared
  <2>3. ASSUME status = "read" PROVE Compiled
    <3>1. Ready
      BY <2>1, <2>3, ReadyIs
    <3> QED BY <2>3, <3>1, ThrowsNot, CompilesIs DEF Compiled
  <2> QED BY <2>2, <2>3
<1> QED BY <1>1, InitCompiler, NextCompiler, StillCompiler, PTL DEF Spec

-----------------------------------------------------------------------------
(* Where the story goes.                                                       *)

(* The methods that lead somewhere in k returns, of those that do in one less. *)
Row(g, k) ==
  [x \in Methods |->
     IF ~IsReturn(x[1], x[2]) THEN lists[x[2]][x[1] + 1]
     ELSE IF k = 0 THEN 0 ELSE g[Method(ReturnTo(x[2]))]]
Rows(g, u) == g = [k \in 0 .. u |-> Row(g[k - 1], k)]

(* There are such rows, and the last one is what Leads is. *)
LEMMA LeadsIs ==
  ASSUME Len(script) \in Nat
  PROVE  \E g : Leads = g[Len(script)] /\ \A k \in 0 .. Len(script) : g[k] = Row(g[k - 1], k)
<1> DEFINE Bad == {u \in Nat : ~\E g : Rows(g, u)}
<1>1. Bad = {}
  <2> SUFFICES ASSUME Bad # {} PROVE FALSE
    OBVIOUS
  <2>1. Bad \in SUBSET Nat
    OBVIOUS
  <2>2. \E n \in Bad : \A m \in Bad : n <= m
    <3> HIDE DEF Bad
    <3> QED BY <2>1, NatMin
  <2>3. PICK u \in Bad : \A m \in Bad : u <= m
    BY <2>2
  <2>4. u \in Nat /\ ~\E g : Rows(g, u)
    OBVIOUS
  <2>5. CASE u = 0
    <3> DEFINE g == [k \in 0 .. 0 |-> Row(0, 0)]
    <3>1. Row(g[0 - 1], 0) = Row(0, 0)
      BY DEF Row
    <3>2. \A k \in 0 .. 0 : k = 0
      OBVIOUS
    <3>3. g = [k \in 0 .. 0 |-> Row(g[k - 1], k)]
      <4>1. \A k \in 0 .. 0 : Row(0, 0) = Row(g[k - 1], k)
        <5> HIDE DEF g
        <5> QED BY <3>1, <3>2
      <4> HIDE DEF g
      <4>2. g = [k \in 0 .. 0 |-> Row(0, 0)]
        BY DEF g
      <4> QED BY <4>1, <4>2, Zenon
    <3>4. Rows(g, 0)
      BY <3>3 DEF Rows
    <3> QED BY <2>4, <2>5, <3>4
  <2>6. CASE u # 0
    <3>1. u - 1 \in Nat /\ ~(u <= u - 1) /\ u - 1 \notin Bad
      BY <2>3, <2>4, <2>6
    <3>2. PICK g : Rows(g, u - 1)
      BY <3>1
    <3> DEFINE h == [k \in 0 .. u |-> IF k = u THEN Row(g[u - 1], u) ELSE g[k]]
    <3>3. \A k \in 0 .. u - 1 : h[k] = g[k]
      <4>1. \A k \in 0 .. u - 1 : k \in 0 .. u /\ k # u
        BY <2>4
      <4> QED BY <4>1
    <3>4. ASSUME NEW k \in 0 .. u PROVE (IF k = u THEN Row(g[u - 1], u) ELSE g[k]) = Row(h[k - 1], k)
      <4>1. CASE k = u
        <5>1. k - 1 \in 0 .. u - 1 /\ k - 1 = u - 1
          BY <2>4, <2>6, <4>1
        <5>2. h[k - 1] = g[u - 1]
          BY <3>3, <5>1
        <5> QED BY <4>1, <5>2
      <4>2. CASE k # u
        <5>1. k \in 0 .. u - 1
          BY <2>4, <4>2
        <5>2. g[k] = Row(g[k - 1], k)
          BY <3>2, <5>1 DEF Rows
        <5>3. CASE k = 0
          <6>1. Row(g[k - 1], k) = Row(h[k - 1], k)
            BY <5>3 DEF Row
          <6> QED BY <4>2, <5>2, <6>1
        <5>4. CASE k # 0
          <6>1. k - 1 \in 0 .. u - 1
            BY <2>4, <5>1, <5>4
          <6>2. h[k - 1] = g[k - 1]
            BY <3>3, <6>1
          <6> QED BY <4>2, <5>2, <6>2
        <5> QED BY <5>3, <5>4
      <4> QED BY <4>1, <4>2
    <3>5. h = [k \in 0 .. u |-> IF k = u THEN Row(g[u - 1], u) ELSE g[k]]
      OBVIOUS
    <3> HIDE DEF h
    <3>6. h = [k \in 0 .. u |-> Row(h[k - 1], k)]
      BY <3>4, <3>5, Zenon
    <3>7. Rows(h, u)
      BY <3>6 DEF Rows
    <3> QED BY <2>4, <3>7
  <2> QED BY <2>5, <2>6
<1>2. \E g : Rows(g, Len(script))
  BY <1>1
<1> DEFINE to == CHOOSE g : Rows(g, Len(script))
<1>3. Rows(to, Len(script))
  BY <1>2
<1>4. Leads = to[Len(script)]
  BY DEF Leads, Rows, Row
<1>5. \A k \in 0 .. Len(script) : to[k] = Row(to[k - 1], k)
  <2> HIDE DEF to
  <2> QED BY <1>3 DEF Rows
<1> QED BY <1>4, <1>5

-----------------------------------------------------------------------------
(* What follows in the text.                                                   *)

(* A line is not deeper than its number says. *)
LEMMA NotDeep ==
  ASSUME Ready, NEW n \in 1 .. Len(Text) + 1
  PROVE  D(n) \in Nat /\ D(n) < n
<1> DEFINE Bad == {k \in Nat : k \in 1 .. Len(Text) + 1 /\ ~(D(k) < k)}
<1>1. Len(Text) \in Nat /\ Tidy
  BY ReadyHas DEF Ready
<1>2. \A k \in 1 .. Len(Text) + 1 : D(k) \in Nat
  BY ReadyHas
<1>3. Bad = {}
  <2> SUFFICES ASSUME Bad # {} PROVE FALSE
    OBVIOUS
  <2>1. Bad \in SUBSET Nat
    OBVIOUS
  <2>2. \E k \in Bad : \A m \in Bad : k <= m
    <3> HIDE DEF Bad
    <3> QED BY <2>1, NatMin
  <2>3. PICK k \in Bad : \A m \in Bad : k <= m
    BY <2>2
  <2>4. k \in Nat /\ k \in 1 .. Len(Text) + 1 /\ ~(D(k) < k)
    OBVIOUS
  <2>5. k # 1
    <3>1. D(1) = 0
      BY <1>1 DEF Tidy
    <3> QED BY <2>4, <3>1
  <2>6. PICK j \in 1 .. Len(Text) : j + 1 = k
    <3>1. k - 1 \in 1 .. Len(Text) /\ (k - 1) + 1 = k
      BY <1>1, <2>4, <2>5
    <3> QED BY <3>1
  <2>7. j \in Nat /\ j \in 1 .. Len(Text) + 1 /\ ~(k <= j)
    BY <1>1, <2>6
  <2>8. D(j) < j
    <3>1. j \notin Bad
      BY <2>3, <2>7
    <3> QED BY <2>7, <3>1
  <2>9. D(j + 1) = D(j) + (IF Kind(script, j) = "for" THEN 1 ELSE 0) - (IF Kind(script, j) = "end" THEN 1 ELSE 0)
    BY <1>1 DEF Tidy
  <2>10. D(j) \in Nat /\ D(k) \in Nat
    BY <1>2, <2>4, <2>7
  <2>11. D(k) <= D(j) + 1
    BY <2>6, <2>9, <2>10
  <2> QED BY <2>4, <2>6, <2>7, <2>8, <2>10, <2>11
<1>4. n \in Nat /\ n \notin Bad
  BY <1>1, <1>3
<1> QED BY <1>2, <1>4

(* The block of a line, by the whole text. *)
LEMMA TextOpener ==
  ASSUME Ready, NEW n \in 1 .. Len(Text), NEW b \in 0 .. Len(script), AtBlock(b, n)
  PROVE  Opener(Text, n) = b
<1>1. TypeOK /\ Tidy /\ Len(Text) \in Nat /\ Len(script) \in Nat /\ Len(Text) <= Len(script)
  BY ReadyHas DEF Ready
<1>2. n \in Nat /\ n \in 1 .. Len(Text) + 1 /\ n \in 1 .. Len(script)
  BY <1>1
<1>3. /\ DOMAIN Text = 1 .. Len(Text) /\ DOMAIN script = 1 .. Len(script)
      /\ \A k \in 1 .. Len(Text) : Kind(Text, k) = Kind(script, k)
      /\ \A k \in 1 .. Len(Text) + 1 : Depth(Text, k) = D(k)
  BY <1>1, TextIs, StackIs
<1>4. Opener(script, n) = b
  <2>1. CASE b = 0
    <3>1. D(n) = 0 /\ 0 \in 0 .. n - 1
      BY <1>2, <2>1 DEF AtBlock
    <3> QED BY <1>1, <1>2, <2>1, <3>1, OpenerOf
  <2>2. CASE b # 0
    <3>1. b < n /\ Kind(script, b) = "for" /\ D(n) = D(b) + 1 /\ \A k \in b + 1 .. n : D(k) > D(b)
      BY <2>2 DEF AtBlock
    <3>2. b \in 0 .. n - 1 /\ b \in 1 .. Len(Text) + 1 /\ b \in Nat
      BY <1>1, <1>2, <2>2, <3>1
    <3>3. D(b) \in Nat /\ D(n) \in Nat
      BY <1>2, <3>2, ReadyHas
    <3>4. ASSUME NEW k \in b + 1 .. n - 1 PROVE D(k) >= D(n)
      <4>1. k \in b + 1 .. n /\ k \in 1 .. Len(Text) + 1
        BY <1>1, <1>2, <3>2
      <4>2. D(k) > D(b) /\ D(k) \in Nat
        BY <3>1, <4>1, ReadyHas
      <4> QED BY <3>1, <3>3, <4>2
    <3>5. D(b) < D(n)
      BY <3>1, <3>3
    <3> QED BY <1>1, <1>2, <2>2, <3>1, <3>2, <3>4, <3>5, OpenerOf
  <2> QED BY <2>1, <2>2
<1>5. \A f : f \in LinesOf(Text, "for") /\ f < n /\ Depth(Text, f) < Depth(Text, n)
              <=> f \in LinesOf(script, "for") /\ f < n /\ Depth(script, f) < Depth(script, n)
  <2>1. \A f \in 1 .. Len(Text) : f \in 1 .. Len(script) /\ f \in 1 .. Len(Text) + 1
    BY <1>1
  <2>2. \A f \in 1 .. Len(script) : f < n => f \in 1 .. Len(Text)
    BY <1>1, <1>2
  <2> QED BY <1>2, <1>3, <2>1, <2>2 DEF LinesOf, D
<1>6. {f \in LinesOf(Text, "for") : f < n /\ Depth(Text, f) < Depth(Text, n)}
       = {f \in LinesOf(script, "for") : f < n /\ Depth(script, f) < Depth(script, n)}
  BY <1>5
<1> QED BY <1>4, <1>6 DEF Opener

(* A block has no line that is not deeper than it. *)
LEMMA NotOpener ==
  ASSUME Ready, NEW k \in 1 .. Len(Text), NEW b \in 1 .. Len(Text), D(k) <= D(b)
  PROVE  Opener(Text, k) # b
<1> DEFINE S == {0} \cup {f \in LinesOf(Text, "for") : f < k /\ Depth(Text, f) < Depth(Text, k)}
<1>1. TypeOK /\ Len(Text) \in Nat
  BY ReadyHas DEF Ready
<1>2. DOMAIN Text = 1 .. Len(Text) /\ \A n \in 1 .. Len(Text) + 1 : Depth(Text, n) = D(n)
  BY <1>1, TextIs
<1>3. S \subseteq 0 .. Len(Text) /\ S # {}
  BY <1>1, <1>2 DEF LinesOf
<1>4. Opener(Text, k) = Max(S)
  BY DEF Opener
<1>5. Max(S) \in S
  <2> HIDE DEF S
  <2> QED BY <1>1, <1>3, GreatestIs
<1>6. b \notin S
  <2>1. b \in 1 .. Len(Text) + 1 /\ k \in 1 .. Len(Text) + 1 /\ b # 0
    BY <1>1
  <2>2. D(b) \in Nat /\ D(k) \in Nat
    BY <2>1, ReadyHas
  <2>3. ~(Depth(Text, b) < Depth(Text, k))
    BY <1>2, <2>1, <2>2
  <2> QED BY <2>1, <2>3
<1> QED BY <1>4, <1>5, <1>6

(* The lines of a run are the say's or the menu's that the run begins with.    *)
LEMMA RunHead ==
  ASSUME Ready, NEW h, InList(h), NEW n \in 1 .. Len(Text), h < n,
         (\A k \in h .. n : Kind(script, k) = "say") \/ (\A k \in h .. n : Kind(script, k) \in Menus)
  PROVE  n \in Taken(h) /\ D(n) = D(h)
<1>1. Len(Text) \in Nat /\ 1 .. Len(Text) \subseteq Lines /\ n \in Nat
  BY ReadyHas
<1>2. PICK a \in 0 .. Len(script) : h \in Within(a)
  BY DEF InList
<1>3. SoundAt(a, h) /\ h \in 1 .. Len(Text) /\ h \in Nat
  BY <1>1, <1>2, ReadyHas DEF Ready, Sound
<1>4. n - 1 \in h .. n /\ n \in h .. n /\ h \in h .. n /\ n > 1
  BY <1>1, <1>3
<1>5. ~InList(n)
  <2> SUFFICES ASSUME NEW b \in 0 .. Len(script), n \in Within(b) PROVE FALSE
    BY DEF InList
  <2>1. SoundAt(b, n)
    BY DEF Ready, Sound
  <2> QED BY <1>4, <2>1 DEF SoundAt
<1>6. Kind(script, n) \notin {"for", "end"}
  BY <1>4 DEF Menus
<1>7. \A m \in Lines : n \notin ToSet(blocks[m])
  BY <1>6, BlockIs DEF BlockOf
<1>8. PICK m \in Lines : n \in Taken(m) /\ InList(m)
  BY <1>5, <1>6, <1>7, PlacesAre
<1>9. RunTo(m, n)
  BY <1>8 DEF Ready, Parts
<1>10. m < n /\ m \in Nat /\ D(n) = D(m)
  BY <1>9 DEF RunTo, Lines
<1>11. PICK b \in 0 .. Len(script) : m \in Within(b)
  BY <1>8 DEF InList
<1>12. SoundAt(b, m)
  BY <1>11 DEF Ready, Sound
<1>13. ~(m < h)
  <2> SUFFICES ASSUME m < h PROVE FALSE
    OBVIOUS
  <2>1. h \in m .. n /\ h - 1 \in m .. n /\ h > 1
    BY <1>1, <1>3, <1>10, <1>12 DEF SoundAt
  <2> QED BY <1>3, <1>9, <2>1 DEF SoundAt, RunTo
<1>14. ~(h < m)
  <2> SUFFICES ASSUME h < m PROVE FALSE
    OBVIOUS
  <2>1. m \in h .. n /\ m - 1 \in h .. n /\ m > 1
    BY <1>1, <1>3, <1>10
  <2> QED BY <1>12, <2>1 DEF SoundAt
<1>15. m = h
  BY <1>3, <1>10, <1>13, <1>14
<1> QED BY <1>8, <1>10, <1>15

(* Every "for" is a block that was read. *)
LEMMA EachBlock ==
  ASSUME Ready, NEW f \in 1 .. Len(Text), Kind(script, f) = "for"
  PROVE  f \in Lists /\ \E m \in Lines : BlockOf(f, m)
<1>1. Len(Text) \in Nat /\ f \in Nat
  BY ReadyHas
<1>2. ~InList(f)
  <2>1. ASSUME NEW a \in 0 .. Len(script), f \in Within(a) PROVE FALSE
    BY <2>1 DEF Ready, Sound, SoundAt
  <2> QED BY <2>1 DEF InList
<1>3. \A m \in Lines : f \notin Taken(m)
  <2>1. ASSUME NEW m \in Lines, f \in Taken(m) PROVE FALSE
    <3>1. RunTo(m, f)
      BY <2>1 DEF Ready, Parts
    <3>2. f \in m .. f
      BY <1>1, <3>1 DEF RunTo, Lines
    <3> QED BY <3>1, <3>2 DEF RunTo, Menus
  <2> QED BY <2>1
<1>4. PICK m \in Lines : f \in ToSet(blocks[m])
  BY <1>2, <1>3, PlacesAre
<1> QED BY <1>4, BlockIs, ListsRead

(* The first line of a menu that a block may be of. *)
Heading(h, f) ==
  h \in 1 .. f - 1 /\ Kind(script, h) \in Menus /\ (h > 1 => Kind(script, h - 1) \notin Menus) /\ D(h) = D(f)

(* A block is of the last one. *)
LEMMA HeadsBefore ==
  ASSUME Ready, NEW f, NEW m, BlockOf(f, m)
  PROVE  Heading(m, f) /\ \A h : Heading(h, f) => h <= m
<1> DEFINE S == {h \in 1 .. f - 1 : /\ Kind(Text, h) \in Menus
                                    /\ h > 1 => Kind(Text, h - 1) \notin Menus
                                    /\ Depth(Text, h) = Depth(Text, f)}
<1>1. /\ f \in 1 .. Len(Text) /\ m \in 1 .. Len(Text) /\ Kind(script, m) \in Menus /\ m < f
      /\ D(m) = D(f) /\ InList(m) /\ f \in Answers(Text, m)
  BY DEF BlockOf
<1>2. Len(Text) \in Nat /\ TypeOK
  BY ReadyHas DEF Ready
<1>3. /\ \A k \in 1 .. Len(Text) : Kind(Text, k) = Kind(script, k)
      /\ \A k \in 1 .. Len(Text) + 1 : Depth(Text, k) = D(k)
  BY <1>2, TextIs
<1>4. ASSUME NEW h \in 1 .. f - 1
      PROVE  /\ Kind(Text, h) = Kind(script, h) /\ Depth(Text, h) = D(h) /\ Depth(Text, f) = D(f)
             /\ h > 1 => Kind(Text, h - 1) = Kind(script, h - 1)
  <2>1. h \in 1 .. Len(Text) /\ h \in 1 .. Len(Text) + 1 /\ f \in 1 .. Len(Text) + 1 /\ (h > 1 => h - 1 \in 1 .. Len(Text))
    BY <1>1, <1>2
  <2> QED BY <1>3, <2>1
<1>5. \A h : h \in S <=> Heading(h, f)
  BY <1>4 DEF Heading
<1>6. Heading(m, f)
  <2>1. PICK a \in 0 .. Len(script) : m \in Within(a)
    BY <1>1 DEF InList
  <2>2. SoundAt(a, m)
    BY <2>1 DEF Ready, Sound
  <2>3. m \in 1 .. f - 1
    BY <1>1, <1>2
  <2> QED BY <1>1, <2>2, <2>3 DEF SoundAt, Heading
<1>7. S \subseteq 0 .. Len(Text)
  BY <1>1, <1>2
<1>8. Max(S) = m
  BY <1>1 DEF Answers, MenuAt
<1>9. \A h \in S : h <= Max(S)
  <2> HIDE DEF S
  <2> QED BY <1>2, <1>5, <1>6, <1>7, GreatestIs
<1> HIDE DEF S
<1> QED BY <1>5, <1>6, <1>8, <1>9

(* Between a menu and its blocks there is nothing else at its depth.           *)
Between(m, f) == \A l \in m .. f : D(l) >= D(m) /\ (D(l) = D(m) => Kind(script, l) \in {"for"} \cup Menus)

(* The choices come first ... *)
LEMMA AfterChoice ==
  ASSUME Ready, NEW f, NEW m, BlockOf(f, m), Kind(script, f - 1) = "choice"
  PROVE  Between(m, f)
<1>1. f \in 1 .. Len(Text) /\ m \in 1 .. Len(Text) /\ m < f /\ D(m) = D(f) /\ Kind(script, f) = "for"
  BY DEF BlockOf
<1>2. Len(Text) \in Nat /\ Tidy /\ 1 .. Len(Text) \subseteq Lines
  BY ReadyHas DEF Ready
<1>3. PICK j \in 1 .. Len(Text) : j + 1 = f /\ j = f - 1
  <2>1. f - 1 \in 1 .. Len(Text) /\ (f - 1) + 1 = f
    BY <1>1, <1>2
  <2> QED BY <2>1
<1>4. Kind(script, j) = "choice" /\ j \in Nat /\ m <= j /\ j \in 1 .. Len(Text) + 1 /\ m \in 1 .. Len(Text) + 1
  BY <1>1, <1>2, <1>3
<1>5. D(j) = D(f)
  <2>1. D(j + 1) = D(j) + 0 - 0
    BY <1>2, <1>4 DEF Tidy
  <2>2. D(j) \in Nat
    BY <1>4, ReadyHas
  <2> QED BY <1>3, <2>1, <2>2
<1>6. \E h \in Lines : InList(h) /\ h <= j /\ D(h) = D(j) /\ \A k \in h .. j : Kind(script, k) \in Menus
  <2>1. CASE InList(j)
    <3>1. j \in Lines /\ j <= j /\ \A k \in j .. j : k = j
      BY <1>2, <1>4
    <3> QED BY <1>4, <2>1, <3>1 DEF Menus
  <2>2. ASSUME NEW h \in Lines, j \in Taken(h), InList(h) PROVE InList(h) /\ h <= j /\ D(h) = D(j) /\ \A k \in h .. j : Kind(script, k) \in Menus
    <3>1. RunTo(h, j)
      BY <2>2 DEF Ready, Parts
    <3>2. h < j /\ h \in Nat /\ j \in h .. j
      BY <1>4, <3>1 DEF RunTo, Lines
    <3> QED BY <1>4, <2>2, <3>1, <3>2 DEF RunTo
  <2>3. \A x \in Lines : j \notin ToSet(blocks[x])
    BY <1>4, BlockIs DEF BlockOf
  <2> QED BY <1>4, <2>1, <2>2, <2>3, PlacesAre
<1>7. PICK h \in Lines : InList(h) /\ h <= j /\ D(h) = D(j) /\ \A k \in h .. j : Kind(script, k) \in Menus
  BY <1>6
<1>8. h \in Nat /\ h \in 1 .. j /\ h \in h .. j /\ h \in 1 .. f - 1
  BY <1>3, <1>4, <1>7 DEF Lines
<1>9. Heading(h, f)
  <2>1. PICK a \in 0 .. Len(script) : h \in Within(a)
    BY <1>7 DEF InList
  <2>2. SoundAt(a, h)
    BY <2>1 DEF Ready, Sound
  <2> QED BY <1>5, <1>7, <1>8, <2>2 DEF SoundAt, Heading
<1>10. h <= m /\ Heading(m, f)
  BY <1>9, HeadsBefore
<1>11. h = m
  <2> SUFFICES ASSUME h # m PROVE FALSE
    OBVIOUS
  <2>1. m > 1 /\ m - 1 \in h .. j
    BY <1>4, <1>8, <1>10
  <2> QED BY <1>7, <1>10, <2>1 DEF Heading
<1>12. ASSUME NEW l \in m .. f PROVE D(l) >= D(m) /\ (D(l) = D(m) => Kind(script, l) \in {"for"} \cup Menus)
  <2>1. D(m) \in Nat
    BY <1>4, ReadyHas
  <2>2. CASE l = f
    BY <1>1, <2>1, <2>2
  <2>3. CASE l # f
    <3>1. l \in m .. j /\ l \in 1 .. Len(Text)
      BY <1>1, <1>2, <1>3, <2>3
    <3>2. Kind(script, l) \in Menus
      BY <1>7, <1>11, <3>1
    <3>3. D(l) = D(m)
      <4>1. CASE l = m
        BY <4>1
      <4>2. CASE l # m
        <5>1. m < l /\ \A k \in m .. l : k \in m .. j
          BY <1>4, <3>1, <4>2
        <5>2. \A k \in m .. l : Kind(script, k) \in Menus
          BY <1>7, <1>11, <5>1
        <5> QED BY <1>7, <1>11, <3>1, <5>1, <5>2, RunHead
      <4> QED BY <4>1, <4>2
    <3> QED BY <2>1, <3>2, <3>3
  <2> QED BY <2>2, <2>3
<1> QED BY <1>12 DEF Between

(* ... and then the blocks, one after another. *)
LEMMA AfterEnd ==
  ASSUME Ready, NEW f, NEW m, BlockOf(f, m), Kind(script, f - 1) = "end"
  PROVE  \E g \in 1 .. Len(Text) : g < f /\ BlockOf(g, m) /\ (Between(m, g) => Between(m, f))
<1>1. f \in 1 .. Len(Text) /\ m \in 1 .. Len(Text) /\ m < f /\ D(m) = D(f) /\ Kind(script, f) = "for" /\ Kind(script, m) \in Menus
  BY DEF BlockOf
<1>2. Len(Text) \in Nat /\ Tidy /\ 1 .. Len(Text) \subseteq Lines
  BY ReadyHas DEF Ready
<1>3. PICK j \in 1 .. Len(Text) : j + 1 = f /\ j = f - 1
  <2>1. f - 1 \in 1 .. Len(Text) /\ (f - 1) + 1 = f
    BY <1>1, <1>2
  <2> QED BY <2>1
<1>4. Kind(script, j) = "end" /\ j \in Nat /\ f \in Nat /\ f \in 1 .. Len(Text) + 1 /\ j \in 1 .. Len(Text) + 1 /\ m \in 1 .. Len(Text) + 1
  BY <1>1, <1>2, <1>3
<1>5. D(f) \in Nat /\ D(j) \in Nat /\ D(j) = D(f) + 1
  <2>1. D(j + 1) = D(j) + 0 - 1
    BY <1>2, <1>4 DEF Tidy
  <2>2. D(j) \in Nat /\ D(f) \in Nat
    BY <1>4, ReadyHas
  <2> QED BY <1>3, <2>1, <2>2
<1> DEFINE S == {l \in 1 .. j : D(l) <= D(f)}
<1>6. S \subseteq 0 .. Len(Text) /\ S # {}
  <2>1. 1 \in 1 .. j /\ D(1) = 0
    BY <1>2, <1>3 DEF Tidy
  <2>2. 1 \in S
    BY <1>5, <2>1
  <2> QED BY <1>2, <2>2
<1>7. Max(S) \in S /\ \A x \in S : x <= Max(S)
  <2> HIDE DEF S
  <2> QED BY <1>2, <1>6, GreatestIs
<1>8. PICK g \in 1 .. j : D(g) <= D(f) /\ \A x \in S : x <= g
  BY <1>7
<1>9. g \in 1 .. Len(Text) /\ g < j /\ g < f /\ g + 1 \in 1 .. j /\ g + 1 \in 1 .. Len(Text) + 1 /\ g \in 1 .. Len(Text) + 1 /\ ~(g + 1 <= g) /\ g \in Nat
  <2>1. g # j
    BY <1>5, <1>8
  <2> QED BY <1>2, <1>3, <1>8, <2>1
<1>10. \A l \in g + 1 .. j : D(l) > D(f)
  <2> SUFFICES ASSUME NEW l \in g + 1 .. j PROVE D(l) > D(f)
    OBVIOUS
  <2>1. l \in 1 .. j /\ ~(l <= g) /\ l \in 1 .. Len(Text) + 1
    BY <1>2, <1>9
  <2>2. l \notin S
    BY <1>8, <2>1
  <2>3. D(l) \in Nat
    BY <2>1, ReadyHas
  <2> QED BY <1>5, <2>1, <2>2, <2>3
<1>11. Kind(script, g) = "for" /\ D(g) = D(f)
  <2>1. g + 1 \in g + 1 .. j
    BY <1>9
  <2>2. D(g + 1) > D(f) /\ D(g) \in Nat /\ D(g + 1) \in Nat
    BY <1>9, <1>10, <2>1, ReadyHas
  <2>3. D(g + 1) = D(g) + (IF Kind(script, g) = "for" THEN 1 ELSE 0) - (IF Kind(script, g) = "end" THEN 1 ELSE 0)
    BY <1>2, <1>9 DEF Tidy
  <2> QED BY <1>5, <1>8, <2>2, <2>3
<1>12. PICK h \in Lines : BlockOf(g, h)
  BY <1>9, <1>11, EachBlock
<1>13. Heading(h, g) /\ Heading(m, f) /\ (\A x : Heading(x, g) => x <= h) /\ (\A x : Heading(x, f) => x <= m)
  BY <1>12, HeadsBefore
<1>14. h \in Nat /\ m \in Nat /\ h < g
  BY <1>1, <1>12 DEF Lines, BlockOf
<1>15. h <= m
  <2>1. h \in 1 .. f - 1
    BY <1>4, <1>9, <1>13, <1>14 DEF Heading
  <2>2. Heading(h, f)
    BY <1>11, <1>13, <2>1 DEF Heading
  <2> QED BY <1>13, <2>2
<1>16. m < g
  <2> SUFFICES ASSUME ~(m < g) PROVE FALSE
    OBVIOUS
  <2>1. m # g
    BY <1>1, <1>11 DEF Menus
  <2>2. m \in g + 1 .. j
    BY <1>1, <1>3, <1>4, <1>9, <1>14, <2>1
  <2>3. D(m) > D(f)
    BY <1>10, <2>2
  <2> QED BY <1>1, <1>5, <2>3
<1>17. m <= h
  <2>1. m \in 1 .. g - 1
    BY <1>1, <1>9, <1>16
  <2>2. Heading(m, g)
    BY <1>11, <1>13, <2>1 DEF Heading
  <2> QED BY <1>13, <2>2
<1>18. h = m
  BY <1>14, <1>15, <1>17
<1>19. ASSUME Between(m, g), NEW l \in m .. f PROVE D(l) >= D(m) /\ (D(l) = D(m) => Kind(script, l) \in {"for"} \cup Menus)
  <2>1. CASE l \in m .. g
    BY <1>19, <2>1 DEF Between
  <2>2. CASE l \in g + 1 .. j
    <3>1. D(l) > D(f) /\ D(l) \in Nat
      <4>1. l \in 1 .. Len(Text) + 1
        BY <1>2, <1>9, <2>2
      <4> QED BY <1>10, <2>2, <4>1, ReadyHas
    <3> QED BY <1>1, <1>5, <3>1
  <2>3. CASE l = f
    BY <1>1, <1>5, <2>3
  <2> QED BY <1>3, <1>9, <1>14, <2>1, <2>2, <2>3
<1>20. Between(m, g) => Between(m, f)
  BY <1>19 DEF Between
<1> QED BY <1>9, <1>12, <1>18, <1>20

(* So it is for each of them. *)
LEMMA BetweenIs ==
  ASSUME Ready, NEW f, NEW m, BlockOf(f, m)
  PROVE  Between(m, f)
<1> DEFINE Bad == {k \in Nat : \E x : BlockOf(k, x) /\ ~Between(x, k)}
<1>1. Bad = {}
  <2> SUFFICES ASSUME Bad # {} PROVE FALSE
    OBVIOUS
  <2>1. Bad \in SUBSET Nat
    OBVIOUS
  <2>2. \E k \in Bad : \A n \in Bad : k <= n
    <3> HIDE DEF Bad
    <3> QED BY <2>1, NatMin
  <2>3. PICK k \in Bad : \A n \in Bad : k <= n
    BY <2>2
  <2>4. PICK x : BlockOf(k, x) /\ ~Between(x, k)
    OBVIOUS
  <2>5. k \in 1 .. Len(Text) /\ Kind(script, k) = "for" /\ Len(Text) \in Nat /\ k \in Nat
    BY <2>4, ReadyHas DEF BlockOf
  <2>6. Kind(script, k - 1) \in {"choice", "end"}
    BY <2>5 DEF Ready, Tidy
  <2>7. Kind(script, k - 1) # "choice"
    BY <2>4, AfterChoice
  <2>8. PICK g \in 1 .. Len(Text) : g < k /\ BlockOf(g, x) /\ ~Between(x, g)
    BY <2>4, <2>6, <2>7, AfterEnd
  <2>9. g \in Bad /\ ~(k <= g)
    BY <2>5, <2>8
  <2> QED BY <2>3, <2>9
<1>2. f \in Nat
  BY ReadyHas DEF BlockOf
<1> QED BY <1>1, <1>2

(* What comes after a menu comes after its blocks. *)
LEMMA BlocksBefore ==
  ASSUME Ready, NEW f, NEW m, BlockOf(f, m), NEW a \in 0 .. Len(script), m \in Within(a), NEW y \in Within(a), m < y
  PROVE  f < y /\ D(y) = D(m)
<1>1. SoundAt(a, y) /\ SoundAt(a, m) /\ f \in 1 .. Len(Text) /\ m \in 1 .. Len(Text) /\ D(m) = D(f) /\ Len(Text) \in Nat
  BY ReadyHas DEF Ready, Sound, BlockOf
<1>2. y \in 1 .. Len(Text) /\ AtBlock(a, y) /\ AtBlock(a, m) /\ Kind(script, y) \notin {"for", "end"}
  BY <1>1 DEF SoundAt
<1>3. D(y) = D(m)
  BY <1>2 DEF AtBlock
<1> SUFFICES ASSUME ~(f < y) PROVE FALSE
  BY <1>3
<1>4. y \in m .. f
  BY <1>1, <1>2
<1>5. Kind(script, y) \in Menus
  <2>1. Kind(script, y) \in {"for"} \cup Menus
    BY <1>3, <1>4, BetweenIs DEF Between
  <2> QED BY <1>2, <2>1
<1>6. y # f
  BY <1>5 DEF BlockOf, Menus
<1>7. y \in 1 .. f - 1
  BY <1>1, <1>2, <1>4, <1>6
<1>8. Heading(y, f)
  BY <1>1, <1>3, <1>5, <1>7 DEF Heading, SoundAt
<1>9. y <= m
  BY <1>8, HeadsBefore
<1> QED BY <1>1, <1>2, <1>9

(* Where the text goes on behind line e, leaving the blocks e is the end of.   *)
Later(e) ==
  {k \in e + 1 .. Len(Text) : Kind(script, k) \notin {"for", "end"} /\ \A l \in e + 1 .. k : D(l) >= D(k)}
First(S) == IF S = {} THEN 0 ELSE Min(S)

(* It is what follows. *)
LEMMA FollowsIs ==
  ASSUME Ready, NEW e \in 1 .. Len(Text)
  PROVE  Follows(Text, e) = First(Later(e))
<1>1. TypeOK /\ Len(Text) \in Nat
  BY ReadyHas DEF Ready
<1>2. /\ \A k \in 1 .. Len(Text) : Kind(Text, k) = Kind(script, k)
      /\ \A k \in 1 .. Len(Text) + 1 : Depth(Text, k) = D(k)
  BY <1>1, TextIs
<1>3. ASSUME NEW k \in e + 1 .. Len(Text)
      PROVE  Kind(Text, k) = Kind(script, k) /\ Depth(Text, k) = D(k) /\ \A l \in e + 1 .. k : Depth(Text, l) = D(l)
  <2>1. k \in 1 .. Len(Text) /\ k \in 1 .. Len(Text) + 1 /\ \A l \in e + 1 .. k : l \in 1 .. Len(Text) + 1
    BY <1>1
  <2> QED BY <1>2, <2>1
<1>4. {k \in e + 1 .. Len(Text) : /\ Kind(Text, k) \notin {"for", "end"}
                                  /\ \A l \in e + 1 .. k : Depth(Text, l) >= Depth(Text, k)} = Later(e)
  BY <1>3 DEF Later
<1> QED BY <1>4 DEF Follows, First

(* If the text goes on, then with an instruction. *)
LEMMA LaterIn ==
  ASSUME Ready, NEW e \in 1 .. Len(Text), NEW k \in Later(e), Kind(script, e) \notin Menus,
         e < Len(Text) /\ Kind(script, e) = "say" => Kind(script, e + 1) # "say"
  PROVE  \E h \in Later(e) : h <= k /\ InList(h) /\ D(h) = D(k)
<1>1. Len(Text) \in Nat /\ k \in 1 .. Len(Text) /\ k \in Nat /\ e < k /\ e \in Nat
  BY ReadyHas DEF Later
<1>2. Kind(script, k) \notin {"for", "end"} /\ \A l \in e + 1 .. k : D(l) >= D(k)
  BY DEF Later
<1>3. CASE InList(k)
  BY <1>1, <1>3
<1>4. ASSUME NEW m \in Lines, k \in Taken(m), InList(m) PROVE m \in Later(e) /\ m <= k /\ D(m) = D(k)
  <2>1. RunTo(m, k)
    BY <1>4 DEF Ready, Parts
  <2>2. m < k /\ m \in Nat /\ D(k) = D(m)
    BY <2>1 DEF RunTo, Lines
  <2>3. e < m
    <3> SUFFICES ASSUME ~(e < m) PROVE FALSE
      OBVIOUS
    <3>1. e \in m .. k /\ e + 1 \in m .. k
      BY <1>1, <2>2
    <3> QED BY <2>1, <3>1 DEF RunTo
  <2>4. m \in e + 1 .. Len(Text) /\ m \in m .. k /\ \A l \in e + 1 .. m : l \in e + 1 .. k
    BY <1>1, <2>2, <2>3
  <2>5. Kind(script, m) \notin {"for", "end"}
    BY <2>1, <2>4 DEF RunTo, Menus
  <2>6. \A l \in e + 1 .. m : D(l) >= D(m)
    BY <1>2, <2>2, <2>4
  <2> QED BY <1>1, <2>2, <2>4, <2>5, <2>6 DEF Later
<1>5. \A m \in Lines : k \notin ToSet(blocks[m])
  BY <1>2, BlockIs DEF BlockOf
<1>6. InList(k) \/ \E m \in Lines : k \in Taken(m) /\ InList(m)
  BY <1>1, <1>2, <1>5, PlacesAre
<1> QED BY <1>3, <1>4, <1>6

(* Nothing of the instruction's block comes before the next one of its list.   *)
LEMMA NothingEarlier ==
  ASSUME Ready, NEW b \in 0 .. Len(script), NEW i \in Within(b), NEW e \in 1 .. Len(Text), i <= e,
         Kind(script, e) \notin Menus, e < Len(Text) /\ Kind(script, e) = "say" => Kind(script, e + 1) # "say",
         \A l \in i + 1 .. e : D(l) >= D(i),
         NEW k \in Later(e), D(k) = D(i)
  PROVE  \E h \in Within(b) : i < h /\ h <= k
<1>1. PICK h \in Later(e) : h <= k /\ InList(h) /\ D(h) = D(i)
  BY LaterIn
<1>2. PICK a \in 0 .. Len(script) : h \in Within(a)
  BY <1>1 DEF InList
<1>3. Len(Text) \in Nat /\ i \in Nat /\ i \in 1 .. Len(Text) /\ h \in 1 .. Len(Text) /\ e < h
  <2>1. Len(Text) \in Nat /\ i \in 1 .. Len(Text)
    BY ReadyHas
  <2> QED BY <2>1 DEF Later
<1>4. ASSUME NEW l \in i + 1 .. h PROVE D(l) >= D(i)
  <2>1. l \in i + 1 .. e \/ l \in e + 1 .. h
    BY <1>3
  <2>2. \A x \in e + 1 .. h : D(x) >= D(h)
    BY DEF Later
  <2> QED BY <1>1, <2>1, <2>2
<1>5. i < h
  BY <1>3
<1>6. a = b
  BY <1>1, <1>2, <1>4, <1>5, SameBlock
<1> QED BY <1>1, <1>2, <1>5, <1>6

(* Lines of a block are deeper than it.                                        *)
LEMMA InsideIs ==
  ASSUME Ready, NEW b \in 0 .. Len(script), NEW n \in Within(b), NEW y \in Within(b)
  PROVE  /\ D(n) = D(y) /\ D(n) \in Nat /\ n \in 1 .. Len(Text) /\ (b = 0 => D(n) = 0) /\ Kind(script, n) \notin {"for", "end"}
         /\ b # 0 => /\ b < n /\ b \in 1 .. Len(Text) /\ D(b) \in Nat /\ D(n) = D(b) + 1
                     /\ \A k \in b + 1 .. n : D(k) >= D(n)
         /\ n < y => \A k \in n .. y : D(k) >= D(n)
<1>1. SoundAt(b, n) /\ SoundAt(b, y)
  BY DEF Ready, Sound
<1>2. /\ n \in 1 .. Len(Text) /\ AtBlock(b, n) /\ Kind(script, n) \notin {"for", "end"}
      /\ y \in 1 .. Len(Text) /\ AtBlock(b, y) /\ Len(Text) \in Nat
  BY <1>1, ReadyHas DEF SoundAt
<1>3. D(n) \in Nat /\ D(y) \in Nat
  BY <1>2, ReadyHas
<1>4. CASE b = 0
  <2>1. D(n) = 0 /\ D(y) = 0
    BY <1>2, <1>4 DEF AtBlock
  <2>2. \A k \in n .. y : k \in 1 .. Len(Text) + 1
    BY <1>2
  <2>3. \A k \in n .. y : D(k) >= 0
    BY <2>2, ReadyHas
  <2> QED BY <1>2, <1>4, <2>1, <2>3
<1>5. CASE b # 0
  <2>1. /\ b < n /\ D(n) = D(b) + 1 /\ \A k \in b + 1 .. n : D(k) > D(b)
        /\ D(y) = D(b) + 1 /\ \A k \in b + 1 .. y : D(k) > D(b)
    BY <1>2, <1>5 DEF AtBlock
  <2>2. b \in 1 .. Len(Text) /\ b \in 1 .. Len(Text) + 1
    BY <1>2, <1>5, <2>1
  <2>3. D(b) \in Nat
    BY <2>2, ReadyHas
  <2>4. ASSUME NEW k \in b + 1 .. n PROVE D(k) >= D(n)
    <3>1. k \in 1 .. Len(Text) + 1
      BY <1>2, <2>2
    <3>2. D(k) \in Nat /\ D(k) > D(b)
      BY <2>1, <3>1, ReadyHas
    <3> QED BY <2>1, <2>3, <3>2
  <2>5. ASSUME NEW k \in n .. y PROVE D(k) >= D(n)
    <3>1. k \in 1 .. Len(Text) + 1 /\ k \in b + 1 .. y
      BY <1>2, <2>1, <2>2
    <3>2. D(k) \in Nat /\ D(k) > D(b)
      BY <2>1, <3>1, ReadyHas
    <3> QED BY <2>1, <2>3, <3>2
  <2> QED BY <1>2, <1>3, <1>5, <2>1, <2>2, <2>3, <2>4, <2>5
<1> QED BY <1>4, <1>5

(* Something that is the least of some lines. *)
LEMMA FirstIs ==
  ASSUME NEW S \in SUBSET Nat, NEW y \in S, \A k \in S : ~(k < y)
  PROVE  First(S) = y
<1>1. Min(S) \in S /\ \A k \in S : Min(S) <= k
  BY MinIs
<1>2. PICK x \in Nat : x = Min(S)
  BY <1>1
<1>3. x <= y /\ ~(x < y) /\ y \in Nat
  BY <1>1, <1>2
<1> QED BY <1>2, <1>3 DEF First

(* What follows a block, leaving it and the menu it is of.                     *)
After(b) == {k \in Later(b) : D(k) <= D(b)}

(* Behind an instruction comes the next of its list. *)
LEMMA FollowsNext ==
  ASSUME Ready, NEW b \in 0 .. Len(script), NEW i \in Within(b), NEW y \in Within(b), NEW e \in 1 .. Len(Text), i <= e, e < y,
         \A h \in Within(b) : i < h => y <= h,
         Kind(script, e) \notin Menus, e < Len(Text) /\ Kind(script, e) = "say" => Kind(script, e + 1) # "say",
         \A l \in i + 1 .. e : D(l) >= D(i), D(e + 1) = D(i)
  PROVE  First(Later(e)) = y
<1>1. /\ D(i) = D(y) /\ D(i) \in Nat /\ i \in 1 .. Len(Text) /\ y \in 1 .. Len(Text) /\ Kind(script, y) \notin {"for", "end"}
      /\ Len(Text) \in Nat
  BY InsideIs, ReadyHas
<1>2. i < y
  BY <1>1
<1>3. \A k \in i .. y : D(k) >= D(i)
  BY <1>2, InsideIs
<1>4. y \in Later(e)
  <2>1. y \in e + 1 .. Len(Text) /\ \A l \in e + 1 .. y : l \in i .. y
    BY <1>1
  <2> QED BY <1>1, <1>3, <2>1 DEF Later
<1>5. ASSUME NEW k \in Later(e), k < y PROVE FALSE
  <2>1. k \in e + 1 .. Len(Text) /\ \A l \in e + 1 .. k : D(l) >= D(k)
    BY DEF Later
  <2>2. e + 1 \in e + 1 .. k /\ k \in i .. y /\ k \in 1 .. Len(Text) + 1 /\ k \in Nat
    BY <1>1, <1>5, <2>1
  <2>3. D(e + 1) >= D(k) /\ D(k) >= D(i) /\ D(k) \in Nat
    BY <1>3, <2>1, <2>2, ReadyHas
  <2>4. D(k) = D(i)
    BY <1>1, <2>3
  <2>5. PICK h \in Within(b) : i < h /\ h <= k
    BY <2>4, NothingEarlier
  <2>6. y <= h /\ h \in 1 .. Len(Text)
    BY <2>5, ReadyHas
  <2> QED BY <1>1, <1>5, <2>2, <2>5, <2>6
<1>6. Later(e) \in SUBSET Nat
  BY <1>1 DEF Later
<1> QED BY <1>4, <1>5, <1>6, FirstIs

(* Behind the last of a block comes what follows the block. *)
LEMMA FollowsLast ==
  ASSUME Ready, NEW b \in 0 .. Len(script), NEW i \in Within(b), NEW e \in 1 .. Len(Text), i <= e,
         \A h \in Within(b) : ~(i < h),
         Kind(script, e) \notin Menus, e < Len(Text) /\ Kind(script, e) = "say" => Kind(script, e + 1) # "say",
         \A l \in i + 1 .. e : D(l) >= D(i), D(e + 1) = D(i)
  PROVE  IF b = 0 THEN Later(e) = {} ELSE Later(e) = After(b)
<1>1. /\ D(i) \in Nat /\ i \in 1 .. Len(Text) /\ Len(Text) \in Nat /\ (b = 0 => D(i) = 0)
      /\ b # 0 => b < i /\ b \in 1 .. Len(Text) /\ D(b) \in Nat /\ D(i) = D(b) + 1 /\ \A k \in b + 1 .. i : D(k) >= D(i)
  BY InsideIs, ReadyHas
<1>2. ASSUME NEW k \in Later(e) PROVE D(k) \in Nat /\ D(k) < D(i) /\ k \in e + 1 .. Len(Text) /\ \A l \in e + 1 .. k : D(l) >= D(k)
  <2>1. k \in e + 1 .. Len(Text) /\ \A l \in e + 1 .. k : D(l) >= D(k)
    BY DEF Later
  <2>2. e + 1 \in e + 1 .. k /\ k \in 1 .. Len(Text) + 1
    BY <1>1, <2>1
  <2>3. D(i) >= D(k) /\ D(k) \in Nat
    BY <2>1, <2>2, ReadyHas
  <2>4. D(k) # D(i)
    <3> SUFFICES ASSUME D(k) = D(i) PROVE FALSE
      OBVIOUS
    <3>1. \E h \in Within(b) : i < h /\ h <= k
      BY NothingEarlier
    <3> QED BY <3>1
  <2> QED BY <1>1, <2>1, <2>3, <2>4
<1>3. CASE b = 0
  <2>1. \A k \in Later(e) : FALSE
    BY <1>1, <1>2, <1>3
  <2> QED BY <1>3, <2>1
<1>4. CASE b # 0
  <2>1. ASSUME NEW l \in b + 1 .. e PROVE D(l) >= D(i) /\ D(l) \in Nat
    <3>1. l \in b + 1 .. i \/ l \in i + 1 .. e
      BY <1>1, <1>4
    <3>2. l \in 1 .. Len(Text) + 1
      BY <1>1, <1>4
    <3> QED BY <1>1, <1>4, <3>1, <3>2, ReadyHas
  <2>2. ASSUME NEW k \in Later(e) PROVE k \in After(b)
    <3>1. D(k) \in Nat /\ D(k) < D(i) /\ k \in e + 1 .. Len(Text) /\ (\A l \in e + 1 .. k : D(l) >= D(k)) /\ Kind(script, k) \notin {"for", "end"}
      BY <1>2 DEF Later
    <3>2. k \in b + 1 .. Len(Text) /\ D(k) <= D(b)
      BY <1>1, <1>4, <3>1
    <3>3. ASSUME NEW l \in b + 1 .. k PROVE D(l) >= D(k)
      <4>1. l \in b + 1 .. e \/ l \in e + 1 .. k
        BY <1>1, <1>4, <3>1
      <4> QED BY <1>1, <2>1, <3>1, <4>1
    <3> QED BY <3>1, <3>2, <3>3 DEF After, Later
  <2>3. ASSUME NEW k \in After(b) PROVE k \in Later(e)
    <3>1. k \in b + 1 .. Len(Text) /\ Kind(script, k) \notin {"for", "end"} /\ (\A l \in b + 1 .. k : D(l) >= D(k)) /\ D(k) <= D(b)
      BY DEF After, Later
    <3>2. k \in 1 .. Len(Text) + 1 /\ k \in Nat
      BY <1>1, <1>4, <3>1
    <3>3. k \notin b + 1 .. e
      BY <1>1, <1>4, <2>1, <3>1, <3>2, ReadyHas
    <3>4. k \in e + 1 .. Len(Text) /\ \A l \in e + 1 .. k : l \in b + 1 .. k
      BY <1>1, <1>4, <3>1, <3>2, <3>3
    <3> QED BY <3>1, <3>4 DEF Later
  <2>4. Later(e) = After(b)
    BY <2>2, <2>3
  <2> QED BY <1>4, <2>4
<1> QED BY <1>3, <1>4

(* Behind a block comes what is next after its menu, or follows the menu's     *)
(* block.                                                                      *)
LEMMA AfterNext ==
  ASSUME Ready, NEW b, NEW m, BlockOf(b, m), NEW a \in 0 .. Len(script), m \in Within(a), NEW y \in Within(a), m < y,
         \A h \in Within(a) : m < h => y <= h
  PROVE  First(After(b)) = y
<1>1. /\ b \in 1 .. Len(Text) /\ m \in 1 .. Len(Text) /\ m < b /\ D(m) = D(b) /\ Kind(script, b) = "for" /\ Len(Text) \in Nat
      /\ b < y /\ D(y) = D(m) /\ D(m) \in Nat /\ y \in 1 .. Len(Text) /\ Kind(script, y) \notin {"for", "end"}
  BY ReadyHas, BlocksBefore, InsideIs DEF BlockOf
<1>2. \A k \in m .. y : D(k) >= D(m)
  BY InsideIs
<1>3. y \in After(b)
  <2>1. y \in b + 1 .. Len(Text) /\ \A l \in b + 1 .. y : l \in m .. y
    BY <1>1
  <2>2. \A l \in b + 1 .. y : D(l) >= D(y)
    BY <1>1, <1>2, <2>1
  <2>3. D(y) <= D(b)
    BY <1>1
  <2> QED BY <1>1, <2>1, <2>2, <2>3 DEF After, Later
<1>4. \A l \in m + 1 .. b : D(l) >= D(m)
  <2>1. \A l \in m + 1 .. b : l \in m .. b
    BY <1>1
  <2> QED BY <2>1, BetweenIs DEF Between
<1>5. ASSUME NEW k \in After(b), k < y PROVE FALSE
  <2>1. k \in Later(b) /\ D(k) <= D(b) /\ k \in b + 1 .. Len(Text)
    BY DEF After, Later
  <2>2. k \in m .. y /\ k \in 1 .. Len(Text) + 1 /\ k \in Nat
    BY <1>1, <1>5, <2>1
  <2>3. D(k) >= D(m) /\ D(k) \in Nat
    BY <1>2, <2>2, ReadyHas
  <2>4. D(k) = D(m)
    BY <1>1, <2>1, <2>3
  <2>5. PICK h \in Within(a) : m < h /\ h <= k
    <3>1. m <= b /\ Kind(script, b) \notin Menus /\ Kind(script, b) # "say"
      BY <1>1 DEF Menus
    <3> QED BY <1>1, <1>4, <2>1, <2>4, <3>1, NothingEarlier
  <2>6. y <= h /\ h \in 1 .. Len(Text)
    BY <2>5, ReadyHas
  <2> QED BY <1>1, <1>5, <2>2, <2>5, <2>6
<1>6. After(b) \in SUBSET Nat
  BY <1>1 DEF After, Later
<1> QED BY <1>3, <1>5, <1>6, FirstIs

(* ... and what follows the menu's block if the menu is the last of it.        *)
LEMMA AfterLast ==
  ASSUME Ready, NEW b, NEW m, BlockOf(b, m), NEW a \in 0 .. Len(script), m \in Within(a), a # 0, \A h \in Within(a) : ~(m < h)
  PROVE  After(b) = After(a)
<1>1. /\ b \in 1 .. Len(Text) /\ m \in 1 .. Len(Text) /\ m < b /\ D(m) = D(b) /\ Kind(script, b) = "for" /\ Len(Text) \in Nat
  BY ReadyHas DEF BlockOf
<1>2. D(m) \in Nat /\ a < m /\ a \in 1 .. Len(Text) /\ D(a) \in Nat /\ D(m) = D(a) + 1 /\ \A k \in a + 1 .. m : D(k) >= D(m)
  BY InsideIs
<1>3. \A l \in m .. b : D(l) >= D(m)
  BY BetweenIs DEF Between
<1>4. ASSUME NEW l \in a + 1 .. b PROVE D(l) >= D(m) /\ D(l) \in Nat
  <2>1. l \in a + 1 .. m \/ l \in m .. b
    BY <1>1, <1>2
  <2>2. l \in 1 .. Len(Text) + 1
    BY <1>1, <1>2
  <2> QED BY <1>2, <1>3, <2>1, <2>2, ReadyHas
<1>5. ASSUME NEW k \in After(b) PROVE k \in After(a)
  <2>1. k \in Later(b) /\ D(k) <= D(b) /\ k \in b + 1 .. Len(Text) /\ Kind(script, k) \notin {"for", "end"} /\ \A l \in b + 1 .. k : D(l) >= D(k)
    BY DEF After, Later
  <2>2. k \in 1 .. Len(Text) + 1 /\ k \in a + 1 .. Len(Text)
    BY <1>1, <1>2, <2>1
  <2>3. D(k) \in Nat
    BY <2>2, ReadyHas
  <2>4. D(k) # D(m)
    <3> SUFFICES ASSUME D(k) = D(m) PROVE FALSE
      OBVIOUS
    <3>1. m <= b /\ Kind(script, b) \notin Menus /\ Kind(script, b) # "say"
      BY <1>1 DEF Menus
    <3>2. \A l \in m + 1 .. b : l \in m .. b
      BY <1>1
    <3>3. \E h \in Within(a) : m < h /\ h <= k
      BY <1>1, <1>3, <2>1, <3>1, <3>2, NothingEarlier
    <3> QED BY <3>3
  <2>5. D(k) <= D(a) /\ D(k) <= D(m)
    BY <1>1, <1>2, <2>1, <2>3, <2>4
  <2>6. ASSUME NEW l \in a + 1 .. k PROVE D(l) >= D(k)
    <3>1. l \in a + 1 .. b \/ l \in b + 1 .. k
      BY <1>1, <1>2, <2>1
    <3> QED BY <1>2, <1>4, <2>1, <2>3, <2>5, <3>1
  <2> QED BY <2>1, <2>2, <2>5, <2>6 DEF After, Later
<1>6. ASSUME NEW k \in After(a) PROVE k \in After(b)
  <2>1. D(k) <= D(a) /\ k \in a + 1 .. Len(Text) /\ Kind(script, k) \notin {"for", "end"} /\ \A l \in a + 1 .. k : D(l) >= D(k)
    BY DEF After, Later
  <2>2. k \in 1 .. Len(Text) + 1
    BY <1>1, <1>2, <2>1
  <2>3. D(k) \in Nat
    BY <2>2, ReadyHas
  <2>4. k \notin a + 1 .. b
    BY <1>2, <1>4, <2>1, <2>3
  <2>5. k \in b + 1 .. Len(Text) /\ (\A l \in b + 1 .. k : l \in a + 1 .. k) /\ D(k) <= D(b)
    BY <1>1, <1>2, <2>1, <2>3, <2>4
  <2> QED BY <2>1, <2>5 DEF After, Later
<1> QED BY <1>5, <1>6

(* An instruction has a next one in its list, or is the last of it.            *)
LEMMA ListGoesOn ==
  ASSUME Ready, NEW b \in 0 .. Len(script), NEW n \in 0 .. Len(lists[b]) - 1
  PROVE  LET i == lists[b][n + 1]
         IN  /\ i \in Within(b) /\ Index(i) = n
             /\ n + 1 < Len(lists[b]) =>
                  /\ lists[b][n + 2] \in Within(b) /\ i < lists[b][n + 2]
                  /\ \A h \in Within(b) : i < h => lists[b][n + 2] <= h
             /\ ~(n + 1 < Len(lists[b])) => n + 1 = Len(lists[b]) /\ \A h \in Within(b) : ~(i < h)
<1> DEFINE i == lists[b][n + 1]
<1>1. lists[b] \in Seq(Nat) /\ Growing(lists[b])
  BY ReadyHas
<1>2. Len(lists[b]) \in Nat /\ n \in Nat /\ n < Len(lists[b])
  BY <1>1
<1>3. i \in Within(b) /\ Index(i) = n
  BY IndexIs
<1> HIDE DEF i
<1>4. ASSUME n + 1 < Len(lists[b])
      PROVE lists[b][n + 2] \in Within(b) /\ i < lists[b][n + 2] /\ \A h \in Within(b) : i < h => lists[b][n + 2] <= h
  <2>1. n + 1 \in 1 .. Len(lists[b]) /\ n + 2 \in 1 .. Len(lists[b]) /\ n + 1 < n + 2
    BY <1>2, <1>4
  <2>2. lists[b][n + 1] < lists[b][n + 2]
    BY <1>1, <2>1, GrowingIs
  <2>3. lists[b][n + 2] \in Within(b)
    BY <1>1, <2>1 DEF Within, ToSet
  <2>4. ASSUME NEW h \in Within(b), i < h PROVE lists[b][n + 2] <= h
    BY <1>3, <2>4, NextIs
  <2> QED BY <2>2, <2>3, <2>4 DEF i
<1>5. ASSUME ~(n + 1 < Len(lists[b])), NEW h \in Within(b), i < h PROVE FALSE
  BY <1>3, <1>5, NextIs
<1>6. ~(n + 1 < Len(lists[b])) => n + 1 = Len(lists[b])
  BY <1>2
<1>7. (~(n + 1 < Len(lists[b])) => \A h \in Within(b) : ~(i < h))
  BY <1>5
<1> QED BY <1>3, <1>4, <1>6, <1>7 DEF i

(* A name is that of one method. *)
LEMMA MethodOf ==
  ASSUME Ready, Compiles, NEW b \in Lists, NEW n \in Nat, n < Count(b)
  PROVE  <<n, b>> \in Methods /\ Method(NameInstruction(n, b)) = <<n, b>>
<1>1. PICK x \in Methods : x = <<n, b>> /\ x[1] = n /\ x[2] = b
  BY MethodIs
<1>2. \A y \in Methods : NameInstruction(y[1], y[2]) = NameInstruction(x[1], x[2]) => y = x
  BY DEF Compiles
<1>3. Method(NameInstruction(n, b)) = x
  <2> DEFINE z == CHOOSE y \in Methods : NameInstruction(y[1], y[2]) = NameInstruction(n, b)
  <2>1. \E y \in Methods : NameInstruction(y[1], y[2]) = NameInstruction(n, b)
    BY <1>1
  <2>2. z \in Methods /\ NameInstruction(z[1], z[2]) = NameInstruction(n, b)
    BY <2>1
  <2>3. Method(NameInstruction(n, b)) = z
    BY DEF Method
  <2> HIDE DEF z
  <2> QED BY <1>1, <1>2, <2>2, <2>3
<1> QED BY <1>1, <1>3

(* A block returns behind its menu, to a method that is there.                 *)
LEMMA ReturnsTo ==
  ASSUME Ready, Compiles, NEW b \in Lists, b # 0, NEW m, BlockOf(b, m), NEW a \in 0 .. Len(script), m \in Within(a)
  PROVE  /\ a \in Lists /\ ReturnTo(b) = NameInstruction(Index(m) + 1, a)
         /\ Index(m) \in 0 .. Len(lists[a]) - 1 /\ Index(m) + 1 \in Nat /\ Index(m) + 1 < Count(a)
<1>1. a \in Lists /\ Owner(m) = a /\ Index(m) \in 0 .. Len(lists[a]) - 1 /\ MenuOf(b) = m
  BY ListsRead, OwnerIs DEF BlockOf
<1>2. ReturnTo(b) = NameInstruction(Index(m) + 1, a)
  BY <1>1 DEF ReturnTo
<1>3. Len(lists[a]) \in Nat /\ Count(a) = IF a = 0 THEN Len(lists[a]) ELSE Len(lists[a]) + 1
  BY <1>1, CountIs
<1>4. PICK k \in Nat : k = Index(m) /\ k < Len(lists[a])
  BY <1>1, <1>3
<1>5. CASE a # 0
  <2>1. k + 1 < Count(a)
    BY <1>3, <1>4, <1>5
  <2> QED BY <1>1, <1>2, <1>4, <2>1
<1>6. CASE a = 0
  <2>1. Len(lists[b]) \in Nat /\ Len(lists[b]) < Count(b)
    BY CountIs
  <2>2. <<Len(lists[b]), b>> \in Methods
    BY <2>1, MethodIs
  <2>3. PICK x \in Methods : x[1] = Len(lists[b]) /\ x[2] = b
    BY <2>2
  <2>4. Calls(x[1], x[2]) \subseteq MethodNames
    BY DEF Compiles, MethodNames
  <2>5. ReturnTo(b) \in MethodNames
    BY <2>3, <2>4 DEF Calls, IsReturn
  <2>6. PICK y \in Methods : NameInstruction(k + 1, 0) = NameInstruction(y[1], y[2])
    BY <1>2, <1>4, <1>6, <2>5 DEF MethodNames
  <2>7. NameInstruction(k + 1, 0) = <<k + 1>> /\ NameInstruction(y[1], y[2]) = IF y[2] = 0 THEN <<y[1]>> ELSE <<y[1], Index(MenuOf(y[2])), BlockNo(y[2]) - 1>>
    BY NameIs
  <2>8. \A p, q, r, t : <<p>> # <<q, r, t>> /\ (<<p>> = <<q>> => p = q)
    <3>1. \A p, q, r, t : Len(<<p>>) = 1 /\ Len(<<q, r, t>>) = 3
      OBVIOUS
    <3>2. ASSUME NEW p, NEW q, NEW r, NEW t, <<p>> = <<q, r, t>> PROVE FALSE
      <4>1. Len(<<p>>) = Len(<<q, r, t>>)
        BY <3>2
      <4> QED BY <3>1, <4>1
    <3>3. \A p, q : <<p>> = <<q>> => p = q
      OBVIOUS
    <3> QED BY <3>2, <3>3
  <2>9. y[2] = 0 /\ y[1] = k + 1
    BY <2>6, <2>7, <2>8
  <2>10. y[1] < Count(0)
    BY <2>9, MethodsAre
  <2> QED BY <1>1, <1>2, <1>4, <1>6, <2>9, <2>10
<1> QED BY <1>5, <1>6

(* A return leads to what follows the block in the text.                       *)
Returns(g, k, b) == First(After(b)) \in 1 .. Len(Text) /\ g[k][<<Len(lists[b]), b>>] = First(After(b))

(* One return more. *)
LEMMA ReturnLeads ==
  ASSUME Ready, Compiles, NEW g, \A k \in 0 .. Len(script) : g[k] = Row(g[k - 1], k),
         NEW k \in 1 .. Len(script), NEW b \in Lists, b # 0, D(b) < k,
         \A a \in Lists : a # 0 /\ D(a) < k - 1 => Returns(g, k - 1, a)
  PROVE  Returns(g, k, b)
<1>1. PICK m \in Lines : BlockOf(b, m)
  BY ListsRead
<1>2. PICK a \in 0 .. Len(script) : m \in Within(a)
  BY <1>1 DEF BlockOf, InList
<1>3. /\ a \in Lists /\ ReturnTo(b) = NameInstruction(Index(m) + 1, a)
      /\ Index(m) \in 0 .. Len(lists[a]) - 1 /\ Index(m) + 1 \in Nat /\ Index(m) + 1 < Count(a)
  BY <1>1, <1>2, ReturnsTo
<1>4. PICK n \in 0 .. Len(lists[a]) - 1 : n = Index(m) /\ lists[a][n + 1] = m
  BY <1>2, <1>3, OwnerIs
<1>5. Len(lists[a]) \in Nat /\ Len(lists[b]) \in Nat /\ Len(script) \in Nat /\ k \in 0 .. Len(script) /\ k - 1 \in 0 .. Len(script) /\ k # 0
  <2>1. Len(lists[a]) \in Nat /\ Len(lists[b]) \in Nat
    BY <1>3, CountIs
  <2>2. Len(script) \in Nat
    BY ReadyHas
  <2> QED BY <2>1, <2>2
<1>6. Method(ReturnTo(b)) = <<n + 1, a>> /\ <<n + 1, a>> \in Methods
  BY <1>3, <1>4, MethodOf
<1>7. g[k][<<Len(lists[b]), b>>] = g[k - 1][<<n + 1, a>>]
  <2>1. Len(lists[b]) < Count(b)
    BY CountIs
  <2>2. PICK x \in Methods : x = <<Len(lists[b]), b>> /\ x[1] = Len(lists[b]) /\ x[2] = b
    BY <1>5, <2>1, MethodIs
  <2>3. g[k] = Row(g[k - 1], k)
    BY <1>5
  <2>4. g[k][x] = g[k - 1][Method(ReturnTo(b))]
    BY <1>5, <2>2, <2>3 DEF Row, IsReturn
  <2> QED BY <1>6, <2>2, <2>4
<1>8. CASE n + 1 < Len(lists[a])
  <2>1. lists[a][n + 2] \in Within(a) /\ m < lists[a][n + 2] /\ \A h \in Within(a) : m < h => lists[a][n + 2] <= h
    BY <1>4, <1>8, ListGoesOn
  <2>2. First(After(b)) = lists[a][n + 2] /\ lists[a][n + 2] \in 1 .. Len(Text)
    BY <1>1, <1>2, <2>1, AfterNext, ReadyHas
  <2>3. PICK x \in Methods : x = <<n + 1, a>> /\ x[1] = n + 1 /\ x[2] = a
    BY <1>6
  <2>4. g[k - 1] = Row(g[(k - 1) - 1], k - 1)
    BY <1>5
  <2>5. ~IsReturn(n + 1, a) /\ (n + 1) + 1 = n + 2
    BY <1>5, <1>8 DEF IsReturn
  <2>6. g[k - 1][x] = lists[a][n + 2]
    BY <2>3, <2>4, <2>5 DEF Row
  <2> QED BY <1>7, <2>2, <2>3, <2>6 DEF Returns
<1>9. CASE ~(n + 1 < Len(lists[a]))
  <2>1. n + 1 = Len(lists[a]) /\ \A h \in Within(a) : ~(m < h)
    BY <1>4, <1>9, ListGoesOn
  <2>2. a # 0
    <3>1. a = 0 => Count(a) = Len(lists[a])
      BY <1>3, CountIs
    <3> QED BY <1>3, <1>4, <1>9, <3>1
  <2>3. After(b) = After(a)
    BY <1>1, <1>2, <2>1, <2>2, AfterLast
  <2>4. D(a) < k - 1
    <3>1. D(m) = D(b) /\ D(m) = D(a) + 1 /\ D(a) \in Nat
      BY <1>1, <1>2, <2>2, InsideIs DEF BlockOf
    <3> QED BY <1>5, <3>1
  <2>5. Returns(g, k - 1, a)
    BY <1>3, <2>2, <2>4
  <2> QED BY <1>7, <2>1, <2>3, <2>5 DEF Returns
<1> QED BY <1>8, <1>9

(* All of them. *)
LEMMA ReturnsLead ==
  ASSUME Ready, Compiles, NEW g, \A k \in 0 .. Len(script) : g[k] = Row(g[k - 1], k)
  PROVE  \A k \in 0 .. Len(script) : \A b \in Lists : b # 0 /\ D(b) < k => Returns(g, k, b)
<1> DEFINE Bad == {k \in Nat : k \in 0 .. Len(script) /\ \E b \in Lists : b # 0 /\ D(b) < k /\ ~Returns(g, k, b)}
<1>1. Len(script) \in Nat /\ \A b \in Lists : b # 0 => D(b) \in Nat
  <2>1. ASSUME NEW b \in Lists, b # 0 PROVE D(b) \in Nat
    <3>1. PICK m \in Lines : BlockOf(b, m)
      BY <2>1, ListsRead
    <3>2. b \in 1 .. Len(Text) + 1
      BY <3>1, ReadyHas DEF BlockOf
    <3> QED BY <3>2, ReadyHas
  <2> QED BY <2>1, ReadyHas
<1>2. Bad = {}
  <2> SUFFICES ASSUME Bad # {} PROVE FALSE
    OBVIOUS
  <2>1. Bad \in SUBSET Nat
    OBVIOUS
  <2>2. \E k \in Bad : \A n \in Bad : k <= n
    <3> HIDE DEF Bad
    <3> QED BY <2>1, NatMin
  <2>3. PICK k \in Bad : \A n \in Bad : k <= n
    BY <2>2
  <2>4. PICK b \in Lists : b # 0 /\ D(b) < k /\ ~Returns(g, k, b)
    OBVIOUS
  <2>5. k \in Nat /\ k \in 0 .. Len(script) /\ D(b) \in Nat
    BY <1>1, <2>4
  <2>6. k \in 1 .. Len(script) /\ k - 1 \in Nat /\ k - 1 \in 0 .. Len(script) /\ ~(k <= k - 1)
    BY <1>1, <2>4, <2>5
  <2>7. k - 1 \notin Bad
    BY <2>3, <2>6
  <2>8. \A a \in Lists : a # 0 /\ D(a) < k - 1 => Returns(g, k - 1, a)
    BY <2>6, <2>7
  <2>9. Returns(g, k, b)
    BY <2>4, <2>6, <2>8, ReturnLeads
  <2> QED BY <2>4, <2>9
<1>3. \A k \in 0 .. Len(script) : k \in Nat
  BY <1>1
<1> QED BY <1>2, <1>3

(* Where a method leads. *)
LEMMA MethodLeads ==
  ASSUME Ready, Compiles, NEW b \in Lists, NEW n \in Nat, n < Count(b)
  PROVE  /\ ~IsReturn(n, b) => Leads[Method(NameInstruction(n, b))] = lists[b][n + 1]
         /\ IsReturn(n, b) => b # 0 /\ First(After(b)) \in 1 .. Len(Text) /\ Leads[Method(NameInstruction(n, b))] = First(After(b))
<1>1. Len(script) \in Nat /\ Len(Text) \in Nat /\ Len(Text) <= Len(script)
  BY ReadyHas
<1>2. PICK g : Leads = g[Len(script)] /\ \A k \in 0 .. Len(script) : g[k] = Row(g[k - 1], k)
  BY <1>1, LeadsIs
<1>3. Method(NameInstruction(n, b)) = <<n, b>> /\ <<n, b>> \in Methods
  BY MethodOf
<1>4. CASE ~IsReturn(n, b)
  <2>1. PICK x \in Methods : x = <<n, b>> /\ x[1] = n /\ x[2] = b
    BY <1>3
  <2>2. Len(script) \in 0 .. Len(script)
    BY <1>1
  <2>3. g[Len(script)][x] = lists[b][n + 1]
    BY <1>2, <1>4, <2>1, <2>2 DEF Row
  <2> QED BY <1>2, <1>3, <1>4, <2>1, <2>3
<1>5. CASE IsReturn(n, b)
  <2>1. b # 0
    BY <1>5, CountIs DEF IsReturn
  <2>2. PICK m \in Lines : BlockOf(b, m)
    BY <2>1, ListsRead
  <2>3. b \in 1 .. Len(Text) + 1 /\ b <= Len(script) /\ b \in Nat
    BY <1>1, <2>2 DEF BlockOf
  <2>4. D(b) < Len(script)
    <3>1. D(b) \in Nat /\ D(b) < b
      BY <2>3, NotDeep
    <3> QED BY <1>1, <2>3, <3>1
  <2>5. Len(script) \in 0 .. Len(script)
    BY <1>1
  <2>6. Returns(g, Len(script), b)
    BY <1>2, <2>1, <2>4, <2>5, ReturnsLead
  <2> QED BY <1>2, <1>3, <1>5, <2>1, <2>6 DEF Returns, IsReturn
<1> QED BY <1>4, <1>5

(* The last line of an instruction that is no menu.                            *)
LastLine(i) == Max({i} \cup IF Kind(Text, i) = "say" THEN Run(Text, i, {"say"}) ELSE {})

(* It is in the same block, and nothing of it is before it. *)
LEMMA LastLineIs ==
  ASSUME Ready, NEW b \in 0 .. Len(script), NEW i \in Within(b), Kind(script, i) \in {"say", "set", "label"}, NEW e, e = LastLine(i)
  PROVE  /\ e \in 1 .. Len(Text) /\ i <= e /\ AtBlock(b, e) /\ D(e + 1) = D(i) /\ \A l \in i + 1 .. e : D(l) >= D(i)
         /\ Kind(script, e) \notin Menus /\ (e < Len(Text) /\ Kind(script, e) = "say" => Kind(script, e + 1) # "say")
         /\ \A h \in Within(b) : i < h => e < h
<1>1. /\ D(i) \in Nat /\ i \in 1 .. Len(Text) /\ Len(Text) \in Nat /\ (b = 0 => D(i) = 0) /\ Tidy
      /\ b # 0 => b < i /\ b \in 1 .. Len(Text) /\ D(b) \in Nat /\ D(i) = D(b) + 1 /\ \A k \in b + 1 .. i : D(k) >= D(i)
  BY InsideIs, ReadyHas DEF Ready
<1>2. \A k \in 1 .. Len(Text) : Kind(Text, k) = Kind(script, k)
  BY TextIs DEF Ready
<1>3. SoundAt(b, i)
  BY DEF Ready, Sound
<1> DEFINE S == {i} \cup IF Kind(Text, i) = "say" THEN Run(Text, i, {"say"}) ELSE {}
<1>4. S \subseteq 0 .. Len(Text) /\ i \in S
  BY <1>1 DEF Run
<1>5. e \in S /\ \A x \in S : x <= e
  <2>1. e = Max(S)
    BY DEF LastLine
  <2> HIDE DEF S
  <2> QED BY <1>1, <1>4, <2>1, GreatestIs
<1>6. e \in 1 .. Len(Text) /\ i <= e /\ e \in Nat
  <2>1. e \in 0 .. Len(Text) /\ i <= e
    BY <1>4, <1>5
  <2> QED BY <1>1, <2>1
<1>7. Kind(script, e) = Kind(script, i) /\ \A k \in i .. e : D(k) = D(i) /\ (k > i => Kind(script, k) = "say" /\ Kind(script, k - 1) = "say")
  <2>1. CASE Kind(script, i) = "say"
    <3>1. Kind(Text, i) = "say"
      BY <1>1, <1>2, <2>1
    <3>2. \A k \in i .. e : Kind(script, k) = "say"
      <4>1. CASE e = i
        <5>1. \A k \in i .. e : k = i
          BY <1>1, <4>1
        <5> QED BY <2>1, <5>1
      <4>2. CASE e # i
        <5>1. \A k \in i .. e : Kind(Text, k) = "say"
          BY <1>5, <4>2 DEF Run
        <5>2. \A k \in i .. e : k \in 1 .. Len(Text)
          BY <1>1, <1>6
        <5> QED BY <1>2, <5>1, <5>2
      <4> QED BY <4>1, <4>2
    <3>3. ASSUME NEW k \in i .. e PROVE D(k) = D(i)
      <4>1. CASE k = i
        BY <4>1
      <4>2. CASE k # i
        <5>1. k \in 1 .. Len(Text) /\ i < k /\ \A j \in i .. k : j \in i .. e
          BY <1>1, <1>6, <4>2
        <5>2. \A j \in i .. k : Kind(script, j) = "say"
          BY <3>2, <5>1
        <5>3. InList(i)
          BY DEF InList
        <5> QED BY <5>1, <5>2, <5>3, RunHead
      <4> QED BY <4>1, <4>2
    <3>4. \A k \in i .. e : k > i => k - 1 \in i .. e
      BY <1>1, <1>6
    <3>5. e \in i .. e
      BY <1>1, <1>6
    <3> QED BY <2>1, <3>2, <3>3, <3>4, <3>5
  <2>2. CASE Kind(script, i) # "say"
    <3>1. S = {i}
      BY <1>1, <1>2, <2>2
    <3>2. e = i
      BY <1>5, <3>1
    <3>3. \A k \in i .. e : k = i /\ ~(k > i)
      BY <1>1, <3>2
    <3> QED BY <3>2, <3>3
  <2> QED BY <2>1, <2>2
<1>8. e < Len(Text) /\ Kind(script, e) = "say" => Kind(script, e + 1) # "say"
  <2> SUFFICES ASSUME e < Len(Text), Kind(script, e) = "say", Kind(script, e + 1) = "say" PROVE FALSE
    OBVIOUS
  <2>1. Kind(Text, i) = "say" /\ Kind(script, i) = "say"
    BY <1>1, <1>2, <1>7
  <2>2. ASSUME NEW k \in i .. e + 1 PROVE Kind(Text, k) = "say"
    <3>1. k = i \/ k = e + 1 \/ (k \in i .. e /\ k > i)
      BY <1>1, <1>6
    <3>2. k \in 1 .. Len(Text)
      BY <1>1, <1>6
    <3> QED BY <1>2, <1>7, <2>1, <3>1, <3>2
  <2>3. e + 1 \in i .. Len(Text) /\ ~(e + 1 <= e)
    BY <1>1, <1>6
  <2>4. e + 1 \in S
    BY <2>1, <2>2, <2>3 DEF Run
  <2> QED BY <1>5, <2>3, <2>4
<1>9. D(e + 1) = D(i) /\ D(e) = D(i)
  <2>1. e \in i .. e
    BY <1>1, <1>6
  <2>2. D(e) = D(i)
    BY <1>7, <2>1
  <2>3. D(e + 1) = D(e) + 0 - 0
    BY <1>1, <1>6, <1>7 DEF Tidy
  <2> QED BY <1>1, <2>2, <2>3
<1>10. \A l \in i + 1 .. e : D(l) >= D(i)
  <2>1. \A l \in i + 1 .. e : l \in i .. e
    BY <1>1, <1>6
  <2> QED BY <1>1, <1>7, <2>1
<1>11. AtBlock(b, e)
  <2>1. CASE b = 0
    BY <1>1, <1>9, <2>1 DEF AtBlock
  <2>2. CASE b # 0
    <3>1. Kind(script, b) = "for" /\ b < e
      BY <1>1, <1>3, <1>6, <2>2 DEF SoundAt, AtBlock
    <3>2. ASSUME NEW k \in b + 1 .. e PROVE D(k) > D(b)
      <4>1. k \in b + 1 .. i \/ k \in i .. e
        BY <1>1, <1>6, <2>2
      <4>2. k \in 1 .. Len(Text) + 1
        BY <1>1, <1>6, <2>2
      <4>3. D(k) \in Nat
        BY <4>2, ReadyHas
      <4> QED BY <1>1, <1>7, <2>2, <4>1, <4>3
    <3> QED BY <1>1, <1>9, <2>2, <3>1, <3>2 DEF AtBlock
  <2> QED BY <2>1, <2>2
<1>12. ASSUME NEW h \in Within(b), i < h PROVE e < h
  <2> SUFFICES ASSUME ~(e < h) PROVE FALSE
    OBVIOUS
  <2>1. SoundAt(b, h) /\ h \in 1 .. Len(Text)
    BY ReadyHas DEF Ready, Sound
  <2>2. h \in i .. e /\ h > i /\ h > 1
    BY <1>1, <1>6, <1>12, <2>1
  <2>3. Kind(script, h) = "say" /\ Kind(script, h - 1) = "say"
    BY <1>7, <2>2
  <2> QED BY <2>1, <2>2, <2>3 DEF SoundAt
<1>13. Kind(script, e) \notin Menus
  BY <1>7 DEF Menus
<1> QED BY <1>6, <1>8, <1>9, <1>10, <1>11, <1>12, <1>13

(* Where a method that goes on calls.                                          *)
LEMMA CallsOn ==
  ASSUME NEW b, NEW n, FallsThrough(n, b)
  PROVE  {Leads[Method(name)] : name \in Calls(n, b)}
           = IF ThereIsANextInstruction(n, b) THEN {Leads[Method(NameInstruction(n + 1, b))]} ELSE {}
<1>1. ~IsReturn(n, b) /\ Kind(script, lists[b][n + 1]) \notin Menus /\ Kind(script, lists[b][n + 1]) # "goto"
  BY DEF FallsThrough, Menus
<1>2. Calls(n, b) = IF ThereIsANextInstruction(n, b) THEN {NameInstruction(n + 1, b)} ELSE {}
  BY <1>1 DEF Calls
<1> QED BY <1>2

(* Each instruction that goes on leads to what follows it in the text.         *)
LEMMA LeadsOn ==
  ASSUME Ready, Compiles, NEW b \in Lists, NEW n \in 0 .. Len(lists[b]) - 1, FallsThrough(n, b)
  PROVE  {Leads[Method(name)] : name \in Calls(n, b)} = {GoesOn(Text, LastLine(lists[b][n + 1]))} \ {0}
<1> DEFINE i == lists[b][n + 1]
           e == LastLine(i)
           led == {Leads[Method(name)] : name \in Calls(n, b)}
           there == ThereIsANextInstruction(n, b)
           to == Leads[Method(NameInstruction(n + 1, b))]
<1>1. /\ b \in 0 .. Len(script) /\ Len(lists[b]) \in Nat /\ Count(b) = IF b = 0 THEN Len(lists[b]) ELSE Len(lists[b]) + 1
      /\ n \in Nat /\ n < Len(lists[b]) /\ n + 1 \in Nat /\ (n + 1) + 1 = n + 2
  BY CountIs
<1>2. led = IF there THEN {to} ELSE {}
  BY CallsOn
<1>3. i \in Within(b) /\ Kind(script, i) \in {"say", "set", "label"}
  BY <1>1, IndexIs DEF FallsThrough
<1>4. /\ n + 1 < Len(lists[b]) =>
           /\ lists[b][n + 2] \in Within(b) /\ i < lists[b][n + 2]
           /\ \A h \in Within(b) : i < h => lists[b][n + 2] <= h
      /\ ~(n + 1 < Len(lists[b])) => n + 1 = Len(lists[b]) /\ \A h \in Within(b) : ~(i < h)
  BY <1>1, ListGoesOn
<1> HIDE DEF i
<1>5. /\ e \in 1 .. Len(Text) /\ i <= e /\ AtBlock(b, e) /\ D(e + 1) = D(i) /\ \A l \in i + 1 .. e : D(l) >= D(i)
      /\ Kind(script, e) \notin Menus /\ (e < Len(Text) /\ Kind(script, e) = "say" => Kind(script, e + 1) # "say")
      /\ \A h \in Within(b) : i < h => e < h
  BY <1>1, <1>3, LastLineIs
<1> HIDE DEF e
<1>6. Opener(Text, e) = b /\ Follows(Text, e) = First(Later(e))
  BY <1>1, <1>5, TextOpener, FollowsIs
<1>7. /\ Follows(Text, e) = 0 => GoesOn(Text, e) = 0
      /\ Follows(Text, e) # 0 =>
           GoesOn(Text, e) = IF Kind(Text, Follows(Text, e)) \in Labels /\ Opener(Text, Follows(Text, e)) = b THEN 0 ELSE Follows(Text, e)
  BY <1>6 DEF GoesOn
<1>8. Len(Text) \in Nat /\ \A k \in 1 .. Len(Text) : Kind(Text, k) = Kind(script, k) /\ k # 0
  BY TextIs, ReadyHas DEF Ready
<1>9. led = {GoesOn(Text, e)} \ {0}
  <2>1. CASE n + 1 < Len(lists[b])
    <3> DEFINE y == lists[b][n + 2]
    <3>1. y \in Within(b) /\ i < y /\ \A h \in Within(b) : i < h => y <= h
      BY <1>4, <2>1
    <3>2. n + 1 < Count(b) /\ ~IsReturn(n + 1, b)
      BY <1>1, <2>1 DEF IsReturn
    <3>3. there <=> Kind(script, y) \notin Labels
      BY <3>2 DEF ThereIsANextInstruction
    <3>4. to = y
      BY <1>1, <3>2, MethodLeads
    <3> HIDE DEF y
    <3>5. First(Later(e)) = y
      BY <1>1, <1>3, <1>5, <3>1, FollowsNext
    <3>6. AtBlock(b, y) /\ y \in 1 .. Len(Text)
      BY <1>1, <3>1 DEF Ready, Sound, SoundAt
    <3>7. Opener(Text, y) = b /\ Kind(Text, y) = Kind(script, y) /\ y # 0
      BY <1>1, <1>8, <3>6, TextOpener
    <3>8. GoesOn(Text, e) = IF there THEN y ELSE 0
      BY <1>6, <1>7, <3>3, <3>5, <3>7
    <3> QED BY <1>2, <3>4, <3>7, <3>8
  <2>2. CASE ~(n + 1 < Len(lists[b])) /\ b = 0
    <3>1. ~there
      BY <1>1, <2>2 DEF ThereIsANextInstruction
    <3>2. Later(e) = {}
      BY <1>1, <1>3, <1>4, <1>5, <2>2, FollowsLast
    <3>3. GoesOn(Text, e) = 0
      BY <1>6, <1>7, <3>2 DEF First
    <3> QED BY <1>2, <3>1, <3>3
  <2>3. CASE ~(n + 1 < Len(lists[b])) /\ b # 0
    <3>1. n + 1 < Count(b) /\ IsReturn(n + 1, b)
      BY <1>1, <1>4, <2>3 DEF IsReturn
    <3>2. there
      BY <3>1 DEF ThereIsANextInstruction
    <3>3. First(After(b)) \in 1 .. Len(Text) /\ to = First(After(b))
      BY <1>1, <3>1, MethodLeads
    <3>4. Later(e) = After(b)
      BY <1>1, <1>3, <1>4, <1>5, <2>3, FollowsLast
    <3> DEFINE k == First(After(b))
    <3>5. b \in 1 .. Len(Text)
      BY <1>1, <1>3, <2>3, InsideIs
    <3>6. D(k) <= D(b)
      <4>1. After(b) \subseteq Nat
        BY <1>8, <3>5 DEF After, Later
      <4>2. After(b) # {}
        BY <3>3 DEF First
      <4>3. k \in After(b)
        BY <4>1, <4>2, MinIs DEF First
      <4> QED BY <4>3 DEF After
    <3> HIDE DEF k
    <3>7. k \in 1 .. Len(Text)
      BY <3>3 DEF k
    <3>8. Opener(Text, k) # b /\ k # 0
      BY <1>8, <3>5, <3>6, <3>7, NotOpener
    <3>9. Follows(Text, e) = k
      BY <1>6, <3>4 DEF k
    <3>10. GoesOn(Text, e) = k
      BY <1>7, <3>8, <3>9
    <3> QED BY <1>2, <3>2, <3>3, <3>8, <3>10 DEF k
  <2> QED BY <2>1, <2>2, <2>3
<1> QED BY <1>9 DEF e, i

(* The blocks of a menu are those that answer it in the text.                  *)
LEMMA AnswersBlocks ==
  ASSUME Ready, NEW i \in 1 .. Len(Text)
  PROVE  ToSet(blocks[i]) = Answers(Text, i)
<1>1. i \in Lines /\ DOMAIN Text = 1 .. Len(Text) /\ \A k \in 1 .. Len(Text) : Kind(Text, k) = Kind(script, k)
  BY ReadyHas, TextIs DEF Ready
<1>2. ASSUME NEW f \in ToSet(blocks[i]) PROVE f \in Answers(Text, i)
  BY <1>1, BlockIs DEF BlockOf
<1>3. ASSUME NEW f \in Answers(Text, i) PROVE f \in ToSet(blocks[i])
  <2>1. f \in 1 .. Len(Text) /\ Kind(script, f) = "for" /\ MenuAt(Text, f) = i
    BY <1>1 DEF Answers, LinesOf
  <2>2. PICK m \in Lines : BlockOf(f, m)
    BY <2>1, EachBlock
  <2>3. m = i
    BY <2>1, <2>2 DEF BlockOf, Answers
  <2> QED BY <2>2, <2>3 DEF BlockOf
<1> QED BY <1>2, <1>3

(* A block begins behind its "for".                                            *)
LEMMA BlockBegins ==
  ASSUME Ready, NEW f, NEW m, BlockOf(f, m)
  PROVE  Len(lists[f]) >= 1 /\ lists[f][1] = f + 1
<1>1. f \in 1 .. Len(Text) /\ Kind(script, f) = "for" /\ Len(Text) \in Nat /\ f \in Nat
  BY ReadyHas DEF BlockOf
<1>2. f < Len(Text) /\ Kind(script, f + 1) # "end" /\ D(f + 1) = D(f) + 1 - 0
  BY <1>1 DEF Ready, Tidy
<1>3. f + 1 \in 1 .. Len(Text) /\ (f + 1) - 1 = f /\ D(f) \in Nat
  BY <1>1, <1>2, ReadyHas
<1>4. Kind(script, f + 1) # "for"
  <2>1. Kind(script, f + 1) = "for" => Kind(script, (f + 1) - 1) \in {"choice", "end"}
    BY <1>3 DEF Ready, Tidy
  <2> QED BY <1>1, <1>3, <2>1
<1>5. ASSUME NEW h \in Lines, f + 1 \in Taken(h) PROVE FALSE
  <2>1. RunTo(h, f + 1)
    BY <1>5 DEF Ready, Parts
  <2>2. f \in h .. f + 1
    BY <1>1, <2>1 DEF RunTo, Lines
  <2> QED BY <1>1, <2>1, <2>2 DEF RunTo, Menus
<1>6. InList(f + 1)
  <2>1. \A h \in Lines : f + 1 \notin ToSet(blocks[h])
    BY <1>4, BlockIs DEF BlockOf
  <2> QED BY <1>2, <1>3, <1>5, <2>1, PlacesAre
<1>7. PICK a \in 0 .. Len(script) : f + 1 \in Within(a)
  BY <1>6 DEF InList
<1>8. a = f
  <2>1. /\ a = 0 => D(f + 1) = 0
        /\ a # 0 => a < f + 1 /\ a \in 1 .. Len(Text) /\ \A k \in a + 1 .. f + 1 : D(k) >= D(f + 1)
    BY <1>7, InsideIs
  <2>2. a # 0
    BY <1>2, <1>3, <2>1
  <2>3. ASSUME a < f PROVE FALSE
    <3>1. f \in a + 1 .. f + 1
      BY <1>1, <2>1, <2>2, <2>3
    <3> QED BY <1>2, <1>3, <2>1, <2>2, <3>1
  <2> QED BY <1>1, <2>1, <2>2, <2>3
<1>9. f + 1 \in Within(f) /\ f \in 0 .. Len(script) /\ lists[f] \in Seq(Nat) /\ Growing(lists[f])
  BY <1>7, <1>8, ReadyHas
<1>10. PICK j \in 1 .. Len(lists[f]) : lists[f][j] = f + 1
  BY <1>9 DEF Within, ToSet
<1>11. Len(lists[f]) \in Nat /\ Len(lists[f]) >= 1 /\ 1 \in 1 .. Len(lists[f])
  BY <1>9, <1>10
<1>12. lists[f][1] \in Within(f)
  BY <1>9, <1>11 DEF Within, ToSet
<1>13. f < lists[f][1] /\ lists[f][1] \in Nat
  BY <1>1, <1>9, <1>12, InsideIs, ReadyHas
<1>14. ~(1 < j)
  <2>1. 1 < j => lists[f][1] < lists[f][j]
    BY <1>9, <1>11, GrowingIs
  <2> QED BY <1>1, <1>10, <1>13, <2>1
<1>15. j = 1
  BY <1>11, <1>14
<1> QED BY <1>10, <1>11, <1>15

(* The lines of a menu are the run that it begins. *)
LEMMA MenuLines ==
  ASSUME Ready, NEW i, InList(i), Kind(script, i) \in Menus
  PROVE  /\ Run(Text, i, Menus) = {i} \cup Taken(i)
         /\ \A n \in Taken(i) : n \in 1 .. Len(Text) /\ Kind(script, n) = "choice"
<1>1. i \in 1 .. Len(Text) /\ i \in Nat /\ Len(Text) \in Nat /\ i \in Lines
  BY ReadyHas, OutsideIs
<1>2. \A k \in 1 .. Len(Text) : Kind(Text, k) = Kind(script, k)
  BY TextIs DEF Ready
<1>3. ASSUME NEW c \in Run(Text, i, Menus), c # i PROVE c \in Taken(i)
  <2>1. c \in i .. Len(Text) /\ \A k \in i .. c : Kind(Text, k) \in Menus
    BY DEF Run
  <2>2. c \in 1 .. Len(Text) /\ i < c /\ \A k \in i .. c : k \in 1 .. Len(Text)
    BY <1>1, <1>3, <2>1
  <2>3. \A k \in i .. c : Kind(script, k) \in Menus
    BY <1>2, <2>1, <2>2
  <2> QED BY <2>2, <2>3, RunHead
<1>4. i \in Run(Text, i, Menus)
  <2>1. \A k \in i .. i : k = i
    BY <1>1
  <2>2. i \in i .. Len(Text)
    BY <1>1
  <2> QED BY <1>1, <1>2, <2>1, <2>2 DEF Run
<1>5. ASSUME NEW n \in Taken(i)
      PROVE  n \in 1 .. Len(Text) /\ i < n /\ \A k \in i .. n : k \in 1 .. Len(Text) /\ Kind(script, k) \in Menus
  <2>1. RunTo(i, n)
    BY <1>1 DEF Ready, Parts
  <2>2. n \in 1 .. Len(Text) /\ i < n /\ i \in i .. n /\ \A k \in i .. n : k \in 1 .. Len(Text)
    BY <1>1, <2>1 DEF RunTo
  <2>3. ~(\A k \in i .. n : Kind(script, k) = "say")
    BY <2>2 DEF Menus
  <2> QED BY <2>1, <2>2, <2>3 DEF RunTo
<1>6. ASSUME NEW n \in Taken(i) PROVE n \in Run(Text, i, Menus)
  <2>1. n \in i .. Len(Text)
    BY <1>1, <1>5
  <2> QED BY <1>2, <1>5, <2>1 DEF Run
<1>7. ASSUME NEW n \in Taken(i) PROVE Kind(script, n) = "choice"
  <2>1. n - 1 \in i .. n /\ n \in i .. n /\ (n - 1) + 1 = n
    BY <1>1, <1>5
  <2>2. n - 1 \in 1 .. Len(Text) /\ Kind(script, n - 1) \in Menus /\ Kind(script, n) \in Menus
    BY <1>5, <2>1
  <2>3. Kind(script, (n - 1) + 1) \in {"choice", "for"}
    BY <2>2 DEF Ready, Tidy
  <2> QED BY <2>1, <2>2, <2>3 DEF Menus
<1> QED BY <1>3, <1>4, <1>5, <1>6, <1>7

(* The choices that a menu shows are the choice lines it has in the text.      *)
LEMMA ChoicesAre ==
  ASSUME Ready, NEW i, InList(i), Kind(script, i) \in Menus
  PROVE  {ChoiceOperands(i)[k].line : k \in DOMAIN ChoiceOperands(i)} = Run(Text, i, Menus) \cap LinesOf(Text, "choice")
<1> DEFINE op == operand[i]
           T == [what : {"name", "text"}, line : 1 .. Len(script)]
<1>1. i \in 1 .. Len(Text) /\ i \in Lines
  BY ReadyHas, OutsideIs
<1>2. DOMAIN Text = 1 .. Len(Text) /\ \A k \in 1 .. Len(Text) : Kind(Text, k) = Kind(script, k)
  BY TextIs DEF Ready
<1>3. op \in Seq(T)
  BY <1>1 DEF Ready, TypeOK, Lines
<1>4. Len(op) >= 1 /\ op[1].line = i /\ (Kind(script, i) = "choicetitle" => \A k \in 2 .. Len(op) : op[k].line # i)
  BY <1>1 DEF Ready, Lined, LinedAt
<1>5. Taken(i) = {op[k].line : k \in 1 .. Len(op)} \ {i}
  BY <1>3 DEF Taken
<1> HIDE DEF op, T
<1>6. Len(op) \in Nat /\ DOMAIN op = 1 .. Len(op)
  BY <1>3
<1>7. /\ Run(Text, i, Menus) = {i} \cup Taken(i)
      /\ \A n \in Taken(i) : n \in LinesOf(Text, "choice")
  <2>1. \A n \in Taken(i) : n \in 1 .. Len(Text) /\ Kind(script, n) = "choice"
    BY MenuLines
  <2>2. \A n \in Taken(i) : n \in LinesOf(Text, "choice")
    BY <1>2, <2>1 DEF LinesOf
  <2> QED BY <2>2, MenuLines
<1>8. i \in LinesOf(Text, "choice") <=> Kind(script, i) = "choice"
  BY <1>1, <1>2 DEF LinesOf
<1>9. CASE Kind(script, i) = "choicetitle"
  <2>1. ChoiceOperands(i) = Tail(op)
    BY <1>9 DEF ChoiceOperands, op
  <2>2. DOMAIN Tail(op) = 1 .. Len(op) - 1 /\ \A k \in 1 .. Len(op) - 1 : Tail(op)[k] = op[k + 1]
    <3>1. op # <<>>
      BY <1>4, <1>6
    <3>2. Tail(op) \in Seq(T) /\ Len(Tail(op)) = Len(op) - 1 /\ \A k \in 1 .. Len(Tail(op)) : Tail(op)[k] = op[k + 1]
      BY <1>3, <3>1, HeadTailProperties
    <3> QED BY <3>2
  <2>3. ASSUME NEW k \in 1 .. Len(op) - 1 PROVE Tail(op)[k].line \in Taken(i)
    <3>1. k + 1 \in 2 .. Len(op) /\ k + 1 \in 1 .. Len(op)
      BY <1>6
    <3> QED BY <1>4, <1>5, <1>9, <2>2, <3>1
  <2>4. ASSUME NEW n \in Taken(i) PROVE \E k \in 1 .. Len(op) - 1 : Tail(op)[k].line = n
    <3>1. PICK j \in 1 .. Len(op) : op[j].line = n /\ n # i
      BY <1>5
    <3>2. j - 1 \in 1 .. Len(op) - 1 /\ (j - 1) + 1 = j
      BY <1>4, <1>6, <3>1
    <3> QED BY <2>2, <3>1, <3>2
  <2>5. {ChoiceOperands(i)[k].line : k \in DOMAIN ChoiceOperands(i)} = Taken(i)
    <3>1. \A k \in 1 .. Len(op) - 1 : Tail(op)[k].line \in Taken(i)
      BY <2>3
    <3>2. \A n \in Taken(i) : \E k \in 1 .. Len(op) - 1 : Tail(op)[k].line = n
      BY <2>4
    <3>3. PICK others : others = Tail(op)
      OBVIOUS
    <3>4. {others[k].line : k \in 1 .. Len(op) - 1} = Taken(i)
      BY <3>1, <3>2, <3>3
    <3>5. ChoiceOperands(i) = others /\ DOMAIN others = 1 .. Len(op) - 1
      BY <2>1, <2>2, <3>3
    <3> QED BY <3>4, <3>5
  <2>6. i \notin LinesOf(Text, "choice") /\ i \notin Taken(i)
    BY <1>5, <1>8, <1>9
  <2> QED BY <1>7, <2>5, <2>6
<1>10. CASE Kind(script, i) = "choice"
  <2>1. ChoiceOperands(i) = op
    BY <1>10 DEF ChoiceOperands, op
  <2>2. {op[k].line : k \in 1 .. Len(op)} = {i} \cup Taken(i)
    <3>1. 1 \in 1 .. Len(op)
      BY <1>4, <1>6
    <3> QED BY <1>4, <1>5, <3>1
  <2>3. {ChoiceOperands(i)[k].line : k \in DOMAIN ChoiceOperands(i)} = {i} \cup Taken(i)
    BY <1>6, <2>1, <2>2
  <2> QED BY <1>7, <1>8, <1>10, <2>3
<1> QED BY <1>9, <1>10 DEF Menus

(* What FlowAsWritten says of one instruction. *)
LEMMA FlowIs ==
  ASSUME Ready, Compiles, NEW b \in Lists, NEW n \in 0 .. Len(lists[b]) - 1, NEW i, i = lists[b][n + 1]
  PROVE  /\ FallsThrough(n, b) => {Leads[Method(name)] : name \in Calls(n, b)} = {GoesOn(Text, LastLine(i))} \ {0}
         /\ Kind(Text, i) \in Menus =>
              /\ ToSet(blocks[i]) = Answers(Text, i)
              /\ \A f \in ToSet(blocks[i]) : Leads[Method(NameInstruction(0, f))] = f + 1
              /\ {ChoiceOperands(i)[k].line : k \in DOMAIN ChoiceOperands(i)} = Run(Text, i, Menus) \cap LinesOf(Text, "choice")
<1>1. b \in 0 .. Len(script) /\ InList(i) /\ i \in 1 .. Len(Text) /\ i \in Lines /\ Kind(Text, i) = Kind(script, i)
  <2>1. b \in 0 .. Len(script) /\ i \in Within(b)
    BY CountIs, IndexIs
  <2>2. i \in 1 .. Len(Text) /\ i \in Lines
    BY <2>1, ReadyHas
  <2> QED BY <2>1, <2>2, TextIs DEF Ready, InList
<1>2. ASSUME NEW f \in ToSet(blocks[i]) PROVE Leads[Method(NameInstruction(0, f))] = f + 1
  <2>1. BlockOf(f, i) /\ f \in Lists
    BY <1>1, BlockIs, ListsRead
  <2>2. Len(lists[f]) >= 1 /\ lists[f][1] = f + 1
    BY <2>1, BlockBegins
  <2>3. Len(lists[f]) \in Nat /\ 0 < Count(f)
    BY <2>1, <2>2, CountIs
  <2>4. ~IsReturn(0, f)
    BY <2>2, <2>3 DEF IsReturn
  <2>5. Leads[Method(NameInstruction(0, f))] = lists[f][0 + 1]
    BY <2>1, <2>3, <2>4, MethodLeads
  <2> QED BY <2>2, <2>5
<1>3. FallsThrough(n, b) => {Leads[Method(name)] : name \in Calls(n, b)} = {GoesOn(Text, LastLine(i))} \ {0}
  BY LeadsOn
<1>4. ToSet(blocks[i]) = Answers(Text, i)
  BY <1>1, AnswersBlocks
<1>5. Kind(Text, i) \in Menus =>
        {ChoiceOperands(i)[k].line : k \in DOMAIN ChoiceOperands(i)} = Run(Text, i, Menus) \cap LinesOf(Text, "choice")
  BY <1>1, ChoicesAre
<1> QED BY <1>2, <1>3, <1>4, <1>5

(* The story that the methods tell is the one the author wrote, for every      *)
(* script that compiles, also one with menus in menus: what CompileInstruction *)
(* makes of an instruction calls the method of what follows it in the text,    *)
(* through as many returns as there are blocks that end there, a menu shows    *)
(* the choices it was written with, and each choice goes to its block          *)
(* (Script.cs).                                                                *)
THEOREM StoryAsWritten == Spec => []FlowAsWritten
<1>1. CompilerInv => FlowAsWritten
  <2> SUFFICES ASSUME CompilerInv, Compiled, WellFormed(Text) PROVE FlowAsWritten
    BY DEF FlowAsWritten
  <2>1. Ready /\ Compiles
    BY ReadyIs DEF Compiled
  <2>2. \A b \in Lists : \A n \in 0 .. Len(lists[b]) - 1 :
          LET i == lists[b][n + 1]
          IN  /\ FallsThrough(n, b) => {Leads[Method(name)] : name \in Calls(n, b)} = {GoesOn(Text, LastLine(i))} \ {0}
              /\ Kind(Text, i) \in Menus =>
                   /\ ToSet(blocks[i]) = Answers(Text, i)
                   /\ \A f \in ToSet(blocks[i]) : Leads[Method(NameInstruction(0, f))] = f + 1
                   /\ {ChoiceOperands(i)[k].line : k \in DOMAIN ChoiceOperands(i)} = Run(Text, i, Menus) \cap LinesOf(Text, "choice")
    BY <2>1, FlowIs
  <2> QED BY <2>2 DEF FlowAsWritten, LastLine
<1>2. CompilerInv /\ [Next]_vars => CompilerInv'
  BY NextCompiler, StillCompiler
<1> QED BY <1>1, <1>2, InitCompiler, PTL DEF Spec

=============================================================================
