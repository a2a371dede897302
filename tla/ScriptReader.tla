---------------------------- MODULE ScriptReader ----------------------------
(***************************************************************************)
(* Script.ConsumeInstructions (EmeraldDream/Script.cs): a file is read     *)
(* line by line into lists of instructions.  ForeachInstruction hands each *)
(* instruction to its operandConsumer, which reads on: a say collects the  *)
(* says behind it, a menu its choices and then a block for each of them,   *)
(* and a block is read by ForeachInstruction again.  A consumer knows that *)
(* it is done only when it has read a line too many; that line is put back *)
(* into peekedInstruction.                                                 *)
(*                                                                         *)
(* One step is one GetNextInstruction and what is done with the line up to *)
(* the next one.  The methods that have called each other are a stack.     *)
(* An instruction is known by its first line.                              *)
(***************************************************************************)
EXTENDS ScriptText, SequencesExt

CONSTANTS
  Scripts,   \* the files
  Names      \* of choices and procedures

(* "make" behaves as "set" here; a "bad" line is one whose tokens are not  *)
(* there or not known: a ScriptException or an index out of range.         *)
Kinds == Menus \cup Labels \cup
  {"say", "set", "for", "end", "goto", "exitgame", "noop", "bad"}

ASSUME ScriptAssumption == Scripts \subseteq Seq([kind : Kinds, arg : Names])

VARIABLES
  script,       \* the file, for an object's script the rest of objects.list
  onlyOneProc,  \* it is an object's script
  pos,          \* the next line of the StreamReader
  peeked,       \* peekedInstruction, 0 for null
  stack,        \* the loops that are running, innermost last
  lists,        \* lists[b]: the instructions of block b, 0 is the script
  operand,      \* operand[n]: of the instruction on line n
  blocks,       \* blocks[m]: associatedProcs of the menu on line m
  status        \* "reading", "read" or, after an exception, "thrown"

vars == <<script, onlyOneProc, pos, peeked, stack, lists, operand, blocks, status>>

-----------------------------------------------------------------------------
(* at: where the loop waits for its next instruction.  ForeachInstruction  *)
(* waits for its "first" or a "next" one, ConsumeSayInstructions for a     *)
(* "say", ConsumeMenuInstructions for a "choice", then for a "for".        *)
Frame(at, of, left) == [at |-> at, of |-> of, left |-> left]

Top   == Last(stack)
Under == Front(stack)

(* A text is known by its line.                                            *)
OperandOf(s, n) ==
  IF Kind(s, n) \in {"say", "choicetitle"} THEN <<[what |-> "text", line |-> n]>>
  ELSE IF Kind(s, n) = "choice"
       THEN <<[what |-> "name", line |-> n], [what |-> "text", line |-> n]>>
       ELSE << >>

(* The instruction GetNextInstruction delivers, 0 for null.                *)
Current ==
  IF peeked # 0 THEN peeked ELSE IF pos <= Len(script) THEN pos ELSE 0

Advance == pos' = IF peeked = 0 /\ pos <= Len(script) THEN pos + 1 ELSE pos

Is(c, K) == c # 0 /\ Kind(script, c) \in K

(* Where the code dereferences null, or cannot read the line.              *)
Throws(c) ==
  \/ peeked = 0 /\ Is(c, {"bad"})
  \/ c = 0 /\ Top.at = "next" /\ Top.of # 0
  \/ c = 0 /\ Top.at \in {"choice", "for"} /\ Top.left > 0

(* Not asked of the first instruction.                                     *)
ShouldStop(c) ==
  /\ Top.at = "next"
  /\ IF Top.of = 0 THEN onlyOneProc /\ Is(c, {"noop"}) ELSE Is(c, {"end"})

Stops(c) == c = 0 \/ ShouldStop(c)

-----------------------------------------------------------------------------
(* The loop of ForeachInstruction, for the script or a block: an           *)
(* instruction without a consumer is added at once.                        *)
Added(c) ==
  /\ Top.at \in {"first", "next"} /\ ~Stops(c)
  /\ LET caller == Append(Under, Frame("next", Top.of, 0))
     IN  IF Is(c, {"say"} \cup Menus)
         THEN /\ stack' = Append(caller,
                            Frame(IF Is(c, {"say"}) THEN "say" ELSE "choice", c, 1))
              /\ UNCHANGED lists
         ELSE /\ stack' = caller
              /\ lists' = [lists EXCEPT ![Top.of] = Append(@, c)]
  /\ peeked' = 0
  /\ UNCHANGED <<operand, blocks, status>>

(* ... and its end.  A block becomes a Procedure of its menu.              *)
Left(c) ==
  /\ Top.at \in {"first", "next"} /\ Stops(c)
  /\ IF Top.of = 0
     THEN /\ stack' = << >>
          /\ status' = "read"
          /\ UNCHANGED blocks
     ELSE LET menu == Last(Under)
          IN  /\ stack' = Append(Front(Under), Frame("for", menu.of, menu.left - 1))
              /\ blocks' = [blocks EXCEPT ![menu.of] = Append(@, Top.of)]
              /\ UNCHANGED status
  /\ peeked' = 0
  /\ UNCHANGED <<lists, operand>>

(* The end of a consumer: the line read too far is put back and the        *)
(* instruction goes to the loop that called.                               *)
PutBack(c) ==
  /\ peeked' = c
  /\ lists' = [lists EXCEPT ![Last(Under).of] = Append(@, Top.of)]
  /\ stack' = Under
  /\ UNCHANGED <<operand, blocks, status>>

(* AddRange of the operands.                                               *)
Merge(c, left) ==
  /\ operand' = [operand EXCEPT ![Top.of] = @ \o operand[c]]
  /\ stack' = Append(Under, Frame(Top.at, Top.of, left))
  /\ peeked' = 0
  /\ UNCHANGED <<lists, blocks, status>>

(* Mutant: the loop does not test for null.                                *)
MutConsumeSay(c) ==
  /\ Top.at = "say"
  /\ IF c = 0 THEN UNCHANGED <<peeked, stack, lists, operand, blocks, status>>
     ELSE IF Is(c, {"say"}) THEN Merge(c, Top.left) ELSE PutBack(c)

ConsumeSay(c) ==
  /\ Top.at = "say"
  /\ IF Is(c, {"say"}) THEN Merge(c, Top.left) ELSE PutBack(c)

(* The blocks of a menu, at most as many as there were choice lines.       *)
ConsumeBlock(c) ==
  IF Top.left > 0 /\ Is(c, {"for"})
  THEN /\ stack' = stack \o <<Frame("first", c, 0)>>
       /\ peeked' = 0
       /\ UNCHANGED <<lists, operand, blocks, status>>
  ELSE PutBack(c)

(* Mutant: the choices are not counted.                                    *)
MutConsumeChoice(c) ==
  IF Is(c, Menus) THEN Merge(c, Top.left) ELSE ConsumeBlock(c)

(* The line that ends the choices is the first the loop over the blocks    *)
(* looks at.                                                               *)
ConsumeChoice(c) ==
  IF Is(c, Menus) THEN Merge(c, Top.left + 1) ELSE ConsumeBlock(c)

ConsumeMenu(c) ==
  \/ Top.at = "choice" /\ ConsumeChoice(c)
  \/ Top.at = "for" /\ ConsumeBlock(c)

Throw == status' = "thrown" /\ UNCHANGED <<peeked, stack, lists, operand, blocks>>

Init ==
  /\ script \in Scripts
  /\ onlyOneProc \in BOOLEAN
  /\ pos = 1 /\ peeked = 0
  /\ stack = <<Frame("first", 0, 0)>>
  /\ lists = [b \in 0 .. Len(script) |-> << >>]
  /\ operand = [n \in 1 .. Len(script) |-> OperandOf(script, n)]
  /\ blocks = [n \in 1 .. Len(script) |-> << >>]
  /\ status = "reading"

GetNextInstruction(c) ==
  IF Throws(c) THEN Throw
  ELSE Added(c) \/ Left(c) \/ ConsumeSay(c) \/ ConsumeMenu(c)

Next ==
  /\ status = "reading"
  /\ GetNextInstruction(Current)
  /\ Advance
  /\ UNCHANGED <<script, onlyOneProc>>

Spec == Init /\ [][Next]_vars

(* The constructor of Script runs to its end.                              *)
FairSpec == Spec /\ WF_vars(Next)

-----------------------------------------------------------------------------
Frames == {Frame(at, n, left) : at \in {"first", "next", "say", "choice", "for"},
                                n \in 0 .. Len(script), left \in 0 .. Len(script)}

TypeOK ==
  /\ script \in Scripts /\ onlyOneProc \in BOOLEAN
  /\ pos \in 1 .. Len(script) + 1 /\ peeked \in 0 .. Len(script)
  /\ stack \in Seq(Frames)
  /\ lists \in [0 .. Len(script) -> Seq(1 .. Len(script))]
  /\ blocks \in [1 .. Len(script) -> Seq(1 .. Len(script))]
  /\ operand \in [1 .. Len(script) ->
                  Seq([what : {"name", "text"}, line : 1 .. Len(script)])]
  /\ status \in {"reading", "read", "thrown"}

(* The part of the file that is this script: an object's goes to the first *)
(* blank line outside its menus, which is not its first line.              *)
Text ==
  LET blank == {n \in LinesOf(script, "noop") : n > 1 /\ Depth(script, n) = 0}
  IN  IF onlyOneProc /\ blank # {} THEN SubSeq(script, 1, Min(blank) - 1) ELSE script

Within(b) == ToSet(lists[b])
Owners    == DOMAIN lists

(* The lines that the instruction on line n has taken over.                *)
Taken(n) == {operand[n][k].line : k \in DOMAIN operand[n]} \ {n}

(* Lookahead loses no line, keeps none twice and keeps their order: when   *)
(* the script is read, each line of it is an instruction of one list, part *)
(* of one say or menu, the head of one block, or the line a block or an    *)
(* object's script stopped at, and no line is left behind as peeked, where *)
(* it would be lost for the objects that follow in the same file.          *)
NothingLost ==
  status = "read" =>
    /\ peeked = 0
    /\ \A n \in 1 .. pos - 1 :
         LET places ==
               Cardinality({b \in Owners : n \in Within(b)})
               + Cardinality({m \in UNION {Within(b) : b \in Owners} : n \in Taken(m)})
               + Cardinality({m \in DOMAIN blocks : n \in ToSet(blocks[m])})
         IN  places = 1 \/ (places = 0 /\ Kind(script, n) \in {"end", "noop"})
    /\ \A b \in Owners : \A k \in 1 .. Len(lists[b]) - 1 : lists[b][k] < lists[b][k + 1]

(* Every instruction is in the block the author wrote it in.  The reader   *)
(* finds blocks by counting choices and by lookahead, not by their ends.   *)
BlocksAsWritten ==
  WellFormed(Text) =>
    \A b \in Owners : \A n \in Within(b) : Opener(script, n) = b

(* An object's script is read up to the blank line that ends it and not a  *)
(* line further: the next lines of objects.list are another object's.      *)
ObjectScriptEnds ==
  status = "read" /\ onlyOneProc /\ WellFormed(Text) =>
    pos = IF Text = script THEN Len(script) + 1 ELSE Len(Text) + 2

(* What reading makes of a script.                                         *)
ReadAsWritten == TypeOK /\ NothingLost /\ BlocksAsWritten /\ ObjectScriptEnds

(* Any file is read to its end, or refused.                                *)
ReadingEnds == <>(status # "reading")
=============================================================================
