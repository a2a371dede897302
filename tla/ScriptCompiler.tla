--------------------------- MODULE ScriptCompiler ---------------------------
(***************************************************************************)
(* Script.CompileInstructions (EmeraldDream/Script.cs): from the lists of  *)
(* instructions that ScriptReader reads, one method for each instruction,  *)
(* which calls the method of the next one by its name.  The names are      *)
(* built from the index in the list and, in a block, of the menu; that     *)
(* they are unique and all exist is left to chance and to the C# compiler  *)
(* (CodeLoader.cs), which returns no assembly otherwise.                   *)
(***************************************************************************)
EXTENDS ScriptReader

(* The list that instruction i is in, and its index there, from 0.         *)
Owner(i) == CHOOSE b \in Owners : i \in Within(b)
Index(i) == CHOOSE n \in 0 .. Len(lists[Owner(i)]) - 1 : lists[Owner(i)][n + 1] = i

MenuOf(b) == CHOOSE m \in DOMAIN blocks : b \in ToSet(blocks[m])

(* Mutant: all blocks of a menu get one suffix.                            *)
MutMakeSuffix(b) == IF b = 0 THEN << >> ELSE <<Index(MenuOf(b)), 0>>

(* "_i" + n + "_p" + c: the suffix of the menu itself is not in it.        *)
MakeSuffix(b) ==
  IF b = 0 THEN << >>
  ELSE LET m == MenuOf(b)
       IN  <<Index(m), (CHOOSE c \in DOMAIN blocks[m] : blocks[m][c] = b) - 1>>

NameInstruction(n, b) == <<n>> \o MakeSuffix(b)

(* A block gets a return instruction at its end.                           *)
Count(b) == Len(lists[b]) + IF b = 0 THEN 0 ELSE 1

IsReturn(n, b) == n = Len(lists[b])

ThereIsANextInstruction(n, b) ==
  /\ n + 1 < Count(b)
  /\ IsReturn(n + 1, b) \/ Kind(script, lists[b][n + 2]) \notin Labels

Lists == {0} \cup UNION {ToSet(blocks[m]) : m \in DOMAIN blocks}

Methods == UNION {{<<n, b>> : n \in 0 .. Count(b) - 1} : b \in Lists}

(* procnameToInstruction when the goto on line g is compiled: labels are   *)
(* registered as they are met.  Script lists and blocks are compiled in    *)
(* the order of their lines.                                               *)
Registered(g) ==
  {l \in UNION {Within(b) : b \in Lists} :
     /\ l < g
     /\ Kind(script, l) \in Labels /\ script[l].arg = script[g].arg
     /\ ThereIsANextInstruction(Index(l), Owner(l))}

(* Mutant: a return is to the menu and not to what follows it.             *)
MutReturnTo(b) == NameInstruction(Index(MenuOf(b)), Owner(MenuOf(b)))

ReturnTo(b) == NameInstruction(Index(MenuOf(b)) + 1, Owner(MenuOf(b)))

(* Methods that go on with the next one, at once or when a dialog closes.  *)
FallsThrough(n, b) == ~IsReturn(n, b) /\ Kind(script, lists[b][n + 1]) \in {"say", "set", "label"}

(* The method names that the method of instruction n of block b contains.  *)
Calls(n, b) ==
  IF IsReturn(n, b) THEN {ReturnTo(b)}
  ELSE LET i == lists[b][n + 1]
       IN  IF Kind(script, i) \in Menus
           THEN {NameInstruction(0, f) : f \in ToSet(blocks[i])}
           ELSE IF Kind(script, i) = "goto"
                THEN LET l == Max(Registered(i)) IN {NameInstruction(Index(l) + 1, Owner(l))}
                ELSE IF FallsThrough(n, b) /\ ThereIsANextInstruction(n, b)
                     THEN {NameInstruction(n + 1, b)}
                     ELSE {}

(* "Instruction" + mainproc, which is an index without a suffix.           *)
Main ==
  LET starts == {l \in UNION {Within(b) : b \in Lists} :
                   /\ Kind(script, l) = "start"
                   /\ ThereIsANextInstruction(Index(l), Owner(l))}
  IN  <<IF starts = {} THEN 0 ELSE Index(Max(starts)) + 1>>

(* A menu's choices: its operands without a title, in pairs.               *)
ChoiceOperands(m) ==
  IF Kind(script, m) = "choicetitle" THEN Tail(operand[m]) ELSE operand[m]

(* Exceptions of CompileInstructions: an unknown label, half a choice.     *)
CompileThrows ==
  \E b \in Lists : \E i \in Within(b) :
    \/ Kind(script, i) = "goto" /\ Registered(i) = {}
    \/ Kind(script, i) \in Menus /\ Len(ChoiceOperands(i)) % 2 = 1

(* What the C# compiler accepts: every method once, no call of another.    *)
Compiles ==
  /\ \A x, y \in Methods : x # y =>
       NameInstruction(x[1], x[2]) # NameInstruction(y[1], y[2])
  /\ LET names == {NameInstruction(x[1], x[2]) : x \in Methods}
     IN  /\ \A x \in Methods : Calls(x[1], x[2]) \subseteq names
         /\ lists[0] # << >> => Main \in names

Compiled == status = "read" /\ ~CompileThrows /\ Compiles

-----------------------------------------------------------------------------
(* Every script that keeps to the compiler's limits is read and compiled.  *)
SupportedCompiles ==
  Supported(Text) => status # "thrown" /\ (status = "read" => Compiled)

(* The first instruction that a call leads to, through returns of menus in *)
(* menus; 0 if the call leads nowhere.                                     *)
Method(name) == CHOOSE x \in Methods : NameInstruction(x[1], x[2]) = name

Leads ==
  LET to[k \in 0 .. Len(script)] ==
        [x \in Methods |->
           IF ~IsReturn(x[1], x[2]) THEN lists[x[2]][x[1] + 1]
           ELSE IF k = 0 THEN 0 ELSE to[k - 1][Method(ReturnTo(x[2]))]]
  IN  to[Len(script)]

(* The story that the methods tell is the one the author wrote, also where *)
(* it leaves a block, or several: each call leads to the instruction that  *)
(* follows in the text, the choices of a menu are its own and in order,    *)
(* and each branch begins with its block.                                  *)
FlowAsWritten ==
  Compiled /\ WellFormed(Text) =>
    \A b \in Lists : \A n \in 0 .. Len(lists[b]) - 1 :
      LET i == lists[b][n + 1]
          s == Text
      IN  /\ FallsThrough(n, b) =>
               {Leads[Method(name)] : name \in Calls(n, b)}
                 = {GoesOn(s, Max({i} \cup IF Kind(s, i) = "say" THEN Run(s, i, {"say"})
                                          ELSE {}))} \ {0}
          /\ Kind(s, i) \in Menus =>
               /\ ToSet(blocks[i]) = Answers(s, i)
               /\ \A f \in ToSet(blocks[i]) : Leads[Method(NameInstruction(0, f))] = f + 1
               /\ {ChoiceOperands(i)[k].line : k \in DOMAIN ChoiceOperands(i)}
                    = Run(s, i, Menus) \cap LinesOf(s, "choice")
=============================================================================
