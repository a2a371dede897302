----------------------------- MODULE StoryLine ------------------------------
(***************************************************************************)
(* What a script promises its author: the story is always at one           *)
(* instruction of one script, moves on along the script only - to the next *)
(* instruction, to the branch of a choice - and when a script has ended it *)
(* rests until the player uses an object, which starts that object's       *)
(* script.  Nothing is said about dialogs, typing, callbacks or keys.      *)
(***************************************************************************)
CONSTANTS
  Pcs,     \* the instructions of all scripts
  Idle,    \* no instruction
  Code,    \* what each instruction is; see ScriptRuntime
  Main,    \* where the main script starts
  Uses     \* where the scripts of the objects start

VARIABLE at   \* the instruction being executed or on the screen, or Idle

(* Where the story may go from instruction p; a map or an object that      *)
(* cannot be had ends the script.                                          *)
Successors(p) ==
  CASE Code[p].op \in {"say", "call", "image"} -> {Code[p].next}
    [] Code[p].op \in {"make", "setmap", "setobject"} -> {Code[p].next, Idle}
    [] Code[p].op = "menu" -> {Code[p].target[n] : n \in DOMAIN Code[p].target}
    [] OTHER -> {Idle}

StoryInit == at = Main

Follow == at # Idle /\ at' \in Successors(at)

Use == at = Idle /\ at' \in Uses

StoryNext == Follow \/ Use

StorySpec == StoryInit /\ [][StoryNext]_at
=============================================================================
