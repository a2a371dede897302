--------------------------- MODULE ScriptRuntime ----------------------------
(***************************************************************************)
(* A compiled script at work: the methods Script.CompileInstructions emits *)
(* (EmeraldDream/Script.cs), the narration and the menu dialog they open   *)
(* (Dialog.cs, NarrationDialog.cs), the scene that hands keys to the       *)
(* topmost visible dialog and ticks both (Scene.cs), and the player who    *)
(* starts an object's script (Story.InteractWithObjectAhead).              *)
(*                                                                         *)
(* Everything runs on the UI thread: a key or a tick is handled to its     *)
(* end before the next one.  A handler may call into a script; each        *)
(* emitted method ends with the call of the next one, so a chain of calls  *)
(* is a program counter, and keys and ticks wait until it is Idle again.   *)
(*                                                                         *)
(* A text is a sequence of letters; where text is compared or cut (the     *)
(* typing of a narration) it matters which letters it has.                 *)
(***************************************************************************)
EXTENDS Integers, Sequences, FiniteSets

CONSTANTS
  Pcs,             \* the emitted methods of all scripts
  Idle,            \* no method: a null callback, the end of a chain
  Code,            \* Code[p] is the instruction method p was emitted for
  Main,            \* the method Main calls
  Uses,            \* the first methods of the scripts of map objects
  Letters,         \* what texts are made of
  x0, y0, w0, h0   \* place and size of a dialog, the same for both

(* Instructions.  next is the following instruction of the script, Idle    *)
(* when ThereIsANextInstruction is false; a goto is a "call" of its label. *)
Sets == {"make", "setmap", "setobject", "image"}
Ops  == Sets \cup {"call", "say", "menu", "noop", "exit"}

(* staticImage and staticOverlay, which lie below both dialogs.            *)
ImageLayers == {"image", "overlay"}

ASSUME PcAssumption ==
  Idle \notin Pcs /\ Main \in Pcs /\ Uses \subseteq Pcs

ASSUME CodeAssumption ==
  \A p \in Pcs :
    /\ Code[p].op \in Ops
    /\ Code[p].next \in Pcs \cup {Idle}
    /\ Code[p].op = "say" => Code[p].lines \in Seq(Seq(Letters)) \ {<< >>}
    /\ Code[p].op \in {"make", "setmap"} => Code[p].known \in BOOLEAN
    /\ Code[p].op = "image" => /\ Code[p].layer \in ImageLayers
                               /\ Code[p].to \in {"loaded", "missing", "nothing"}

(* A menu: the texts in menuitemlist, the dictionary menuitems from text   *)
(* to name, and choiceToActionMap from name to the method of its "for".    *)
ASSUME MenuAssumption ==
  \A p \in Pcs : Code[p].op = "menu" =>
    /\ Code[p].texts \in Seq(DOMAIN Code[p].names)
    /\ \A t \in DOMAIN Code[p].names : Code[p].names[t] \in DOMAIN Code[p].target
    /\ \A n \in DOMAIN Code[p].target : Code[p].target[n] \in Pcs
    /\ Cardinality(DOMAIN Code[p].names) \in 1 .. Len(Code[p].texts)

ASSUME BoxAssumption ==
  x0 \in Int /\ y0 \in Int /\ w0 \in Nat /\ h0 \in Nat

VARIABLES
  pc,                                                \* where the running chain of calls is
  narrVisible, narrBox, narrOnClose,                 \* Dialog's part of narrationdialog
  lines, currentline, line, narrating, complete,     \* its own part
  menuVisible, menuBox, menuOnClose,                 \* Dialog's part of menudialog
  menuitemlist, menuitems, selectedindex,            \* its own part
  control,                                           \* how often Story's key handlers are attached
  map, made, player,                                 \* Story: a map, the object, a character
  refused,                                           \* auxiliary: the last set map or object threw
  missing,                                           \* the layers whose lastimage was not loaded
  exited,                                            \* Application.Exit was called
  shown                                              \* auxiliary: who opened the last dialog

narrVars == <<narrVisible, narrBox, narrOnClose, lines, currentline, line, narrating, complete>>
menuVars == <<menuVisible, menuBox, menuOnClose, menuitemlist, menuitems, selectedindex>>
storyVars == <<control, map, made, player, refused, missing>>
scriptVars == <<pc, narrVars, menuVars, storyVars, exited, shown>>

-----------------------------------------------------------------------------
(* Dialog: the box grows from a small square to its full size.             *)
FullBox == [x |-> x0, y |-> y0, w |-> w0, h |-> h0]
(* Mutant: Open without ResetAnimation.                                    *)
MutSmallBox == FullBox

(* ResetAnimation.                                                         *)
SmallBox == [x |-> x0 + w0 \div 2 - 32, y |-> y0 + h0 \div 2 - 32, w |-> 65, h |-> 65]

UpTo(v, goal, step) ==
  IF v >= goal THEN v ELSE IF v + step > goal THEN goal ELSE v + step
(* Mutant: the box may shrink past its place.                              *)
MutDownTo(v, goal, step) == IF v <= goal THEN v ELSE v - step

DownTo(v, goal, step) ==
  IF v <= goal THEN v ELSE IF v - step < goal THEN goal ELSE v - step

Grow(box) ==
  [x |-> DownTo(box.x, x0, w0 \div 10), y |-> DownTo(box.y, y0, h0 \div 10),
   w |-> UpTo(box.w, w0, w0 \div 5),    h |-> UpTo(box.h, h0, h0 \div 5)]

-----------------------------------------------------------------------------
(* NarrationDialog.                                                        *)
SetNarration(text) ==
  /\ narrating' = TRUE
  /\ lines' = text
  /\ complete' = FALSE
  /\ currentline' = 1
  /\ line' = << >>

(* Mutant of TypeLetter: complete at the end of any line.                  *)
MutTypeLetter ==
  IF complete THEN UNCHANGED <<line, narrating, complete>>
  ELSE IF lines = << >> \/ lines[currentline] = line
       THEN narrating' = FALSE /\ complete' = TRUE /\ UNCHANGED line
       ELSE /\ UNCHANGED <<narrating, complete>>
            /\ line' = SubSeq(lines[currentline], 1, Len(line) + 1)

(* The content of an open narration, drawn: one letter more, unless the    *)
(* line is typed; once the last line is there the narration is complete.   *)
TypeLetter ==
  IF complete THEN UNCHANGED <<line, narrating, complete>>
  ELSE IF lines = << >> \/ lines[Len(lines)] = line
       THEN narrating' = FALSE /\ complete' = TRUE /\ UNCHANGED line
       ELSE /\ UNCHANGED complete
            /\ narrating' = (lines[currentline] # line)
            /\ line' = IF lines[currentline] # line
                       THEN SubSeq(lines[currentline], 1, Len(line) + 1) ELSE line

NarrationTick ==
  IF ~narrVisible THEN UNCHANGED narrVars
  ELSE /\ IF narrBox = FullBox THEN TypeLetter ELSE UNCHANGED <<line, narrating, complete>>
       /\ narrBox' = Grow(narrBox)
       /\ UNCHANGED <<narrVisible, narrOnClose, lines, currentline>>

(* Any key goes on to the next line or, after the last one, closes; not    *)
(* while letters are being typed.                                          *)
NarrationKey ==
  IF narrating THEN UNCHANGED <<pc, narrVars>>
  ELSE IF complete \/ currentline + 1 > Len(lines)
       THEN /\ narrVisible' = FALSE
            /\ pc' = narrOnClose
            /\ UNCHANGED <<narrBox, narrOnClose, lines, currentline, line, narrating, complete>>
       ELSE /\ currentline' = currentline + 1
            /\ line' = << >>
            /\ UNCHANGED <<pc, narrVisible, narrBox, narrOnClose, lines, narrating, complete>>

-----------------------------------------------------------------------------
(* MenuDialog.                                                             *)
ItemCount == Cardinality(DOMAIN menuitems)

SelectedItem == menuitems[menuitemlist[selectedindex + 1]]

MenuTick ==
  IF ~menuVisible THEN UNCHANGED menuVars
  ELSE /\ menuBox' = Grow(menuBox)
       /\ UNCHANGED <<menuVisible, menuOnClose, menuitemlist, menuitems, selectedindex>>

MoveSelection(key) ==
  selectedindex' = CASE key = "Up"   -> IF selectedindex = 0 THEN ItemCount - 1
                                        ELSE (selectedindex - 1) % ItemCount
                     [] key = "Down" -> (selectedindex + 1) % ItemCount
                     [] OTHER        -> selectedindex

MutMenuKey(key) ==    \* mutant: Close runs the callback but leaves the menu open
  IF selectedindex = -1 THEN UNCHANGED <<pc, menuVars>>
  ELSE IF key = "Enter"
       THEN pc' = menuOnClose[SelectedItem] /\ UNCHANGED menuVars
       ELSE /\ MoveSelection(key)
            /\ UNCHANGED <<pc, menuVisible, menuBox, menuOnClose, menuitemlist, menuitems>>

MenuKey(key) ==
  IF selectedindex = -1 THEN UNCHANGED <<pc, menuVars>>
  ELSE IF key = "Enter"
       THEN /\ menuVisible' = FALSE
            /\ pc' = menuOnClose[SelectedItem]
            /\ UNCHANGED <<menuBox, menuOnClose, menuitemlist, menuitems, selectedindex>>
       ELSE /\ MoveSelection(key)
            /\ UNCHANGED <<pc, menuVisible, menuBox, menuOnClose, menuitemlist, menuitems>>

-----------------------------------------------------------------------------
(* The emitted methods.                                                    *)
MutSay(i) ==    \* mutant: the callback is set once and for all
  /\ SetNarration(i.lines)
  /\ narrOnClose' = IF i.next # Idle /\ narrOnClose = Idle THEN i.next ELSE narrOnClose
  /\ narrBox' = SmallBox
  /\ narrVisible' = TRUE
  /\ shown' = pc
  /\ pc' = Idle
  /\ UNCHANGED <<menuVars, storyVars, exited>>

Say(i) ==
  /\ SetNarration(i.lines)
  /\ narrOnClose' = IF i.next # Idle THEN i.next ELSE narrOnClose
  /\ narrBox' = SmallBox
  /\ narrVisible' = TRUE
  /\ shown' = pc
  /\ pc' = Idle
  /\ UNCHANGED <<menuVars, storyVars, exited>>

Menu(i) ==
  /\ menuitemlist' = i.texts
  /\ menuitems' = i.names
  /\ selectedindex' = IF i.texts = << >> THEN -1 ELSE 0
  /\ menuOnClose' = i.target
  /\ menuBox' = SmallBox
  /\ menuVisible' = TRUE
  /\ shown' = pc
  /\ pc' = Idle
  /\ UNCHANGED <<narrVars, storyVars, exited>>

(* The scripts for which a narration has a continuation of its own.        *)
EverySayContinues == \A p \in Pcs : Code[p].op = "say" => Code[p].next # Idle

Begins(s, t) == Len(s) <= Len(t) /\ \A k \in 1 .. Len(s) : s[k] = t[k]

(* The scripts in which no narration's last line begins an earlier one.    *)
(* TypeLetter, which compares with the last line only, would take "No",    *)
(* typed so far, of <<"Not now", "No">> for the end of the narration.      *)
LastLineApart ==
  \A p \in Pcs : Code[p].op = "say" =>
    LET text == Code[p].lines
    IN  \A k \in 1 .. Len(text) - 1 : ~Begins(text[Len(text)], text[k])

(* Labels and gotos: call on.                                              *)
Call(i) ==
  /\ pc' = i.next
  /\ UNCHANGED <<narrVars, menuVars, storyVars, exited, shown>>

(* One handler is taken off, if there is one.                              *)
Detached == IF control > 0 THEN control - 1 ELSE 0

(* Story.ChangeMap: a name that is not in maps throws out of the chain of  *)
(* calls, with the handlers already detached.                              *)
ChangeMap(i) ==
  /\ map' = (map \/ i.known)
  /\ control' = IF i.known THEN Detached + 1 ELSE Detached
  /\ pc' = IF i.known THEN i.next ELSE Idle
  /\ refused' = ~i.known
  /\ UNCHANGED <<made, player, missing>>

(* Story.ChangeCharacter needs an object that was made, then a map to put  *)
(* it on; player is assigned between the two.                              *)
ChangeCharacter(i) ==
  /\ player' = (player \/ made)
  /\ control' = IF made /\ map THEN Detached + 1 ELSE Detached
  /\ pc' = IF made /\ map THEN i.next ELSE Idle
  /\ refused' = ~(made /\ map)
  /\ UNCHANGED <<map, made, missing>>

(* Story.CreateObjectInstance, of a type that must have been loaded.       *)
CreateObjectInstance(i) ==
  /\ made' = (made \/ i.known)
  /\ pc' = IF i.known THEN i.next ELSE Idle
  /\ UNCHANGED <<control, map, player, refused, missing>>

(* Story.SetImage, SetOverlay: any name is taken and the layer shown; only *)
(* drawing looks it up.  "nothing" fades out by drawing the last name, and *)
(* never hides it (see Fade).                                              *)
SetImage(i) ==
  /\ missing' = CASE i.to = "loaded"  -> missing \ {i.layer}
                  [] i.to = "missing" -> missing \cup {i.layer}
                  [] OTHER            -> missing
  /\ pc' = i.next
  /\ UNCHANGED <<control, map, made, player, refused>>

(* Set and Make.  (An exception before the first dialog is open would end  *)
(* the program; afterwards the message loop goes on, as here.)             *)
Set(i) ==
  /\ \/ i.op = "setmap"    /\ ChangeMap(i)
     \/ i.op = "setobject" /\ ChangeCharacter(i)
     \/ i.op = "make"      /\ CreateObjectInstance(i)
     \/ i.op = "image"     /\ SetImage(i)
  /\ UNCHANGED <<narrVars, menuVars, exited, shown>>

(* Nothing is emitted for blank lines, comments, a stray end or for: the   *)
(* chain of calls stops.                                                   *)
Noop ==
  /\ pc' = Idle
  /\ UNCHANGED <<narrVars, menuVars, storyVars, exited, shown>>

Exitgame ==
  /\ exited' = TRUE
  /\ pc' = Idle
  /\ UNCHANGED <<narrVars, menuVars, storyVars, shown>>

Execute ==
  /\ pc # Idle
  /\ LET i == Code[pc]
     IN  \/ i.op = "say"  /\ Say(i)
         \/ i.op = "menu" /\ Menu(i)
         \/ i.op = "call" /\ Call(i)
         \/ i.op \in Sets /\ Set(i)
         \/ i.op = "noop" /\ Noop
         \/ i.op = "exit" /\ Exitgame

-----------------------------------------------------------------------------
Ready == pc = Idle /\ ~exited

(* A tick of the scene's timer draws the visible layers, the images before *)
(* the dialogs: an image that was not loaded throws out of the tick        *)
(* (StaticImage.cs:92), of every tick, and no dialog is drawn.             *)
Tick ==
  /\ Ready
  /\ IF missing = {} THEN NarrationTick /\ MenuTick ELSE UNCHANGED <<narrVars, menuVars>>
  /\ UNCHANGED <<pc, storyVars, exited, shown>>

(* Story.InteractWithObjectAhead, with whatever is ahead of the player.    *)
InteractWithObjectAhead ==
  /\ pc' \in IF player THEN Uses \cup {Idle} ELSE {Idle}
  /\ UNCHANGED <<narrVars, menuVars>>

(* Scene.OnKeyDown: the topmost visible dialog, else the story.            *)
OnKeyDown(key) ==
  /\ Ready
  /\ \/ /\ menuVisible
        /\ MenuKey(key)
        /\ UNCHANGED narrVars
     \/ /\ ~menuVisible /\ narrVisible
        /\ NarrationKey
        /\ UNCHANGED menuVars
     \/ /\ ~menuVisible /\ ~narrVisible
        /\ control > 0 /\ key = "Enter"
        /\ InteractWithObjectAhead
  /\ UNCHANGED <<storyVars, exited, shown>>

Keys == {"Up", "Down", "Enter", "Other"}

(* Program.Main: nothing is open and Story.LoadNew executes the main       *)
(* script.                                                                 *)
ScriptInit ==
  /\ pc = Main
  /\ narrVisible = FALSE /\ narrBox = FullBox /\ narrOnClose = Idle
  /\ lines = << >> /\ currentline = 1 /\ line = << >>
  /\ narrating = FALSE /\ complete = TRUE
  /\ menuVisible = FALSE /\ menuBox = FullBox /\ menuOnClose = << >>
  /\ menuitemlist = << >> /\ menuitems = << >> /\ selectedindex = -1
  /\ control = 0 /\ map = FALSE /\ made = FALSE /\ player = FALSE /\ refused = FALSE
  /\ missing = {}
  /\ exited = FALSE
  /\ shown = Main

ScriptNext == Execute \/ Tick \/ \E key \in Keys : OnKeyDown(key)

ScriptSpec == ScriptInit /\ [][ScriptNext]_scriptVars

(* The processor runs on and the timer ticks; no key need ever be pressed. *)
ScriptFairSpec == ScriptSpec /\ WF_scriptVars(Execute) /\ WF_scriptVars(Tick)

-----------------------------------------------------------------------------
Boxes == [x : Int, y : Int, w : Int, h : Int]

ScriptTypeOK ==
  /\ pc \in Pcs \cup {Idle}
  /\ narrVisible \in BOOLEAN /\ menuVisible \in BOOLEAN
  /\ narrBox \in Boxes /\ menuBox \in Boxes
  /\ narrOnClose \in Pcs \cup {Idle}
  /\ lines \in Seq(Seq(Letters)) /\ line \in Seq(Letters)
  /\ narrating \in BOOLEAN /\ complete \in BOOLEAN
  /\ lines # << >> => currentline \in 1 .. Len(lines)
  /\ control \in Nat /\ map \in BOOLEAN /\ made \in BOOLEAN /\ player \in BOOLEAN
  /\ refused \in BOOLEAN /\ exited \in BOOLEAN /\ missing \subseteq ImageLayers
  /\ shown \in Pcs

(* One thing at a time: never both dialogs, and none while a script runs.  *)
(* Open and Close are called from scripts that were started by the other   *)
(* dialog's Close, or by the player, and nothing but the order of those    *)
(* calls sees to it.                                                       *)
OneDialog ==
  /\ ~(narrVisible /\ menuVisible)
  /\ pc # Idle => ~narrVisible /\ ~menuVisible

(* What is on the screen is the instruction that opened it, with its own   *)
(* continuation: the fields were set in several steps, by one instruction. *)
ScreenIsShown ==
  /\ narrVisible => /\ Code[shown].op = "say"
                    /\ lines = Code[shown].lines
                    /\ narrOnClose = Code[shown].next
  /\ menuVisible => /\ Code[shown].op = "menu"
                    /\ menuitemlist = Code[shown].texts
                    /\ menuitems = Code[shown].names
                    /\ menuOnClose = Code[shown].target

(* Enter always finds a choice: the index kept from the keys, the list the *)
(* menu shows, the dictionary, and the action map agree.                   *)
MenuSelectable ==
  menuVisible => /\ selectedindex + 1 \in 1 .. Len(menuitemlist)
                 /\ menuitemlist[selectedindex + 1] \in DOMAIN menuitems
                 /\ SelectedItem \in DOMAIN menuOnClose

(* The typed text is a prefix of its line; otherwise Substring would throw *)
(* in the middle of drawing.                                               *)
TypedIsPrefix == narrVisible => Begins(line, lines[currentline])

(* The dialogs, whatever keys and ticks come between: at most one, showing *)
(* its own instruction, with a choice under Enter and a text it can type.  *)
DialogsConsistent == ScriptTypeOK /\ OneDialog /\ ScreenIsShown /\ MenuSelectable /\ TypedIsPrefix

(* The reader is not cut off: a narration leaves a line only when the line *)
(* is typed to its end or nothing of it has appeared yet, and closes only  *)
(* from its last line: typing ends by comparing texts, the keys count      *)
(* lines.  (A line left before it appears is real: a key handled between   *)
(* the key that went on and the next tick finds narrating still false.     *)
(* What is said of a line typed needs LastLineApart.)                      *)
LineLeft == narrVisible /\ (~narrVisible' \/ currentline' # currentline)
NoLineCutShort ==
  [][LineLeft => /\ line = lines[currentline] \/ line = << >>
                 /\ ~narrVisible' => currentline = Len(lines)]_scriptVars

(* The keys reach the story once - twice, and Enter would start an         *)
(* object's script twice - and from the first map on always, unless a map  *)
(* or character could not be set, which leaves the player without keys     *)
(* until another is: ChangeMap and ChangeCharacter detach and attach, and  *)
(* may be interrupted in between.                                          *)
InControl == control = IF map /\ ~refused THEN 1 ELSE 0

(* The story follows its scripts, whatever the keys and ticks do.          *)
StoryAt == IF pc # Idle THEN pc ELSE IF narrVisible \/ menuVisible THEN shown ELSE Idle
Line == INSTANCE StoryLine WITH at <- StoryAt
FollowsScript == Line!StorySpec

(* Over an image that was not loaded nothing of a narration appears, and   *)
(* as it still counts as being typed, no key gets past it.                 *)
StuckOverMissing == narrVisible /\ missing # {} => narrating /\ line = << >>

(* A narration types its line to the end, or has been closed, without the  *)
(* user's help: it never stops half way and ignores keys for ever.  The    *)
(* one exception is an image below it that was not loaded (as objects.list *)
(* names one): then it never starts.                                       *)
TypingEnds ==
  /\ (narrVisible /\ missing = {}) ~> (~narrVisible \/ line = lines[currentline])
  /\ []StuckOverMissing

(* The callback of a dialog runs once (Dialog.SetDoOnceOnClose): a say     *)
(* that sets none - no instruction follows it - ends its script.           *)
DoOnce ==
  [][narrVisible /\ ~narrVisible' /\ Code[shown].next = Idle => pc' = Idle]_scriptVars
=============================================================================
