----------------------------- MODULE StoryPlay -----------------------------
(***************************************************************************)
(* The game as it is played: the scripts and dialogs of ScriptRuntime and  *)
(* the map and walk of TileMap, put together as Story (EmeraldDream/       *)
(* Story.cs) and PlayScene put them together.                              *)
(*                                                                         *)
(* A script sets the map and the character (ChangeMap, ChangeCharacter);   *)
(* one tick of the scene draws the map and the dialogs, so that a walk     *)
(* goes on while a dialog is open; the direction keys, polled by a timer,  *)
(* reach the walk only when no dialog is open; Enter uses whatever stands  *)
(* ahead of the camera.  Nothing stops a script from being started, or a   *)
(* character from being set, in the middle of a walk.                      *)
(*                                                                         *)
(* There is one map and one character, which may be set again and again.   *)
(***************************************************************************)
EXTENDS TileMap, ScriptRuntime

CONSTANTS
  UseOf,   \* UseOf[n] is the first method of n's script, Idle for a null Use
  Hasty    \* instructions that may run before their script has said anything

ASSUME UseAssumption == UseOf \in [Npcs -> Uses \cup {Idle}]

(* A script may show menus and pictures before its first narration, but    *)
(* sets the character only after one.  Nothing in the code asks for it.    *)
ASSUME HastyAssumption ==
  /\ Uses \subseteq Hasty /\ Hasty \subseteq Pcs
  /\ \A p \in Hasty :
       /\ Code[p].op # "setobject"
       /\ Code[p].op \in {"call", "make", "setmap", "image"} => Code[p].next \in Hasty \cup {Idle}
       /\ Code[p].op = "menu" =>
            \A n \in DOMAIN Code[p].target : Code[p].target[n] \in Hasty

(* The narration's box takes longer to open than a tile takes to cross:    *)
(* 65 pixels and Steps - 1 times a fifth do not fill it.                   *)
ASSUME OutlastsAssumption == 65 + (Steps - 1) * (w0 \div 5) < w0

VARIABLE chr   \* PlayScene.chr: Player, or NoObject for null

mapVars  == <<vars, chr>>
playVars == <<scriptVars, mapVars>>

-----------------------------------------------------------------------------
(* Map.SetCharacter(player, m.CameraX, m.CameraY).                         *)
SetCharacter == characterLevel' = [characterLevel EXCEPT ![Camera] = Player]

(* A method of a script, with what Set does to the scene.  An object made  *)
(* anew looks up.                                                          *)
Act ==
  /\ Execute
  /\ IF Code[pc].op = "setobject" /\ made /\ map
     THEN /\ SetCharacter
          /\ chr' = Player
          /\ direction' \in {direction, "Up"}
          /\ UNCHANGED <<floorPassable, walkVars, camVars, CheckPassable>>
     ELSE UNCHANGED mapVars

(* A tick of the scene: the map, once there is one, then the layers; the   *)
(* walk goes on also when an image that was not loaded ends the tick there.*)
Draw ==
  /\ Tick
  /\ IF map THEN DrawMap /\ UNCHANGED chr ELSE UNCHANGED mapVars

(* What InteractWithObjectAhead finds.                                     *)
ObjectAhead ==
  LET to == Ahead(Camera, direction)
  IN  IF to \in Cells THEN characterLevel[to] ELSE NoObject

NoDialog == ~narrVisible /\ ~menuVisible

(* A key of the window.  With no dialog open it is the story's, and the    *)
(* script it starts is the one of the object ahead; the character itself   *)
(* has none.                                                               *)
Press(key) ==
  /\ OnKeyDown(key)
  /\ NoDialog => pc' = IF player /\ ObjectAhead \in Npcs THEN UseOf[ObjectAhead] ELSE Idle
  /\ UNCHANGED mapVars

(* A polled direction key: Story.currentscene_DXKeyDown and PlayScene.Move,*)
(* which before a character is set throws after its first assignment       *)
(* (DXKeyboard.Poll catches it).                                           *)
Steer(d) ==
  /\ Ready /\ NoDialog /\ control > 0
  /\ \/ chr # NoObject /\ Move(d)
     \/ /\ chr = NoObject
        /\ CheckPassable' = TRUE
        /\ UNCHANGED <<floorPassable, characterLevel, walkVars, camVars, direction>>
  /\ UNCHANGED <<scriptVars, chr>>

(* The map as Story.LoadMap leaves it, and no character.                   *)
PlayInit ==
  /\ ScriptInit
  /\ floorPassable \in [Cells -> BOOLEAN]
  /\ characterLevel \in [Cells -> Npcs \cup {NoObject}]
  /\ objectToDir = [o \in Objects |-> NoDir]
  /\ objectToSub = [o \in Objects |-> 0]
  /\ camx = 0 /\ camy = 0
  /\ x = 0 /\ y = 0
  /\ subdir = NoDir
  /\ subx = 0 /\ suby = 0
  /\ CheckPassable = FALSE
  /\ direction = "Up"
  /\ chr = NoObject

PlayNext ==
  \/ Act
  \/ Draw
  \/ \E key \in Keys : Press(key)
  \/ \E d \in Dir : Steer(d)

PlaySpec == PlayInit /\ [][PlayNext]_playVars

(* The processor runs on and the timer ticks.                              *)
PlayFairSpec == PlaySpec /\ WF_playVars(Act) /\ WF_playVars(Draw)

-----------------------------------------------------------------------------
(* Before a character is set nobody walks and the camera has not moved.    *)
NobodyYet ==
  /\ floorPassable \in [Cells -> BOOLEAN]
  /\ characterLevel \in [Cells -> Npcs \cup {NoObject}]
  /\ objectToDir = [o \in Objects |-> NoDir]
  /\ objectToSub = [o \in Objects |-> 0]
  /\ camx = 0 /\ camy = 0
  /\ x = 0 /\ y = 0
  /\ subdir = NoDir
  /\ subx = 0 /\ suby = 0
  /\ CheckPassable \in BOOLEAN
  /\ direction \in Dir

(* The character the keys move is on the map exactly once, under the       *)
(* camera or on its way there, and the view with it, whatever the scripts  *)
(* do in the meantime.  A character set in the middle of a walk would      *)
(* stand on two cells, the second of them promised to the first.           *)
Followed == IF chr = NoObject THEN NobodyYet ELSE WalkConsistent

(* The player is in play: the keys reach the story once, and the walk they *)
(* steer is in order.                                                      *)
InPlay == InControl /\ Followed

(* While the player walks, what a script may do before the walk is over is *)
(* limited: a menu leads on to hasty instructions only, and a narration is *)
(* still opening, its box no wider than the steps of the walk allow.       *)
Overtaken ==
  chr # NoObject /\ ~Standing =>
    /\ pc \in Hasty \cup {Idle}
    /\ menuVisible => \A n \in DOMAIN menuOnClose : menuOnClose[n] \in Hasty
    /\ narrVisible => narrating /\ narrBox.w <= 65 + objectToSub[Player] * (w0 \div 5)

=============================================================================
