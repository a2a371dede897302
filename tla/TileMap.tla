------------------------------ MODULE TileMap -------------------------------
(***************************************************************************)
(* EmeraldLibrary/Map.cs as PlayScene.Move (EmeraldDream/PlayScene.cs)     *)
(* drives it: a grid of floors and characters, a camera that runs ahead to *)
(* the cell the player walks to, and the two animations that DrawMap       *)
(* advances by moveamount pixels on every timer tick: the walking object's *)
(* own offset (objectToSubx/y) and the scroll offset of the map            *)
(* (subx/suby, driven by Submovementdirection).                            *)
(*                                                                         *)
(* Offsets are counted in draw steps: one step is moveamount = 8 pixels, a *)
(* tile is Steps = TileSize / moveamount = 4 of them.  All lengths in the  *)
(* code are multiples of a step, so nothing is lost.                       *)
(*                                                                         *)
(* Only the object under the camera is ever told to move and each object   *)
(* stands on one cell; Scan is the literal scan of DrawMap.                *)
(***************************************************************************)
EXTENDS Integers

CONSTANTS
  w, h,          \* size of the map in tiles
  ViewW, ViewH,  \* GameControl.Width / 32, GameControl.Height / 32
  Steps,         \* GameWindow.TileSize / moveamount
  Player, Npcs,  \* the character of the scene, and the other map objects
  NoObject,      \* a null entry of characterLevel
  NoDir          \* a null Direction?, or no entry in objectToDir

Objects == {Player} \cup Npcs
Dir == {"Up", "Down", "Left", "Right"}

ASSUME SizeAssumption  == w \in Nat \ {0} /\ h \in Nat \ {0}
ASSUME ViewAssumption  == ViewW \in Nat \ {0, 1} /\ ViewH \in Nat \ {0, 1}
ASSUME StepsAssumption == Steps \in Nat \ {0}
ASSUME ObjectAssumption == NoObject \notin Objects /\ Player \notin Npcs
ASSUME DirAssumption   == NoDir \notin Dir

VARIABLES
  floorPassable,   \* floorLevel[c].Passable; set when the map is loaded
  characterLevel,  \* the object on each cell, or NoObject
  objectToDir,     \* where a walking object goes, NoDir when it stands
  objectToSub,     \* how far it has come, in steps
  camx, camy,      \* the camera cell
  x, y,            \* the map cell at the top left of the viewport
  subdir,          \* Submovementdirection
  subx, suby,      \* scroll offset still to be worked off, in steps
  CheckPassable,   \* Map.CheckPassable
  direction        \* PlayScene.chr.Direction

walkVars == <<objectToDir, objectToSub>>
camVars  == <<camx, camy, x, y, subdir, subx, suby>>
vars == <<floorPassable, characterLevel, walkVars, camVars, CheckPassable, direction>>

-----------------------------------------------------------------------------
Cells == (0 .. w - 1) \X (0 .. h - 1)
Camera == <<camx, camy>>

DX(d) == CASE d = "Left" -> -1 [] d = "Right" -> 1 [] OTHER -> 0
DY(d) == CASE d = "Up"   -> -1 [] d = "Down"  -> 1 [] OTHER -> 0
Ahead(c, d)  == <<c[1] + DX(d), c[2] + DY(d)>>
Behind(c, d) == <<c[1] - DX(d), c[2] - DY(d)>>

(* Named as in the code, where it is true of a floor that BLOCKS.          *)
FloorIsPassable(c) == ~floorPassable[c]

(* Mutants of IsPassable: the floor, or the characters, are forgotten.     *)
MutPassableNoFloor(from, d) ==
  LET to == Ahead(from, d) IN to \in Cells /\ characterLevel[to] = NoObject
MutPassableNoObject(from, d) ==
  LET to == Ahead(from, d) IN to \in Cells /\ ~FloorIsPassable(to)

IsPassable(from, d) ==
  LET to == Ahead(from, d)
  IN  /\ to \in Cells
      /\ characterLevel[to] = NoObject
      /\ ~FloorIsPassable(to)

-----------------------------------------------------------------------------
(* The CameraX and CameraY setters, one axis at a time: n is the size of   *)
(* the map on this axis, view the number of tiles the control shows, and   *)
(* delta the direction of the move in progress.                            *)
Clamp(v, n) == IF v >= n THEN n - 1 ELSE IF v < 0 THEN 0 ELSE v

(* The top left corner that would centre the camera; moving right (down)   *)
(* onto a corner that is not past the edge counts as still outside it.     *)
Corner(cam, view, delta) ==
  LET c == cam - view \div 2
  IN  IF delta = 1 /\ c <= 0 THEN -1 ELSE c

ViewCorner(cam, view, n, delta) ==
  LET c == Corner(cam, view, delta)
  IN  IF c < 0 THEN 0 ELSE IF c + view >= n THEN n - view ELSE c

(* Mutant: the correction for a move away from the far edge is missing.    *)
MutAtEdgeLeaving(cam, view, n, delta) ==
  LET c == Corner(cam, view, delta) IN c < 0 \/ c + view > n

(* The viewport is at an edge of the map and stays there: no scrolling.    *)
AtEdge(cam, view, n, delta) ==
  LET c == Corner(cam, view, delta)
  IN  \/ c < 0
      \/ c + view > n
      \/ c + view = n /\ delta = -1

(* Mutant: the offset is charged with the wrong sign.                      *)
MutStartScroll(d) ==
  LET to   == <<Clamp(camx + DX(d), w), Clamp(camy + DY(d), h)>>
      edge == IF DX(d) # 0 THEN AtEdge(to[1], ViewW, w, DX(d))
                           ELSE AtEdge(to[2], ViewH, h, DY(d))
  IN  /\ camx' = to[1] /\ camy' = to[2]
      /\ x' = IF DX(d) # 0 THEN ViewCorner(to[1], ViewW, w, DX(d)) ELSE x
      /\ y' = IF DY(d) # 0 THEN ViewCorner(to[2], ViewH, h, DY(d)) ELSE y
      /\ subdir' = IF edge THEN NoDir ELSE d
      /\ subx' = IF edge THEN subx ELSE subx + DX(d) * Steps
      /\ suby' = IF edge THEN suby ELSE suby + DY(d) * Steps

(* MoveCamera(dir) when no scroll is in progress.  The setter returns      *)
(* early, leaving the camera where it is, if an offset is left over or the *)
(* floor blocks; the scroll offset is charged all the same.                *)
StartScroll(d) ==
  LET to    == <<Clamp(camx + DX(d), w), Clamp(camy + DY(d), h)>>
      moved == subx = 0 /\ suby = 0 /\ ~(CheckPassable' /\ FloorIsPassable(to))
      edge  == moved /\ IF DX(d) # 0 THEN AtEdge(to[1], ViewW, w, DX(d))
                                     ELSE AtEdge(to[2], ViewH, h, DY(d))
  IN  /\ camx' = IF moved THEN to[1] ELSE camx
      /\ camy' = IF moved THEN to[2] ELSE camy
      /\ x' = IF moved /\ DX(d) # 0 THEN ViewCorner(to[1], ViewW, w, DX(d)) ELSE x
      /\ y' = IF moved /\ DY(d) # 0 THEN ViewCorner(to[2], ViewH, h, DY(d)) ELSE y
      /\ subdir' = IF edge THEN NoDir ELSE d
      /\ subx' = IF edge THEN subx ELSE subx - DX(d) * Steps
      /\ suby' = IF edge THEN suby ELSE suby - DY(d) * Steps

MoveCamera(d) ==
  \/ subdir = NoDir /\ StartScroll(d)
  \/ subdir # NoDir /\ UNCHANGED camVars

(* MoveCharacter(camx, camy, d) returns true and starts a walk.            *)
CanWalk(d) ==
  LET obj == characterLevel[Camera]
  IN  /\ obj # NoObject
      /\ IsPassable(Camera, d)
      /\ objectToDir[obj] = NoDir

(* PlayScene.Move                                                          *)
Move(d) ==
  /\ CheckPassable' = TRUE
  /\ direction' = d
  /\ \/ /\ CanWalk(d)
        /\ objectToDir' = [objectToDir EXCEPT ![characterLevel[Camera]] = d]
        /\ objectToSub' = [objectToSub EXCEPT ![characterLevel[Camera]] = 0]
        /\ MoveCamera(d)
     \/ /\ ~CanWalk(d)
        /\ UNCHANGED <<walkVars, camVars>>
  /\ UNCHANGED <<floorPassable, characterLevel>>

-----------------------------------------------------------------------------
(* Mutant: the end of a scroll is not noticed.                             *)
MutAnalyseMap ==
  /\ x' = IF w <= ViewW THEN 0 ELSE x
  /\ y' = IF h <= ViewH THEN 0 ELSE y
  /\ subx' = subx + DX(subdir)
  /\ suby' = suby + DY(subdir)
  /\ UNCHANGED <<camx, camy, subdir>>

(* AnalyseMap: a map no larger than the control is centred and not         *)
(* scrolled; a scroll in progress is worked off by one step.               *)
AnalyseMap ==
  /\ x' = IF w <= ViewW THEN 0 ELSE x
  /\ y' = IF h <= ViewH THEN 0 ELSE y
  /\ subx' = subx + DX(subdir)
  /\ suby' = suby + DY(subdir)
  /\ subdir' = IF subx' = 0 /\ suby' = 0 THEN NoDir ELSE subdir
  /\ UNCHANGED <<camx, camy>>

(* Mutant: only what is visible at rest is visited.                        *)
MutDrawn ==
  {c \in Cells :
     /\ w > ViewW => c[1] \in x .. (x + ViewW - 1)
     /\ h > ViewH => c[2] \in y .. (y + ViewH - 1)}

(* The cells DrawMap visits: the viewport, a column and a row before it,   *)
(* and one column and two rows after it (Map.cs:525, 536).                 *)
Drawn ==
  {c \in Cells :
     /\ w > ViewW => c[1] \in (x - 1) .. (x + ViewW)
     /\ h > ViewH => c[2] \in (y - 1) .. (y + ViewH + 1)}

(* The walking objects DrawMap meets advance by a step; one that has come  *)
(* a whole tile is moved to the next cell and stands again.                *)
Advancing == {o \in Objects : objectToDir[o] # NoDir /\ \E c \in Drawn : characterLevel[c] = o}

Arriving == {o \in Advancing : objectToSub[o] + 1 >= Steps}

DrawCharacters ==
  /\ objectToSub' = [o \in Objects |->
       IF o \in Arriving THEN 0 ELSE IF o \in Advancing THEN objectToSub[o] + 1
       ELSE objectToSub[o]]
  /\ objectToDir' = [o \in Objects |-> IF o \in Arriving THEN NoDir ELSE objectToDir[o]]
  /\ characterLevel' = [c \in Cells |->
       LET arrivals == {o \in Arriving : /\ Behind(c, objectToDir[o]) \in Cells
                                         /\ characterLevel[Behind(c, objectToDir[o])] = o}
       IN  IF arrivals # {} THEN CHOOSE o \in arrivals : TRUE
           ELSE IF characterLevel[c] \in Arriving THEN NoObject ELSE characterLevel[c]]

(* One tick of the scene's timer (Scene.cs:17, Map.DrawMap).               *)
DrawMap ==
  /\ AnalyseMap
  /\ DrawCharacters
  /\ UNCHANGED <<floorPassable, CheckPassable, direction>>

(* The character pass of DrawMap word for word: the drawn cells row by     *)
(* row, each looked at once, writing as it goes.  DrawCharacters treats    *)
(* all cells at once, which is right only if no object is met twice.       *)
Grid == [level |-> characterLevel, dir |-> objectToDir, sub |-> objectToSub]

(* Mutant of Visit: the object is not taken out of objectToDir.            *)
MutVisit(c, s) ==
  LET o == s.level[c]
  IN  IF o = NoObject \/ (o # NoObject /\ s.dir[o] = NoDir) THEN s
      ELSE IF s.sub[o] + 1 < Steps THEN [s EXCEPT !.sub[o] = @ + 1]
      ELSE [s EXCEPT !.level[c] = NoObject, !.level[Ahead(c, s.dir[o])] = o, !.sub[o] = 0]

(* What the scan does to the grid s at cell c.                             *)
Visit(c, s) ==
  LET o == s.level[c]
  IN  IF o = NoObject \/ (o # NoObject /\ s.dir[o] = NoDir) THEN s
      ELSE IF s.sub[o] + 1 < Steps THEN [s EXCEPT !.sub[o] = @ + 1]
      ELSE [s EXCEPT !.level[c] = NoObject, !.level[Ahead(c, s.dir[o])] = o,
                     !.dir[o] = NoDir, !.sub[o] = 0]

Smaller(a, b) == IF a < b THEN a ELSE b

LeftMost   == IF w > ViewW /\ x > 0 THEN x - 1 ELSE 0
RightMost  == IF w > ViewW THEN Smaller(x + ViewW + 1, w) ELSE w
TopMost    == IF h > ViewH /\ y > 0 THEN y - 1 ELSE 0
BottomMost == IF h > ViewH THEN Smaller(y + ViewH + 2, h) ELSE h

(* One row, and one row after another.                                     *)
ScanRow(s, yy) ==
  LET at[xx \in LeftMost .. RightMost] ==
        IF xx = LeftMost THEN s ELSE Visit(<<xx - 1, yy>>, at[xx - 1])
  IN  at[RightMost]

Scan(s) ==
  LET at[yy \in TopMost .. BottomMost] ==
        IF yy = TopMost THEN s ELSE ScanRow(at[yy - 1], yy - 1)
  IN  at[BottomMost]

-----------------------------------------------------------------------------
(* The map as Story.ChangeMap and ChangeCharacter leave it: freshly loaded *)
(* with its floors and objects, the player set down on the camera cell.    *)
Init ==
  /\ floorPassable \in [Cells -> BOOLEAN]
  /\ characterLevel \in [Cells -> Objects \cup {NoObject}]
  /\ {c \in Cells : characterLevel[c] = Player} = {<<0, 0>>}
  /\ \A n \in Npcs : \A c, d \in {e \in Cells : characterLevel[e] = n} : c = d
  /\ objectToDir = [o \in Objects |-> NoDir]
  /\ objectToSub = [o \in Objects |-> 0]
  /\ camx = 0 /\ camy = 0
  /\ x = 0 /\ y = 0
  /\ subdir = NoDir
  /\ subx = 0 /\ suby = 0
  /\ CheckPassable = FALSE
  /\ direction \in Dir

Next == DrawMap \/ \E d \in Dir : Move(d)

Spec == Init /\ [][Next]_vars

(* The scene's timer keeps ticking as long as the window is open; nothing  *)
(* obliges the user to press a key.                                        *)
FairSpec == Spec /\ WF_vars(DrawMap)

-----------------------------------------------------------------------------
TypeOK ==
  /\ floorPassable \in [Cells -> BOOLEAN]
  /\ characterLevel \in [Cells -> Objects \cup {NoObject}]
  /\ objectToDir \in [Objects -> Dir \cup {NoDir}]
  /\ objectToSub \in [Objects -> 0 .. Steps - 1]
  /\ Camera \in Cells
  /\ x \in Int /\ y \in Int
  /\ subdir \in Dir \cup {NoDir}
  /\ subx \in -Steps .. Steps /\ suby \in -Steps .. Steps
  /\ CheckPassable \in BOOLEAN
  /\ direction \in Dir

Standing == objectToDir[Player] = NoDir

(* One cell behind the camera on the way of a walk, else the camera cell.  *)
PlayerAt == Behind(Camera, objectToDir[Player])

(* The player stands where the camera is, or one cell behind it and walks  *)
(* towards it, and nothing gets onto the cell it was promised.  The code   *)
(* keeps the two in two places: PlayScene.Move moves the camera at once,   *)
(* DrawMap moves the object TileSize / moveamount ticks later.             *)
CameraLeads ==
  /\ PlayerAt \in Cells
  /\ \A c \in Cells : characterLevel[c] = Player <=> c = PlayerAt
  /\ Standing => objectToSub[Player] = 0
  /\ ~Standing => characterLevel[Camera] = NoObject /\ ~FloorIsPassable(Camera)

(* The scroll and the walk, advanced by two pieces of code with counters   *)
(* of their own, run in step: a scroll goes the way the player walks and   *)
(* has as far to go, and without one no offset is left over (which would   *)
(* make every later CameraX/CameraY assignment a no-op).                   *)
Lockstep ==
  IF subdir = NoDir
  THEN subx = 0 /\ suby = 0
  ELSE /\ objectToDir[Player] = subdir
       /\ subx = DX(subdir) * (objectToSub[Player] - Steps)
       /\ suby = DY(subdir) * (objectToSub[Player] - Steps)

(* A map larger than the control is shown with the camera in the middle,   *)
(* or as near to it as the edges of the map allow, and nothing beyond      *)
(* them: the setters compute the corner from the camera they have just     *)
(* moved, with corrections for the direction that must cancel out.         *)
Centred(cam, view, n) ==
  LET c == cam - view \div 2
  IN  IF c < 0 THEN 0 ELSE IF c > n - view THEN n - view ELSE c

ViewCentred ==
  /\ w > ViewW => x = Centred(camx, ViewW, w)
  /\ h > ViewH => y = Centred(camy, ViewH, h)

(* Nobody but the player walks: MoveCharacter is called with the camera    *)
(* cell only.                                                              *)
NpcsStand == \A n \in Npcs : objectToDir[n] = NoDir

(* The inductive invariant of the proofs.                                  *)
IInv == TypeOK /\ NpcsStand /\ CameraLeads /\ Lockstep /\ ViewCentred

(* What is on the screen, in steps: the offset of the view on the map, the *)
(* place of the player on the map, and its place in the view.              *)
ScrollX == (IF w > ViewW THEN x * Steps ELSE 0) + subx
ScrollY == (IF h > ViewH THEN y * Steps ELSE 0) + suby
PlaceX  == PlayerAt[1] * Steps + DX(objectToDir[Player]) * objectToSub[Player]
PlaceY  == PlayerAt[2] * Steps + DY(objectToDir[Player]) * objectToSub[Player]
PlayerX == PlaceX - ScrollX
PlayerY == PlaceY - ScrollY

(* Under a player who walks while the map stands still, the corner of the  *)
(* view is also the one of the cell that is being left.                    *)
CornerKept ==
  ~Standing /\ subdir = NoDir =>
    /\ w > ViewW => x = Centred(PlayerAt[1], ViewW, w)
    /\ h > ViewH => y = Centred(PlayerAt[2], ViewH, h)

(* The player is drawn whole, inside the view, at every moment of a walk,  *)
(* also where the map has stopped to scroll.                               *)
PlayerOnScreen ==
  /\ w > ViewW => PlayerX \in 0 .. (ViewW - 1) * Steps
  /\ h > ViewH => PlayerY \in 0 .. (ViewH - 1) * Steps

(* The two places that hold the walk, the camera's and the map's, agree    *)
(* with each other and with what is seen of the map.                       *)
WalkConsistent == TypeOK /\ CameraLeads /\ Lockstep /\ ViewCentred /\ PlayerOnScreen

Near(a, b) == a - b \in -1 .. 1

(* Nothing on the screen ever jumps: between two ticks, and by a key       *)
(* press, the view and the player in it move by one draw step at most,     *)
(* though the camera and the corner of the view jump by a tile at once.    *)
NoJump ==
  [][/\ Near(ScrollX', ScrollX) /\ Near(ScrollY', ScrollY)
     /\ Near(PlayerX', PlayerX) /\ Near(PlayerY', PlayerY)]_vars

(* No step of the player moves, erases or duplicates another object        *)
(* (DrawMap writes two cells of characterLevel without looking at them).   *)
NpcsUndisturbed ==
  [][\A c \in Cells : characterLevel[c] \in Npcs \/ characterLevel'[c] \in Npcs
        => characterLevel'[c] = characterLevel[c]]_vars

(* DrawMap, which writes the grid it is scanning, ends where the one       *)
(* simultaneous update of DrawCharacters does: an object that moves right  *)
(* or down into a cell still to be scanned is not moved twice.             *)
ScanAgrees == [][DrawMap => Scan(Grid) = Grid']_vars

(* The walk as its user sees it.                                           *)
PlayerCell == CHOOSE c \in Cells : characterLevel[c] = Player
FreeCells  == {c \in Cells : ~FloorIsPassable(c) /\ characterLevel[c] \notin Npcs}
Walk == INSTANCE GridWalk WITH pos <- PlayerCell, goal <- Camera, free <- FreeCells

(* Every run of the map is a walk of GridWalk: the player enters free      *)
(* cells only, one at a time, never turns or stops half way, ...           *)
IsGridWalk == Walk!GridSpec

(* ... and, as long as the timer ticks, always arrives (the object must    *)
(* stay among the cells DrawMap visits).                                   *)
WalkCompletes == Walk!GridFairSpec
=============================================================================
