--------------------------- MODULE TileMapProofs ----------------------------
(***************************************************************************)
(* Machine-checked proofs about TileMap, for every size of map, view and   *)
(* tile and every set of objects.                                          *)
(***************************************************************************)
EXTENDS TileMap, WellFoundedInduction, TLAPS

USE SizeAssumption, ViewAssumption, StepsAssumption, ObjectAssumption, DirAssumption

-----------------------------------------------------------------------------
(* The four directions and what they do to a cell.                         *)
LEMMA DirFacts ==
  /\ \A d \in Dir : d # NoDir
  /\ \A d \in Dir : \/ DX(d) \in {-1, 1} /\ DY(d) = 0
                    \/ DX(d) = 0 /\ DY(d) \in {-1, 1}
  /\ DX(NoDir) = 0 /\ DY(NoDir) = 0
BY DEF Dir, DX, DY

(* The cell behind the one ahead is where one stands.                        *)
LEMMA BehindAhead ==
  ASSUME NEW c \in Cells, NEW d \in Dir
  PROVE  Behind(Ahead(c, d), d) = c
BY DirFacts DEF Cells, Ahead, Behind

(* Standing still, the cell behind is where one stands.                      *)
LEMMA BehindNoDir ==
  ASSUME NEW c \in Cells
  PROVE  Behind(c, NoDir) = c
BY DirFacts DEF Cells, Behind

-----------------------------------------------------------------------------
(* The initial map satisfies the invariant.                                *)
LEMMA InitIInv == Init => IInv
<1> SUFFICES ASSUME Init PROVE IInv
  OBVIOUS
<1>1. Camera = <<0, 0>> /\ Camera \in Cells
  BY DEF Init, Camera, Cells
<1>2. TypeOK
  <2>1. objectToDir \in [Objects -> Dir \cup {NoDir}]
    BY DEF Init
  <2>2. objectToSub \in [Objects -> 0 .. Steps - 1]
    BY DEF Init
  <2>3. subx \in -Steps .. Steps /\ suby \in -Steps .. Steps /\ x \in Int /\ y \in Int
    BY DEF Init
  <2>4. CheckPassable \in BOOLEAN
    BY Zenon DEF Init
  <2>5. /\ floorPassable \in [Cells -> BOOLEAN]
        /\ characterLevel \in [Cells -> Objects \cup {NoObject}]
        /\ subdir \in Dir \cup {NoDir} /\ direction \in Dir
    BY Zenon DEF Init
  <2> QED
    BY Zenon, <1>1, <2>1, <2>2, <2>3, <2>4, <2>5 DEF TypeOK
<1>3. NpcsStand
  BY DEF Init, NpcsStand, Objects
<1>4. PlayerAt = <<0, 0>>
  BY <1>1, BehindNoDir DEF Init, PlayerAt, Objects
<1>5. CameraLeads
  <2>1. \A c \in Cells : characterLevel[c] = Player <=> c = <<0, 0>>
    BY DEF Init
  <2>2. Standing /\ objectToSub[Player] = 0
    BY DEF Init, Standing, Objects
  <2> QED
    BY <1>1, <1>4, <2>1, <2>2 DEF CameraLeads
<1>6. Lockstep
  BY DEF Init, Lockstep
<1>7. ViewCentred
  BY DEF Init, ViewCentred, Centred
<1> QED
  BY <1>2, <1>3, <1>5, <1>6, <1>7 DEF IInv

-----------------------------------------------------------------------------
(* Move: a walk can start only when the player stands still, and then the  *)
(* camera setter takes none of its early returns.                          *)
LEMMA CanWalkFacts ==
  ASSUME IInv, NEW d \in Dir, CanWalk(d)
  PROVE  /\ Standing
         /\ characterLevel[Camera] = Player
         /\ PlayerAt = Camera
         /\ subdir = NoDir /\ subx = 0 /\ suby = 0
         /\ Ahead(Camera, d) \in Cells
         /\ characterLevel[Ahead(Camera, d)] = NoObject
         /\ ~FloorIsPassable(Ahead(Camera, d))
<1> USE DEF IInv
<1>1. Camera \in Cells
  BY DEF TypeOK
<1>2. Standing
  BY DEF CanWalk, CameraLeads
<1>3. PlayerAt = Camera
  BY <1>1, <1>2, BehindNoDir DEF PlayerAt, Standing
<1>4. characterLevel[Camera] = Player
  BY <1>1, <1>3 DEF CameraLeads
<1>5. subdir = NoDir /\ subx = 0 /\ suby = 0
  BY <1>2 DEF Lockstep, Standing, TypeOK
<1> QED
  BY <1>2, <1>3, <1>4, <1>5 DEF CanWalk, IsPassable

(* What the setters then assign.                                           *)
LEMMA StartScrollFacts ==
  ASSUME IInv, NEW d \in Dir, CanWalk(d), Move(d)
  PROVE  /\ Camera' = Ahead(Camera, d)
         /\ x' = IF DX(d) # 0 THEN ViewCorner(camx', ViewW, w, DX(d)) ELSE x
         /\ y' = IF DX(d) = 0 THEN ViewCorner(camy', ViewH, h, DY(d)) ELSE y
         /\ \/ subdir' = NoDir /\ subx' = 0 /\ suby' = 0
            \/ subdir' = d /\ subx' = - DX(d) * Steps /\ suby' = - DY(d) * Steps
<1>1. /\ subdir = NoDir /\ subx = 0 /\ suby = 0
      /\ Ahead(Camera, d) \in Cells
      /\ ~FloorIsPassable(Ahead(Camera, d))
  BY CanWalkFacts
<1>2. StartScroll(d)
  BY <1>1 DEF Move, MoveCamera
<1>3. camx \in 0 .. w - 1 /\ camy \in 0 .. h - 1
  BY DEF IInv, TypeOK, Camera, Cells
<1>4. camx + DX(d) \in 0 .. w - 1 /\ camy + DY(d) \in 0 .. h - 1
  BY <1>1 DEF Ahead, Camera, Cells
<1>5. Clamp(camx + DX(d), w) = camx + DX(d) /\ Clamp(camy + DY(d), h) = camy + DY(d)
  BY <1>4 DEF Clamp
<1>6. ~FloorIsPassable(<<camx + DX(d), camy + DY(d)>>)
  BY <1>1 DEF Ahead, Camera
<1>7. /\ camx' = camx + DX(d) /\ camy' = camy + DY(d)
      /\ x' = IF DX(d) # 0 THEN ViewCorner(camx', ViewW, w, DX(d)) ELSE x
      /\ y' = IF DY(d) # 0 THEN ViewCorner(camy', ViewH, h, DY(d)) ELSE y
      /\ \/ subdir' = NoDir /\ subx' = 0 /\ suby' = 0
         \/ subdir' = d /\ subx' = 0 - DX(d) * Steps /\ suby' = 0 - DY(d) * Steps
  BY <1>1, <1>2, <1>5, <1>6 DEF StartScroll
<1> QED
  BY <1>7, DirFacts DEF Ahead, Camera

(* The corner the setters compute is the centred one.                      *)
LEMMA CornerFacts ==
  ASSUME NEW n \in Nat \ {0}, NEW view \in Nat \ {0, 1}, n > view,
         NEW cam \in 0 .. n - 1, NEW delta \in {-1, 1}
  PROVE  ViewCorner(cam, view, n, delta) = Centred(cam, view, n)
BY DEF ViewCorner, Corner, Centred

(* The corner of the view is a whole cell wherever the camera is.            *)
LEMMA ViewCornerInt ==
  ASSUME NEW n \in Nat \ {0}, NEW view \in Nat \ {0, 1},
         NEW cam \in 0 .. n - 1, NEW delta \in {-1, 1}
  PROVE  ViewCorner(cam, view, n, delta) \in Int
BY DEF ViewCorner, Corner

(* A key press preserves the invariant.                                    *)
LEMMA MoveIInv ==
  ASSUME IInv, NEW d \in Dir, Move(d)
  PROVE  IInv'
<1>1. CASE ~CanWalk(d)
  <2>1. UNCHANGED <<floorPassable, characterLevel, walkVars, camVars>>
    BY <1>1 DEF Move
  <2>2. CheckPassable' \in BOOLEAN /\ direction' \in Dir
    BY Zenon DEF Move
  <2>3. TypeOK'
    BY <2>1, <2>2 DEF IInv, TypeOK, walkVars, camVars, Camera
  <2>4. NpcsStand' /\ ViewCentred'
    BY <2>1 DEF IInv, NpcsStand, ViewCentred, walkVars, camVars
  <2>5. CameraLeads' /\ Lockstep'
    BY <2>1 DEF IInv, CameraLeads, Lockstep, walkVars, camVars, Camera, Standing, PlayerAt,
                FloorIsPassable
  <2> QED
    BY <2>3, <2>4, <2>5 DEF IInv
<1>2. CASE CanWalk(d)
  <2> DEFINE to == Ahead(Camera, d)
  <2>1. /\ Standing /\ characterLevel[Camera] = Player /\ PlayerAt = Camera
        /\ to \in Cells /\ characterLevel[to] = NoObject /\ ~FloorIsPassable(to)
    BY <1>2, CanWalkFacts
  <2>2. /\ objectToDir' = [objectToDir EXCEPT ![Player] = d]
        /\ objectToSub' = [objectToSub EXCEPT ![Player] = 0]
        /\ UNCHANGED <<floorPassable, characterLevel>>
    BY <1>2, <2>1 DEF Move
  <2>3. /\ Camera' = to
        /\ x' = IF DX(d) # 0 THEN ViewCorner(camx', ViewW, w, DX(d)) ELSE x
        /\ y' = IF DX(d) = 0 THEN ViewCorner(camy', ViewH, h, DY(d)) ELSE y
        /\ \/ subdir' = NoDir /\ subx' = 0 /\ suby' = 0
           \/ subdir' = d /\ subx' = - DX(d) * Steps /\ suby' = - DY(d) * Steps
    BY <1>2, StartScrollFacts
  <2>4. camx' \in 0 .. w - 1 /\ camy' \in 0 .. h - 1
    BY <2>1, <2>3 DEF Camera, Cells
  <2>5. objectToDir'[Player] = d /\ objectToSub'[Player] = 0
    BY <2>2 DEF IInv, TypeOK, Objects
  <2>6. TypeOK'
    <3>1. objectToDir' \in [Objects -> Dir \cup {NoDir}]
      BY <2>2 DEF IInv, TypeOK
    <3>2. objectToSub' \in [Objects -> 0 .. Steps - 1]
      <4>1. 0 \in 0 .. Steps - 1 /\ objectToSub \in [Objects -> 0 .. Steps - 1]
        BY DEF IInv, TypeOK
      <4> QED
        BY <2>2, <4>1
    <3>3. x' \in Int /\ y' \in Int
      BY <2>3, <2>4, DirFacts, ViewCornerInt DEF IInv, TypeOK
    <3>4. subx' \in -Steps .. Steps /\ suby' \in -Steps .. Steps
      BY <2>3, DirFacts
    <3>5. subdir' \in Dir \cup {NoDir}
      BY <2>3
    <3>6. CheckPassable' \in BOOLEAN /\ direction' \in Dir
      BY Zenon DEF Move
    <3>7. Camera' \in Cells'
      BY <2>1, <2>3 DEF Cells
    <3>8. /\ floorPassable' \in [Cells' -> BOOLEAN]
          /\ characterLevel' \in [Cells' -> Objects \cup {NoObject}]
      BY Zenon, <2>2 DEF IInv, TypeOK, Cells
    <3> QED
      BY Zenon, <3>1, <3>2, <3>3, <3>4, <3>5, <3>6, <3>7, <3>8 DEF TypeOK
  <2>7. NpcsStand'
    BY <2>2 DEF IInv, TypeOK, NpcsStand, Objects
  <2>8. CameraLeads'
    <3>1. PlayerAt' = Camera
      BY <2>3, <2>5, BehindAhead DEF PlayerAt, IInv, TypeOK, Behind, Camera, Ahead
    <3>2. Camera \in Cells' /\ \A c \in Cells' : characterLevel'[c] = Player <=> c = Camera
      BY <2>1, <2>2 DEF IInv, TypeOK, CameraLeads, Cells
    <3>3. ~Standing' /\ characterLevel'[Camera'] = NoObject /\ ~FloorIsPassable(Camera)'
      BY <2>1, <2>2, <2>3, <2>5, DirFacts DEF Standing, FloorIsPassable
    <3> QED
      BY <3>1, <3>2, <3>3 DEF CameraLeads
  <2>9. Lockstep'
    BY <2>3, <2>5, DirFacts DEF Lockstep
  <2>10. ViewCentred'
    <3>1. CASE DX(d) # 0
      <4>1. camy' = camy /\ y' = y
        BY <2>3, <3>1, DirFacts DEF Camera, Ahead, IInv, TypeOK, Cells
      <4>2. w > ViewW => x' = Centred(camx', ViewW, w)
        BY <2>3, <2>4, <3>1, DirFacts, CornerFacts
      <4> QED
        BY <4>1, <4>2 DEF IInv, ViewCentred
    <3>2. CASE DX(d) = 0
      <4>1. camx' = camx /\ x' = x
        BY <2>3, <3>2, DirFacts DEF Camera, Ahead, IInv, TypeOK, Cells
      <4>2. h > ViewH => y' = Centred(camy', ViewH, h)
        BY <2>3, <2>4, <3>2, DirFacts, CornerFacts
      <4> QED
        BY <4>1, <4>2 DEF IInv, ViewCentred
    <3> QED
      BY <3>1, <3>2
  <2> QED
    BY <2>6, <2>7, <2>8, <2>9, <2>10 DEF IInv
<1> QED
  BY <1>1, <1>2

-----------------------------------------------------------------------------
(* DrawMap: a walking player is always among the cells it visits.          *)
LEMMA PlayerDrawn ==
  ASSUME IInv
  PROVE  PlayerAt \in Drawn
<1>1. camx \in 0 .. w - 1 /\ camy \in 0 .. h - 1
  BY DEF IInv, TypeOK, Camera, Cells
<1>2. w > ViewW => x <= camx /\ camx <= x + ViewW - 1
  BY <1>1 DEF IInv, ViewCentred, Centred
<1>3. h > ViewH => y <= camy /\ camy <= y + ViewH - 1
  BY <1>1 DEF IInv, ViewCentred, Centred
<1>4. objectToDir[Player] \in Dir \cup {NoDir}
  BY DEF IInv, TypeOK, Objects
<1>5. /\ PlayerAt = <<camx - DX(objectToDir[Player]), camy - DY(objectToDir[Player])>>
      /\ PlayerAt \in Cells
  BY DEF PlayerAt, Behind, Camera, IInv, CameraLeads
<1>6. DX(objectToDir[Player]) \in {-1, 0, 1} /\ DY(objectToDir[Player]) \in {-1, 0, 1}
  BY <1>4, DirFacts
<1>7. w > ViewW => PlayerAt[1] \in (x - 1) .. (x + ViewW)
  BY <1>1, <1>2, <1>5, <1>6 DEF IInv, TypeOK
<1>8. h > ViewH => PlayerAt[2] \in (y - 1) .. (y + ViewH + 1)
  BY <1>1, <1>3, <1>5, <1>6 DEF IInv, TypeOK
<1> QED
  BY <1>5, <1>7, <1>8 DEF Drawn

(* So exactly the player advances, and only while it walks.                *)
LEMMA AdvancingFacts ==
  ASSUME IInv
  PROVE  /\ Standing => Advancing = {} /\ Arriving = {}
         /\ ~Standing => Advancing = {Player}
         /\ ~Standing => Arriving = IF objectToSub[Player] + 1 >= Steps THEN {Player} ELSE {}
<1>1. \A o \in Objects : objectToDir[o] # NoDir => o = Player
  BY DEF IInv, NpcsStand, Objects
<1>2. characterLevel[PlayerAt] = Player
  BY DEF IInv, CameraLeads
<1>3. Standing => Advancing = {}
  BY <1>1 DEF Standing, Advancing
<1>4. ~Standing => Advancing = {Player}
  BY <1>1, <1>2, PlayerDrawn DEF Standing, Advancing, Objects
<1> QED
  BY <1>3, <1>4 DEF Arriving

(* What happens to the grid: the player, and nothing else, changes cells.  *)
LEMMA LevelFacts ==
  ASSUME IInv, DrawMap
  PROVE  /\ Arriving = {} => characterLevel' = characterLevel
         /\ Arriving = {Player} =>
              characterLevel' = [c \in Cells |-> IF c = Camera THEN Player
                                                 ELSE IF c = PlayerAt THEN NoObject
                                                 ELSE characterLevel[c]]
<1> DEFINE arrivals(c) == {o \in Arriving : /\ Behind(c, objectToDir[o]) \in Cells
                                            /\ characterLevel[Behind(c, objectToDir[o])] = o}
<1>1. characterLevel' = [c \in Cells |->
         IF arrivals(c) # {} THEN CHOOSE o \in arrivals(c) : TRUE
         ELSE IF characterLevel[c] \in Arriving THEN NoObject ELSE characterLevel[c]]
  BY DEF DrawMap, DrawCharacters
<1>2. CASE Arriving = {}
  <2>1. \A c : arrivals(c) = {}
    BY <1>2
  <2> HIDE DEF arrivals
  <2>2. characterLevel' = [c \in Cells |-> characterLevel[c]]
    BY <1>1, <1>2, <2>1
  <2> QED
    BY <1>2, <2>2 DEF IInv, TypeOK
<1>3. CASE Arriving = {Player}
  <2>1. ~Standing
    BY <1>3, AdvancingFacts
  <2>2. PICK d \in Dir : d = objectToDir[Player]
    BY <2>1 DEF Standing, IInv, TypeOK, Objects
  <2>3. \A c \in Cells : characterLevel[c] = Player <=> c = PlayerAt
    BY DEF IInv, CameraLeads
  <2>4. PlayerAt = Behind(Camera, d) /\ PlayerAt \in Cells /\ Camera \in Cells
    BY <2>2 DEF PlayerAt, IInv, CameraLeads, TypeOK
  <2>5. \A c \in Cells : Behind(c, d) = Behind(Camera, d) <=> c = Camera
    BY <2>4, DirFacts DEF Behind, Camera, Cells
  <2>6. \A c \in Cells : arrivals(c) = IF c = Camera THEN {Player} ELSE {}
    BY <1>3, <2>2, <2>3, <2>4, <2>5
  <2>7. (CHOOSE o \in {Player} : TRUE) = Player
    OBVIOUS
  <2> HIDE DEF arrivals
  <2> QED
    BY <1>1, <1>3, <2>3, <2>6, <2>7, ObjectAssumption DEF Objects
<1> QED
  BY <1>2, <1>3, ObjectAssumption

(* A tick of the timer preserves the invariant.                            *)
LEMMA DrawMapIInv ==
  ASSUME IInv, DrawMap
  PROVE  IInv'
<1>1. UNCHANGED <<floorPassable, CheckPassable, direction, camx, camy>>
  BY DEF DrawMap, AnalyseMap
<1>2. /\ objectToSub' = [o \in Objects |->
            IF o \in Arriving THEN 0 ELSE IF o \in Advancing THEN objectToSub[o] + 1
            ELSE objectToSub[o]]
      /\ objectToDir' = [o \in Objects |-> IF o \in Arriving THEN NoDir ELSE objectToDir[o]]
  BY DEF DrawMap, DrawCharacters
<1>3. /\ subx' = subx + DX(subdir) /\ suby' = suby + DY(subdir)
      /\ subdir' = IF subx' = 0 /\ suby' = 0 THEN NoDir ELSE subdir
  BY DEF DrawMap, AnalyseMap
<1>4. ViewCentred'
  <2>1. (w > ViewW => x' = x) /\ (h > ViewH => y' = y)
    BY DEF DrawMap, AnalyseMap
  <2> QED
    BY <1>1, <2>1 DEF IInv, ViewCentred
<1>5. x' \in Int /\ y' \in Int
  BY DEF DrawMap, AnalyseMap, IInv, TypeOK
<1>6. NpcsStand'
  BY <1>2 DEF IInv, NpcsStand, Objects
<1>7. objectToDir' \in [Objects -> Dir \cup {NoDir}]
  BY <1>2 DEF IInv, TypeOK
<1>8. objectToSub' \in [Objects -> 0 .. Steps - 1]
  <2>1. \A o \in Objects : o \in Advancing /\ o \notin Arriving => objectToSub[o] + 1 < Steps
    BY DEF IInv, TypeOK, Arriving, Objects
  <2>2. \A o \in Objects : objectToSub[o] \in 0 .. Steps - 1
    BY DEF IInv, TypeOK
  <2>3. \A o \in Objects : objectToSub'[o] \in 0 .. Steps - 1
    BY <1>2, <2>1, <2>2
  <2> QED
    BY <1>2, <2>3
<1>9. TypeOK' /\ CameraLeads' /\ Lockstep'
  <2>1. Camera' = Camera /\ Cells' = Cells /\ Camera \in Cells
    BY <1>1 DEF Camera, Cells, IInv, TypeOK
  <2>2. SUFFICES /\ characterLevel' \in [Cells -> Objects \cup {NoObject}]
                 /\ subdir' \in Dir \cup {NoDir}
                 /\ subx' \in -Steps .. Steps /\ suby' \in -Steps .. Steps
                 /\ CameraLeads' /\ Lockstep'
    <3>1. /\ floorPassable' \in [Cells' -> BOOLEAN] /\ CheckPassable' \in BOOLEAN
          /\ direction' \in Dir
      BY Zenon, <1>1, <2>1 DEF IInv, TypeOK
    <3> QED
      BY Zenon, <1>5, <1>7, <1>8, <2>1, <3>1 DEF TypeOK
  <2>3. CASE Standing
    <3>1. subdir = NoDir /\ subx = 0 /\ suby = 0
      BY <2>3 DEF IInv, Lockstep, Standing, TypeOK
    <3>2. subdir' = NoDir /\ subx' = 0 /\ suby' = 0
      BY <1>3, <3>1, DirFacts
    <3>3. characterLevel' = characterLevel /\ Advancing = {} /\ Arriving = {}
      BY <2>3, AdvancingFacts, LevelFacts
    <3>4. objectToDir'[Player] = NoDir /\ objectToSub'[Player] = 0
      BY <1>2, <2>3, <3>3 DEF IInv, CameraLeads, Standing, Objects
    <3>5. CameraLeads'
      BY <1>1, <2>1, <2>3, <3>3, <3>4 DEF IInv, CameraLeads, PlayerAt, Standing
    <3>6. Lockstep'
      BY <3>2 DEF Lockstep
    <3> QED
      BY <3>2, <3>3, <3>5, <3>6 DEF IInv, TypeOK
  <2>4. CASE ~Standing /\ objectToSub[Player] + 1 < Steps
    <3>1. Advancing = {Player} /\ Arriving = {} /\ characterLevel' = characterLevel
      BY <2>4, AdvancingFacts, LevelFacts DEF IInv, TypeOK, Objects
    <3>2. /\ objectToDir'[Player] = objectToDir[Player]
          /\ objectToSub'[Player] = objectToSub[Player] + 1
      BY <1>2, <3>1 DEF Objects
    <3>3. CameraLeads'
      BY <1>1, <2>1, <2>4, <3>1, <3>2 DEF IInv, CameraLeads, PlayerAt, Standing, FloorIsPassable
    <3>4. objectToSub[Player] \in 0 .. Steps - 1
      BY DEF IInv, TypeOK, Objects
    <3>5. CASE subdir = NoDir
      BY <1>3, <3>1, <3>3, <3>5, DirFacts DEF IInv, TypeOK, Lockstep
    <3>6. CASE subdir # NoDir
      <4>1. subdir \in Dir /\ subdir = objectToDir[Player]
        BY <3>6 DEF IInv, TypeOK, Lockstep
      <4>2. /\ subx = DX(subdir) * (objectToSub[Player] - Steps)
            /\ suby = DY(subdir) * (objectToSub[Player] - Steps)
        BY <3>6 DEF IInv, Lockstep
      <4> DEFINE k == objectToSub[Player] - Steps
      <4>3. objectToSub'[Player] - Steps = k + 1 /\ k \in -Steps .. -2
        BY <2>4, <3>2, <3>4
      <4>4. subx' = DX(subdir) * k + DX(subdir) /\ suby' = DY(subdir) * k + DY(subdir)
        BY <1>3, <4>2
      <4> HIDE DEF k
      <4>5. subx' = DX(subdir) * (k + 1) /\ suby' = DY(subdir) * (k + 1)
        BY <4>1, <4>3, <4>4, DirFacts
      <4>6. /\ ~(subx' = 0 /\ suby' = 0)
            /\ subx' \in -Steps .. Steps /\ suby' \in -Steps .. Steps
        BY <4>1, <4>3, <4>5, DirFacts
      <4>7. subdir' = subdir
        BY <1>3, <4>6
      <4>8. Lockstep'
        BY <3>2, <4>1, <4>3, <4>5, <4>7, DirFacts DEF Lockstep
      <4> QED
        BY <3>1, <3>3, <4>1, <4>6, <4>7, <4>8 DEF IInv, TypeOK
    <3> QED
      BY <3>5, <3>6
  <2>5. CASE ~Standing /\ objectToSub[Player] + 1 >= Steps
    <3>1. Advancing = {Player} /\ Arriving = {Player}
      BY <2>5, AdvancingFacts
    <3>2. characterLevel' = [c \in Cells |-> IF c = Camera THEN Player
                                             ELSE IF c = PlayerAt THEN NoObject
                                             ELSE characterLevel[c]]
      BY <3>1, LevelFacts
    <3>3. objectToDir'[Player] = NoDir /\ objectToSub'[Player] = 0
      BY <1>2, <3>1 DEF Objects
    <3>4. PlayerAt' = Camera
      BY <2>1, <3>3, BehindNoDir DEF PlayerAt
    <3>5. \A c \in Cells : characterLevel'[c] = Player <=> c = Camera
      BY <2>1, <3>2, ObjectAssumption DEF IInv, CameraLeads, Objects
    <3>6. CameraLeads'
      BY <2>1, <3>3, <3>4, <3>5 DEF CameraLeads, Standing
    <3>7. characterLevel' \in [Cells -> Objects \cup {NoObject}]
      BY <3>2 DEF IInv, TypeOK, Objects
    <3>8. objectToSub[Player] = Steps - 1
      BY <2>5 DEF IInv, TypeOK, Objects
    <3>9. subdir' = NoDir /\ subx' = 0 /\ suby' = 0
      <4>1. CASE subdir = NoDir
        BY <1>3, <4>1, DirFacts DEF IInv, Lockstep
      <4>2. CASE subdir # NoDir
        <5>1. subdir \in Dir
          BY <4>2 DEF IInv, TypeOK
        <5>2. subx = DX(subdir) * (-1) /\ suby = DY(subdir) * (-1)
          BY <3>8, <4>2 DEF IInv, Lockstep
        <5> QED
          BY <1>3, <5>1, <5>2, DirFacts
      <4> QED
        BY <4>1, <4>2
    <3>10. Lockstep'
      BY <3>9 DEF Lockstep
    <3> QED
      BY <3>6, <3>7, <3>9, <3>10
  <2>6. objectToSub[Player] \in 0 .. Steps - 1
    BY DEF IInv, TypeOK, Objects
  <2> QED
    BY <2>3, <2>4, <2>5, <2>6
<1> QED
  BY <1>4, <1>6, <1>9 DEF IInv

-----------------------------------------------------------------------------
(* Stuttering changes nothing.                                             *)
LEMMA StutterIInv ==
  ASSUME IInv, UNCHANGED vars
  PROVE  IInv'
<1>1. TypeOK'
  BY DEF IInv, vars, walkVars, camVars, TypeOK, Camera
<1>2. NpcsStand' /\ CameraLeads' /\ Lockstep' /\ ViewCentred'
  BY DEF IInv, vars, walkVars, camVars, Camera, NpcsStand, CameraLeads, Lockstep,
         ViewCentred, Standing, PlayerAt, FloorIsPassable
<1> QED
  BY <1>1, <1>2 DEF IInv

(* The inductive invariant holds in every behaviour.                       *)
THEOREM Invariance == Spec => []IInv
<1>1. Init => IInv
  BY InitIInv
<1>2. IInv /\ [Next]_vars => IInv'
  <2> SUFFICES ASSUME IInv, [Next]_vars PROVE IInv'
    OBVIOUS
  <2>1. CASE DrawMap
    BY <2>1, DrawMapIInv
  <2>2. CASE \E d \in Dir : Move(d)
    BY <2>2, MoveIInv
  <2>3. CASE UNCHANGED vars
    BY <2>3, StutterIInv
  <2> QED
    BY <2>1, <2>2, <2>3 DEF Next
<1> QED
  BY <1>1, <1>2, PTL DEF Spec

(* Every variable keeps its type: the camera and the walking objects stay  *)
(* on the map, the offsets within a tile (Map.cs, CameraX, DrawMap).       *)
THEOREM TypeCorrect == Spec => []TypeOK
<1>1. IInv => TypeOK
  BY DEF IInv
<1> QED
  BY <1>1, Invariance, PTL

(* The camera cell is where the player stands or where it is walking to    *)
(* (PlayScene.Move, Map.MoveCamera, Map.DrawMap).                          *)
THEOREM CameraLeadsAlways == Spec => []CameraLeads
<1>1. IInv => CameraLeads
  BY DEF IInv
<1> QED
  BY <1>1, Invariance, PTL

(* The scroll of the map and the walk of the player end in the same tick   *)
(* (Map.MoveCamera and Map.AnalyseMap against Map.DrawMap).                *)
THEOREM LockstepAlways == Spec => []Lockstep
<1>1. IInv => Lockstep
  BY DEF IInv
<1> QED
  BY <1>1, Invariance, PTL

(* A map larger than the view is centred on the camera as far as its edges *)
(* allow, whichever way the camera came (the CameraX and CameraY setters). *)
THEOREM ViewCentredAlways == Spec => []ViewCentred
<1>1. IInv => ViewCentred
  BY DEF IInv
<1> QED
  BY <1>1, Invariance, PTL

-----------------------------------------------------------------------------
(* What is seen of the player.                                             *)

(* At an edge of the map the centred corner does not depend on the move.   *)
LEMMA EdgeFacts ==
  ASSUME NEW n \in Nat \ {0}, NEW view \in Nat \ {0, 1}, n > view,
         NEW cam \in 0 .. n - 1, NEW delta \in {-1, 1}, cam - delta \in 0 .. n - 1,
         AtEdge(cam, view, n, delta)
  PROVE  Centred(cam, view, n) = Centred(cam - delta, view, n)
BY DEF AtEdge, Corner, Centred

(* The setters stop the scroll only where the view is at an edge.          *)
LEMMA ScrollStopped ==
  ASSUME IInv, NEW d \in Dir, CanWalk(d), Move(d), subdir' = NoDir
  PROVE  IF DX(d) # 0 THEN AtEdge(camx', ViewW, w, DX(d)) ELSE AtEdge(camy', ViewH, h, DY(d))
<1>1. subdir = NoDir /\ Ahead(Camera, d) \in Cells /\ Camera' = Ahead(Camera, d)
  BY CanWalkFacts, StartScrollFacts
<1>2. StartScroll(d)
  BY <1>1 DEF Move, MoveCamera
<1>3. /\ camx \in Int /\ camy \in Int /\ camx' \in 0 .. w - 1 /\ camy' \in 0 .. h - 1
      /\ camx' = camx + DX(d) /\ camy' = camy + DY(d)
  BY <1>1 DEF IInv, TypeOK, Camera, Cells, Ahead
<1>4. Clamp(camx + DX(d), w) = camx' /\ Clamp(camy + DY(d), h) = camy'
  BY <1>3 DEF Clamp
<1> QED
  BY <1>2, <1>4, DirFacts DEF StartScroll

(* The corner is kept while the map stands still.                          *)
LEMMA MoveCornerKept ==
  ASSUME IInv, CornerKept, NEW d \in Dir, Move(d)
  PROVE  CornerKept'
<1>1. CASE ~CanWalk(d)
  BY <1>1 DEF Move, walkVars, camVars, CornerKept, Standing, PlayerAt, Camera
<1>2. CASE CanWalk(d)
  <2> SUFFICES ASSUME subdir' = NoDir
               PROVE  /\ w > ViewW => x' = Centred(PlayerAt'[1], ViewW, w)
                      /\ h > ViewH => y' = Centred(PlayerAt'[2], ViewH, h)
    BY DEF CornerKept
  <2>1. /\ characterLevel[Camera] = Player /\ PlayerAt = Camera
        /\ Ahead(Camera, d) \in Cells /\ Camera' = Ahead(Camera, d)
    BY <1>2, CanWalkFacts, StartScrollFacts
  <2>2. objectToDir'[Player] = d
    BY <1>2, <2>1 DEF Move, IInv, TypeOK, Objects
  <2>3. Camera \in Cells
    BY DEF IInv, TypeOK
  <2>4. PlayerAt' = Camera
    BY <2>1, <2>2, <2>3, BehindAhead DEF PlayerAt
  <2>5. /\ camx \in 0 .. w - 1 /\ camy \in 0 .. h - 1 /\ w \in Int /\ h \in Int
        /\ camx' \in 0 .. w - 1 /\ camy' \in 0 .. h - 1
        /\ camx = camx' - DX(d) /\ camy = camy' - DY(d)
    BY <2>1, <2>3, DirFacts, SizeAssumption DEF Camera, Cells, Ahead
  <2>6. PlayerAt'[1] = camx /\ PlayerAt'[2] = camy
    BY <2>4 DEF Camera
  <2>7. ViewCentred' /\ ViewCentred
    BY MoveIInv DEF IInv
  <2>8. CASE DX(d) # 0
    <3>1. DX(d) \in {-1, 1} /\ DY(d) = 0
      BY <2>8, DirFacts
    <3>2. w > ViewW => Centred(camx', ViewW, w) = Centred(camx, ViewW, w)
      BY <1>2, <2>5, <2>8, <3>1, ScrollStopped, EdgeFacts
    <3>3. camy' = camy
      BY <2>1, <3>1, DirFacts DEF Camera, Ahead, IInv, TypeOK, Cells
    <3> QED
      BY <2>6, <2>7, <3>2, <3>3 DEF ViewCentred
  <2>9. CASE DX(d) = 0
    <3>1. DY(d) \in {-1, 1}
      BY <2>9, DirFacts
    <3>2. h > ViewH => Centred(camy', ViewH, h) = Centred(camy, ViewH, h)
      BY <1>2, <2>5, <2>9, <3>1, ScrollStopped, EdgeFacts
    <3>3. camx' = camx
      BY <2>1, <2>9, DirFacts DEF Camera, Ahead, IInv, TypeOK, Cells
    <3> QED
      BY <2>6, <2>7, <3>2, <3>3 DEF ViewCentred
  <2> QED
    BY <2>8, <2>9
<1> QED
  BY <1>1, <1>2

(* A tick ends the walk and the scroll together, or neither.               *)
LEMMA DrawMapCornerKept ==
  ASSUME IInv, CornerKept, DrawMap
  PROVE  CornerKept'
<1> SUFFICES ASSUME ~Standing', subdir' = NoDir
             PROVE  /\ w > ViewW => x' = Centred(PlayerAt'[1], ViewW, w)
                    /\ h > ViewH => y' = Centred(PlayerAt'[2], ViewH, h)
  BY DEF CornerKept
<1>1. IInv'
  BY DrawMapIInv
<1>2. Player \in Objects
  BY DEF Objects
<1>3. objectToDir'[Player] = objectToDir[Player] /\ Player \notin Arriving
  BY <1>2 DEF DrawMap, DrawCharacters, Standing
<1>4. ~Standing /\ objectToSub'[Player] = objectToSub[Player] + 1
  BY <1>2, <1>3, AdvancingFacts DEF Standing, DrawMap, DrawCharacters
<1>5. subdir = NoDir
  <2> SUFFICES ASSUME subdir # NoDir PROVE FALSE
    OBVIOUS
  <2>1. /\ objectToDir[Player] = subdir /\ subdir \in Dir
        /\ subx = DX(subdir) * (objectToSub[Player] - Steps)
        /\ suby = DY(subdir) * (objectToSub[Player] - Steps)
    BY DEF IInv, Lockstep, TypeOK
  <2>2. subx + DX(subdir) = 0 /\ suby + DY(subdir) = 0
    <3>1. subdir' = IF subx' = 0 /\ suby' = 0 THEN NoDir ELSE subdir
      BY DEF DrawMap, AnalyseMap
    <3>2. subx' = subx + DX(subdir) /\ suby' = suby + DY(subdir)
      BY DEF DrawMap, AnalyseMap
    <3> QED
      BY <3>1, <3>2
  <2>3. objectToSub[Player] \in Int
    BY <1>2 DEF IInv, TypeOK
  <2>4. objectToSub[Player] + 1 = Steps
    <3>1. \/ DX(subdir) \in {-1, 1} /\ DX(subdir) * (objectToSub[Player] - Steps) + DX(subdir) = 0
          \/ DY(subdir) \in {-1, 1} /\ DY(subdir) * (objectToSub[Player] - Steps) + DY(subdir) = 0
      BY <2>1, <2>2, DirFacts
    <3>2. \A e, k \in Int : e \in {-1, 1} /\ e * k + e = 0 => k = -1
      OBVIOUS
    <3>3. objectToSub[Player] - Steps \in Int
      BY <2>3, StepsAssumption
    <3>4. objectToSub[Player] - Steps = -1
      BY <3>1, <3>2, <3>3
    <3> QED
      BY <2>3, <3>4
  <2>5. Player \in Arriving
    BY <1>4, <2>4, AdvancingFacts
  <2> QED
    BY <1>3, <2>5
<1>6. (w > ViewW => x' = x) /\ (h > ViewH => y' = y) /\ Camera' = Camera
  BY DEF DrawMap, AnalyseMap, Camera
<1>7. PlayerAt' = PlayerAt
  BY <1>3, <1>6 DEF PlayerAt
<1> QED
  BY <1>4, <1>5, <1>6, <1>7 DEF CornerKept

(* Between two cells of a view, a walker is within the view.               *)
LEMMA Between ==
  ASSUME NEW a \in Int, NEW b \in Nat, NEW e \in {-1, 0, 1}, NEW n \in Nat, NEW s \in 0 .. n,
         a \in 0 .. b, a + e \in 0 .. b
  PROVE  a * n + e * s \in 0 .. b * n
<1>1. \A p, q \in Nat : p * q \in Nat
  OBVIOUS
<1>2. CASE e = 0
  <2>1. a * n \in Nat /\ (b - a) * n \in Nat
    BY <1>1
  <2>2. (b - a) * n = b * n - a * n /\ e * s = 0
    BY <1>2
  <2> QED
    BY <2>1, <2>2
<1>3. CASE e = 1
  <2>1. a * n \in Nat /\ (b - a - 1) * n \in Nat
    BY <1>1, <1>3
  <2>2. (b - a - 1) * n = b * n - a * n - n /\ e * s = s
    BY <1>3
  <2> QED
    BY <2>1, <2>2
<1>4. CASE e = -1
  <2>1. (a - 1) * n \in Nat /\ (b - a) * n \in Nat
    BY <1>1, <1>4
  <2>2. (a - 1) * n = a * n - n /\ (b - a) * n = b * n - a * n /\ e * s = -s
    BY <1>4
  <2> QED
    BY <2>1, <2>2
<1> QED
  BY <1>2, <1>3, <1>4

(* One axis: the player at p walks to cam = p + e, having come s of n      *)
(* steps; the map scrolls with it, or its corner fits both cells.          *)
LEMMA OnScreen ==
  ASSUME NEW size \in Nat, NEW view \in Nat \ {0, 1}, size > view,
         NEW p \in 0 .. size - 1, NEW e \in {-1, 0, 1}, p + e \in 0 .. size - 1,
         NEW n \in Nat, NEW s \in 0 .. n, NEW off \in Int,
         NEW c \in Int, c = Centred(p + e, view, size),
         \/ off = e * (s - n)
         \/ off = 0 /\ c = Centred(p, view, size)
  PROVE  (p * n + e * s) - (c * n + off) \in 0 .. (view - 1) * n
<1>1. p + e - c \in 0 .. view - 1
  BY DEF Centred
<1>2. CASE off = e * (s - n)
  <2>1. (p + e - c) * n + 0 * s \in 0 .. (view - 1) * n
    BY <1>1, Between
  <2>2. (p + e - c) * n + 0 * s = p * n + e * n - c * n
    OBVIOUS
  <2>3. e * (s - n) = e * s - e * n
    OBVIOUS
  <2> QED
    BY <1>2, <2>1, <2>2, <2>3
<1>3. CASE off = 0 /\ c = Centred(p, view, size)
  <2>1. p - c \in 0 .. view - 1
    BY <1>3 DEF Centred
  <2>2. (p - c) * n + e * s \in 0 .. (view - 1) * n
    <3>1. p - c + e \in 0 .. view - 1 /\ view - 1 \in Nat /\ p - c \in Int
      BY <1>1
    <3> QED
      BY <2>1, <3>1, Between
  <2>3. (p - c) * n = p * n - c * n
    OBVIOUS
  <2> QED
    BY <1>3, <2>2, <2>3
<1> QED
  BY <1>2, <1>3

(* On both axes the view holds the player.                                 *)
LEMMA Seen ==
  ASSUME IInv, CornerKept
  PROVE  PlayerOnScreen
<1> DEFINE d == objectToDir[Player]
           s == objectToSub[Player]
           p == PlayerAt
<1>1. d \in Dir \cup {NoDir} /\ s \in 0 .. Steps /\ Steps \in Nat
  BY StepsAssumption DEF IInv, TypeOK, Objects
<1>2. DX(d) \in {-1, 0, 1} /\ DY(d) \in {-1, 0, 1}
  BY <1>1, DirFacts
<1>3. /\ camx \in 0 .. w - 1 /\ camy \in 0 .. h - 1
      /\ p[1] \in 0 .. w - 1 /\ p[2] \in 0 .. h - 1
      /\ p[1] + DX(d) = camx /\ p[2] + DY(d) = camy
  <2>1. Camera \in Cells /\ p \in Cells
    BY DEF IInv, TypeOK, CameraLeads
  <2>2. p = <<camx - DX(d), camy - DY(d)>>
    BY DEF PlayerAt, Behind, Camera
  <2> QED
    BY <1>2, <2>1, <2>2 DEF Camera, Cells
<1>4. \/ subx = DX(d) * (s - Steps) /\ suby = DY(d) * (s - Steps)
      \/ /\ subx = 0 /\ suby = 0
         /\ w > ViewW => x = Centred(p[1], ViewW, w)
         /\ h > ViewH => y = Centred(p[2], ViewH, h)
  <2>1. CASE subdir # NoDir
    BY <2>1 DEF IInv, Lockstep
  <2>2. CASE subdir = NoDir /\ ~Standing
    BY <2>2 DEF IInv, Lockstep, CornerKept
  <2>3. CASE subdir = NoDir /\ Standing
    <3>1. DX(d) = 0 /\ DY(d) = 0
      BY <2>3, DirFacts DEF Standing
    <3>2. p[1] = camx /\ p[2] = camy
      BY <1>3, <3>1
    <3> QED
      BY <2>3, <3>2 DEF IInv, Lockstep, ViewCentred
  <2> QED
    BY <2>1, <2>2, <2>3
<1>5. x \in Int /\ y \in Int /\ subx \in Int /\ suby \in Int
  BY DEF IInv, TypeOK
<1>6. (w > ViewW => x = Centred(camx, ViewW, w)) /\ (h > ViewH => y = Centred(camy, ViewH, h))
  BY DEF IInv, ViewCentred
<1>7. w \in Nat /\ h \in Nat /\ ViewW \in Nat \ {0, 1} /\ ViewH \in Nat \ {0, 1}
  BY SizeAssumption, ViewAssumption
<1> HIDE DEF d, s, p
<1>8. ASSUME w > ViewW
      PROVE  (p[1] * Steps + DX(d) * s) - (x * Steps + subx) \in 0 .. (ViewW - 1) * Steps
  BY <1>1, <1>2, <1>3, <1>4, <1>5, <1>6, <1>7, <1>8, OnScreen
<1>9. ASSUME h > ViewH
      PROVE  (p[2] * Steps + DY(d) * s) - (y * Steps + suby) \in 0 .. (ViewH - 1) * Steps
  BY <1>1, <1>2, <1>3, <1>4, <1>5, <1>6, <1>7, <1>9, OnScreen
<1>10. PlaceX = p[1] * Steps + DX(d) * s /\ PlaceY = p[2] * Steps + DY(d) * s
  BY DEF PlaceX, PlaceY, d, s, p
<1>11. /\ w > ViewW => ScrollX = x * Steps + subx
       /\ h > ViewH => ScrollY = y * Steps + suby
  BY DEF ScrollX, ScrollY
<1>12. ASSUME w > ViewW PROVE PlayerX \in 0 .. (ViewW - 1) * Steps
  BY <1>8, <1>10, <1>11, <1>12 DEF PlayerX
<1>13. ASSUME h > ViewH PROVE PlayerY \in 0 .. (ViewH - 1) * Steps
  BY <1>9, <1>10, <1>11, <1>13 DEF PlayerY
<1> QED
  BY <1>12, <1>13 DEF PlayerOnScreen

(* The player is inside the view at every moment of a walk, also where the *)
(* map has stopped to scroll (Map.DrawMap with the corrections of the      *)
(* CameraX and CameraY setters).                                           *)
THEOREM PlayerOnScreenAlways == Spec => []PlayerOnScreen
<1>1. Init => CornerKept
  BY DEF Init, CornerKept, Standing, Objects
<1>2. IInv /\ CornerKept /\ [Next]_vars => CornerKept'
  <2> SUFFICES ASSUME IInv, CornerKept, [Next]_vars PROVE CornerKept'
    OBVIOUS
  <2>1. CASE DrawMap
    BY <2>1, DrawMapCornerKept
  <2>2. CASE \E d \in Dir : Move(d)
    BY <2>2, MoveCornerKept
  <2>3. CASE UNCHANGED vars
    BY <2>3 DEF vars, walkVars, camVars, CornerKept, Standing, PlayerAt, Camera
  <2> QED
    BY <2>1, <2>2, <2>3 DEF Next
<1>3. IInv /\ CornerKept => PlayerOnScreen
  BY Seen
<1> QED
  BY <1>1, <1>2, <1>3, Invariance, PTL DEF Spec

(* The camera, the walking object, the scroll and the view agree, on maps  *)
(* and views of every size (the parts of Map.cs above, together).          *)
THEOREM WalkConsistentAlways == Spec => []WalkConsistent
<1>1. TypeOK /\ CameraLeads /\ Lockstep /\ ViewCentred /\ PlayerOnScreen => WalkConsistent
  BY DEF WalkConsistent
<1> QED
  BY <1>1, TypeCorrect, CameraLeadsAlways, LockstepAlways, ViewCentredAlways,
     PlayerOnScreenAlways, PTL

-----------------------------------------------------------------------------
(* What moves on the screen.                                               *)

(* Away from the edges the centred corner follows the camera, ...          *)
LEMMA InnerFacts ==
  ASSUME NEW n \in Nat \ {0}, NEW view \in Nat \ {0, 1}, n > view,
         NEW cam \in 0 .. n - 1, NEW delta \in {-1, 1}, cam - delta \in 0 .. n - 1,
         ~AtEdge(cam, view, n, delta)
  PROVE  Centred(cam, view, n) = Centred(cam - delta, view, n) + delta
BY DEF AtEdge, Corner, Centred

(* ... and a map no larger than the view is all edge.                      *)
LEMMA SmallFacts ==
  ASSUME NEW n \in Nat \ {0}, NEW view \in Nat \ {0, 1}, n <= view,
         NEW cam \in 0 .. n - 1, NEW delta \in {-1, 1}
  PROVE  AtEdge(cam, view, n, delta)
BY DEF AtEdge, Corner

(* The setters let the scroll run only where the view is at no edge.       *)
LEMMA ScrollStarted ==
  ASSUME IInv, NEW d \in Dir, CanWalk(d), Move(d), subdir' # NoDir
  PROVE  IF DX(d) # 0 THEN ~AtEdge(camx', ViewW, w, DX(d)) ELSE ~AtEdge(camy', ViewH, h, DY(d))
<1>1. /\ subdir = NoDir /\ subx = 0 /\ suby = 0
      /\ Ahead(Camera, d) \in Cells /\ Camera' = Ahead(Camera, d)
      /\ ~FloorIsPassable(Ahead(Camera, d))
  BY CanWalkFacts, StartScrollFacts
<1>2. StartScroll(d)
  BY <1>1 DEF Move, MoveCamera
<1>3. /\ camx \in Int /\ camy \in Int /\ camx' \in 0 .. w - 1 /\ camy' \in 0 .. h - 1
      /\ camx' = camx + DX(d) /\ camy' = camy + DY(d)
  BY <1>1 DEF IInv, TypeOK, Camera, Cells, Ahead
<1>4. Clamp(camx + DX(d), w) = camx' /\ Clamp(camy + DY(d), h) = camy'
  BY <1>3 DEF Clamp
<1>5. ~FloorIsPassable(<<camx', camy'>>)
  BY <1>1 DEF Camera
<1> QED
  BY <1>1, <1>2, <1>4, <1>5, DirFacts DEF StartScroll

(* A key moves camera and corner, and nothing that is seen: the offset     *)
(* takes back what the corner gains.                                       *)
LEMMA KeyScroll ==
  ASSUME IInv, NEW d \in Dir, CanWalk(d), Move(d)
  PROVE  ScrollX' = ScrollX /\ ScrollY' = ScrollY
<1>1. /\ Camera \in Cells /\ Ahead(Camera, d) \in Cells /\ Camera' = Ahead(Camera, d)
      /\ subx = 0 /\ suby = 0
  BY CanWalkFacts, StartScrollFacts DEF IInv, TypeOK
<1>2. /\ camx \in 0 .. w - 1 /\ camy \in 0 .. h - 1 /\ camx \in Int /\ camy \in Int
      /\ camx' \in 0 .. w - 1 /\ camy' \in 0 .. h - 1
      /\ camx' - DX(d) = camx /\ camy' - DY(d) = camy
  BY <1>1, DirFacts, SizeAssumption DEF Camera, Cells, Ahead
<1>3. /\ w > ViewW => x = Centred(camx, ViewW, w) /\ x' = Centred(camx', ViewW, w)
      /\ h > ViewH => y = Centred(camy, ViewH, h) /\ y' = Centred(camy', ViewH, h)
  BY MoveIInv DEF IInv, ViewCentred
<1>4. \/ subdir' = NoDir /\ subx' = 0 /\ suby' = 0
      \/ subdir' = d /\ subx' = - DX(d) * Steps /\ suby' = - DY(d) * Steps
  BY StartScrollFacts
<1>5. x \in Int /\ y \in Int /\ Steps \in Int
  BY StepsAssumption DEF IInv, TypeOK
<1>6. CASE subdir' = NoDir
  <2>1. subx' = 0 /\ suby' = 0
    BY <1>4, <1>6, DirFacts
  <2>2. w > ViewW => x' = x
    <3>1. CASE DX(d) # 0
      BY <1>2, <1>3, <1>6, <3>1, ScrollStopped, EdgeFacts, DirFacts
    <3>2. CASE DX(d) = 0
      BY <3>2, StartScrollFacts
    <3> QED
      BY <3>1, <3>2
  <2>3. h > ViewH => y' = y
    <3>1. CASE DX(d) = 0
      BY <1>2, <1>3, <1>6, <3>1, ScrollStopped, EdgeFacts, DirFacts
    <3>2. CASE DX(d) # 0
      BY <3>2, StartScrollFacts
    <3> QED
      BY <3>1, <3>2
  <2> QED
    BY <1>1, <2>1, <2>2, <2>3 DEF ScrollX, ScrollY
<1>7. CASE subdir' # NoDir
  <2>1. subx' = - DX(d) * Steps /\ suby' = - DY(d) * Steps
    BY <1>4, <1>7
  <2>2. CASE DX(d) # 0
    <3>1. DX(d) \in {-1, 1} /\ DY(d) = 0 /\ suby' = 0
      BY <2>1, <2>2, <1>5, DirFacts
    <3>2. ~AtEdge(camx', ViewW, w, DX(d))
      BY <1>7, <2>2, ScrollStarted
    <3>3. w > ViewW
      BY <1>2, <3>1, <3>2, SmallFacts
    <3>4. x' = x + DX(d)
      BY <1>2, <1>3, <3>1, <3>2, <3>3, InnerFacts
    <3>5. x' * Steps + subx' = x * Steps
      BY <1>5, <2>1, <3>1, <3>4
    <3>6. y' = y
      BY <2>2, StartScrollFacts
    <3> QED
      BY <1>1, <1>5, <3>1, <3>3, <3>5, <3>6 DEF ScrollX, ScrollY
  <2>3. CASE DX(d) = 0
    <3>1. DY(d) \in {-1, 1} /\ subx' = 0
      BY <2>1, <2>3, <1>5, DirFacts
    <3>2. ~AtEdge(camy', ViewH, h, DY(d))
      BY <1>7, <2>3, ScrollStarted
    <3>3. h > ViewH
      BY <1>2, <3>1, <3>2, SmallFacts
    <3>4. y' = y + DY(d)
      BY <1>2, <1>3, <3>1, <3>2, <3>3, InnerFacts
    <3>5. y' * Steps + suby' = y * Steps
      BY <1>5, <2>1, <3>1, <3>4
    <3>6. x' = x
      BY <2>3, StartScrollFacts
    <3> QED
      BY <1>1, <1>5, <3>1, <3>3, <3>5, <3>6 DEF ScrollX, ScrollY
  <2> QED
    BY <2>2, <2>3
<1> QED
  BY <1>6, <1>7

(* A tick scrolls by a step, the way the scroll goes.                      *)
LEMMA TickScroll ==
  ASSUME IInv, DrawMap
  PROVE  ScrollX' = ScrollX + DX(subdir) /\ ScrollY' = ScrollY + DY(subdir)
<1>1. /\ subx' = subx + DX(subdir) /\ suby' = suby + DY(subdir)
      /\ w > ViewW => x' = x
      /\ h > ViewH => y' = y
  BY DEF DrawMap, AnalyseMap
<1>2. subdir \in Dir \cup {NoDir} /\ x \in Int /\ y \in Int /\ subx \in Int /\ suby \in Int
  BY DEF IInv, TypeOK
<1>3. DX(subdir) \in Int /\ DY(subdir) \in Int
  BY <1>2, DirFacts
<1>4. x * Steps \in Int /\ y * Steps \in Int
  BY <1>2, StepsAssumption
<1> QED
  BY <1>1, <1>2, <1>3, <1>4 DEF ScrollX, ScrollY

(* A key leaves the player where it is, ...                                *)
LEMMA KeyPlace ==
  ASSUME IInv, NEW d \in Dir, CanWalk(d), Move(d)
  PROVE  PlaceX' = PlaceX /\ PlaceY' = PlaceY
<1>1. /\ Standing /\ characterLevel[Camera] = Player /\ PlayerAt = Camera
      /\ Camera' = Ahead(Camera, d) /\ Camera \in Cells
  BY CanWalkFacts, StartScrollFacts DEF IInv, TypeOK
<1>2. objectToDir'[Player] = d /\ objectToSub'[Player] = 0
  BY <1>1 DEF Move, IInv, TypeOK, Objects
<1>3. PlayerAt' = PlayerAt
  BY <1>1, <1>2, BehindAhead DEF PlayerAt
<1>4. objectToSub[Player] = 0 /\ objectToDir[Player] = NoDir
  BY <1>1 DEF IInv, CameraLeads, Standing
<1>5. /\ DX(objectToDir'[Player]) * objectToSub'[Player] = 0
      /\ DY(objectToDir'[Player]) * objectToSub'[Player] = 0
      /\ DX(objectToDir[Player]) * objectToSub[Player] = 0
      /\ DY(objectToDir[Player]) * objectToSub[Player] = 0
  BY <1>2, <1>4, DirFacts
<1> QED
  BY <1>3, <1>5 DEF PlaceX, PlaceY

(* ... and a tick takes it a step further, also the last one, which puts   *)
(* it on the next cell.                                                    *)
LEMMA TickPlace ==
  ASSUME IInv, DrawMap
  PROVE  /\ PlaceX' = PlaceX + DX(objectToDir[Player])
         /\ PlaceY' = PlaceY + DY(objectToDir[Player])
<1> DEFINE d == objectToDir[Player]
           s == objectToSub[Player]
<1>1. Player \in Objects
  BY DEF Objects
<1>2. d \in Dir \cup {NoDir} /\ s \in 0 .. Steps - 1 /\ s \in Int /\ Steps \in Int
  BY <1>1, StepsAssumption DEF IInv, TypeOK
<1>3. DX(d) \in {-1, 0, 1} /\ DY(d) \in {-1, 0, 1}
  BY <1>2, DirFacts
<1>4. /\ camx \in Int /\ camy \in Int /\ Camera' = Camera /\ Camera \in Cells
      /\ PlayerAt[1] = camx - DX(d) /\ PlayerAt[2] = camy - DY(d)
  BY DEF DrawMap, AnalyseMap, Camera, Cells, PlayerAt, Behind, IInv, TypeOK
<1>5. /\ objectToSub' = [o \in Objects |->
            IF o \in Arriving THEN 0 ELSE IF o \in Advancing THEN objectToSub[o] + 1
            ELSE objectToSub[o]]
      /\ objectToDir' = [o \in Objects |-> IF o \in Arriving THEN NoDir ELSE objectToDir[o]]
  BY DEF DrawMap, DrawCharacters
<1>6. CASE Standing
  <2>1. objectToDir'[Player] = NoDir /\ objectToSub'[Player] = s /\ d = NoDir
    BY <1>1, <1>5, <1>6, AdvancingFacts DEF Standing
  <2>2. PlayerAt' = PlayerAt
    BY <1>4, <2>1 DEF PlayerAt
  <2>3. DX(d) = 0 /\ DY(d) = 0
    BY <2>1, DirFacts
  <2> QED
    BY <1>2, <1>4, <2>1, <2>2, <2>3 DEF PlaceX, PlaceY
<1>7. CASE ~Standing /\ s + 1 < Steps
  <2>1. objectToDir'[Player] = d /\ objectToSub'[Player] = s + 1
    BY <1>1, <1>2, <1>5, <1>7, AdvancingFacts
  <2>2. PlayerAt' = PlayerAt
    BY <1>4, <2>1 DEF PlayerAt
  <2>3. DX(d) * (s + 1) = DX(d) * s + DX(d) /\ DY(d) * (s + 1) = DY(d) * s + DY(d)
    BY <1>2, <1>3
  <2> QED
    BY <1>2, <1>3, <1>4, <2>1, <2>2, <2>3 DEF PlaceX, PlaceY
<1>8. CASE ~Standing /\ s + 1 >= Steps
  <2>1. objectToDir'[Player] = NoDir /\ objectToSub'[Player] = 0 /\ s = Steps - 1
    BY <1>1, <1>2, <1>5, <1>8, AdvancingFacts
  <2>2. PlayerAt' = Camera
    BY <1>4, <2>1, BehindNoDir DEF PlayerAt
  <2>3. PlayerAt'[1] = camx /\ PlayerAt'[2] = camy
    BY <2>2 DEF Camera
  <2>4. PlaceX' = camx * Steps /\ PlaceY' = camy * Steps
    BY <1>2, <1>4, <2>1, <2>3, DirFacts DEF PlaceX, PlaceY
  <2>5. /\ (camx - DX(d)) * Steps + DX(d) * s + DX(d) = camx * Steps
        /\ (camy - DY(d)) * Steps + DY(d) * s + DY(d) = camy * Steps
    BY <1>2, <1>3, <1>4, <2>1
  <2> QED
    BY <1>4, <2>4, <2>5 DEF PlaceX, PlaceY
<1> QED
  BY <1>2, <1>6, <1>7, <1>8

(* Places and offsets are whole numbers.                                   *)
LEMMA ScreenInt ==
  ASSUME IInv
  PROVE  ScrollX \in Int /\ ScrollY \in Int /\ PlaceX \in Int /\ PlaceY \in Int
<1>1. x \in Int /\ y \in Int /\ subx \in Int /\ suby \in Int /\ Steps \in Int
  BY StepsAssumption DEF IInv, TypeOK
<1>2. objectToDir[Player] \in Dir \cup {NoDir} /\ objectToSub[Player] \in Int
  BY DEF IInv, TypeOK, Objects
<1>3. DX(objectToDir[Player]) \in Int /\ DY(objectToDir[Player]) \in Int
  BY <1>2, DirFacts
<1>4. PlayerAt[1] \in Int /\ PlayerAt[2] \in Int
  BY <1>3 DEF IInv, CameraLeads, Cells
<1>5. x * Steps \in Int /\ y * Steps \in Int
  BY <1>1
<1>6. ScrollX \in Int /\ ScrollY \in Int
  BY <1>1, <1>5 DEF ScrollX, ScrollY
<1>7. /\ PlayerAt[1] * Steps \in Int /\ PlayerAt[2] * Steps \in Int
      /\ DX(objectToDir[Player]) * objectToSub[Player] \in Int
      /\ DY(objectToDir[Player]) * objectToSub[Player] \in Int
  BY <1>1, <1>2, <1>3, <1>4
<1> QED
  BY <1>6, <1>7 DEF PlaceX, PlaceY

(* Of two places that move by at most a step, one with the other or alone, *)
(* the difference moves by at most a step.                                 *)
LEMMA NearFacts ==
  ASSUME NEW place \in Int, NEW scroll \in Int, NEW e \in -1 .. 1, NEW g \in {0, e}
  PROVE  /\ Near(scroll + g, scroll)
         /\ Near((place + e) - (scroll + g), place - scroll)
BY DEF Near

(* In a step of the map nothing seen moves by more than a step.            *)
LEMMA StepNear ==
  ASSUME IInv, [Next]_vars
  PROVE  /\ Near(ScrollX', ScrollX) /\ Near(ScrollY', ScrollY)
         /\ Near(PlayerX', PlayerX) /\ Near(PlayerY', PlayerY)
<1>1. ScrollX \in Int /\ ScrollY \in Int /\ PlaceX \in Int /\ PlaceY \in Int
  BY ScreenInt
<1>2. /\ PlayerX = PlaceX - ScrollX /\ PlayerX' = PlaceX' - ScrollX'
      /\ PlayerY = PlaceY - ScrollY /\ PlayerY' = PlaceY' - ScrollY'
  BY DEF PlayerX, PlayerY
<1>3. CASE /\ ScrollX' = ScrollX /\ ScrollY' = ScrollY
           /\ PlaceX' = PlaceX /\ PlaceY' = PlaceY
  <2>1. /\ Near(ScrollX, ScrollX) /\ Near(PlaceX - ScrollX, PlaceX - ScrollX)
        /\ Near(ScrollY, ScrollY) /\ Near(PlaceY - ScrollY, PlaceY - ScrollY)
    BY <1>1 DEF Near
  <2>2. PlayerX' = PlaceX - ScrollX /\ PlayerY' = PlaceY - ScrollY
    BY Zenon, <1>2, <1>3
  <2> QED
    BY Zenon, <1>2, <1>3, <2>1, <2>2
<1>4. CASE DrawMap
  <2>1. /\ ScrollX' = ScrollX + DX(subdir) /\ ScrollY' = ScrollY + DY(subdir)
        /\ PlaceX' = PlaceX + DX(objectToDir[Player])
        /\ PlaceY' = PlaceY + DY(objectToDir[Player])
    BY <1>4, TickScroll, TickPlace
  <2>2. subdir = NoDir \/ subdir = objectToDir[Player]
    BY DEF IInv, Lockstep
  <2>3. objectToDir[Player] \in Dir \cup {NoDir}
    BY DEF IInv, TypeOK, Objects
  <2>4. /\ DX(objectToDir[Player]) \in -1 .. 1 /\ DY(objectToDir[Player]) \in -1 .. 1
        /\ DX(subdir) \in {0, DX(objectToDir[Player])}
        /\ DY(subdir) \in {0, DY(objectToDir[Player])}
    BY <2>2, <2>3, DirFacts
  <2>5. /\ Near(ScrollX + DX(subdir), ScrollX) /\ Near(ScrollY + DY(subdir), ScrollY)
        /\ Near((PlaceX + DX(objectToDir[Player])) - (ScrollX + DX(subdir)), PlaceX - ScrollX)
        /\ Near((PlaceY + DY(objectToDir[Player])) - (ScrollY + DY(subdir)), PlaceY - ScrollY)
    BY <1>1, <2>4, NearFacts
  <2> QED
    BY <1>2, <2>1, <2>5
<1>5. ASSUME NEW d \in Dir, Move(d), CanWalk(d)
      PROVE  /\ ScrollX' = ScrollX /\ ScrollY' = ScrollY
             /\ PlaceX' = PlaceX /\ PlaceY' = PlaceY
  BY <1>5, KeyScroll, KeyPlace
<1>6. ASSUME UNCHANGED <<walkVars, camVars>>
      PROVE  /\ ScrollX' = ScrollX /\ ScrollY' = ScrollY
             /\ PlaceX' = PlaceX /\ PlaceY' = PlaceY
  BY <1>6 DEF walkVars, camVars, ScrollX, ScrollY, PlaceX, PlaceY, PlayerAt, Camera
<1>7. ASSUME NEW d \in Dir, Move(d), ~CanWalk(d)
      PROVE  UNCHANGED <<walkVars, camVars>>
  BY <1>7 DEF Move
<1>8. UNCHANGED vars => UNCHANGED <<walkVars, camVars>>
  BY DEF vars
<1> QED
  BY <1>3, <1>4, <1>5, <1>6, <1>7, <1>8 DEF Next

(* Neither the view nor the player in it ever jumps (MoveCamera and the    *)
(* setters move the camera and the corner by a tile at once, DrawMap the   *)
(* object by a tile when it arrives).                                      *)
THEOREM NothingJumps == Spec => NoJump
<1>1. IInv /\ [Next]_vars =>
        [/\ Near(ScrollX', ScrollX) /\ Near(ScrollY', ScrollY)
         /\ Near(PlayerX', PlayerX) /\ Near(PlayerY', PlayerY)]_vars
  BY StepNear
<1> QED
  BY <1>1, Invariance, PTL DEF Spec, NoJump

-----------------------------------------------------------------------------
(* The refinement of GridWalk.                                             *)

(* The refinement mapping reads the player's cell off the grid.            *)
LEMMA PlayerCellFacts ==
  ASSUME IInv
  PROVE  PlayerCell = PlayerAt
BY DEF PlayerCell, IInv, CameraLeads

(* A step to the next cell is a step to an adjacent one.                   *)
LEMMA AheadAdjacent ==
  ASSUME NEW c \in Cells, NEW d \in Dir
  PROVE  Walk!Adjacent(c, Ahead(c, d)) /\ Ahead(c, d) # c
BY DirFacts DEF Walk!Adjacent, Ahead, Cells

(* No step of the map changes the cells of the objects, so the free cells  *)
(* of the abstract grid are fixed.                                         *)
LEMMA NpcCells ==
  ASSUME IInv, [Next]_vars, NEW c \in Cells
  PROVE  (characterLevel[c] \in Npcs \/ characterLevel'[c] \in Npcs)
           => characterLevel'[c] = characterLevel[c]
<1>1. CASE DrawMap
  <2>1. CASE Arriving = {}
    BY <1>1, <2>1, LevelFacts
  <2>2. CASE Arriving # {}
    <3>1. ~Standing /\ Arriving = {Player}
      BY <2>2, AdvancingFacts
    <3>2. characterLevel'[c] = IF c = Camera THEN Player
                               ELSE IF c = PlayerAt THEN NoObject ELSE characterLevel[c]
      BY <1>1, <3>1, LevelFacts
    <3>3. characterLevel[Camera] = NoObject /\ characterLevel[PlayerAt] = Player
      BY <3>1 DEF IInv, CameraLeads
    <3> QED
      BY <3>2, <3>3 DEF Objects
  <2> QED
    BY <2>1, <2>2
<1>2. CASE \E d \in Dir : Move(d)
  BY <1>2 DEF Move
<1>3. CASE UNCHANGED vars
  BY <1>3 DEF vars
<1> QED
  BY <1>1, <1>2, <1>3 DEF Next

(* The player never moves, erases or duplicates another object (DrawMap    *)
(* writes two cells of characterLevel without looking at them).            *)
THEOREM NpcsSafe == Spec => NpcsUndisturbed
<1>1. IInv /\ [Next]_vars =>
        [\A c \in Cells : characterLevel[c] \in Npcs \/ characterLevel'[c] \in Npcs
           => characterLevel'[c] = characterLevel[c]]_vars
  BY NpcCells
<1> QED
  BY <1>1, Invariance, PTL DEF Spec, NpcsUndisturbed

(* No step makes a cell free or takes it.                                    *)
LEMMA FreeFixed ==
  ASSUME IInv, IInv', [Next]_vars
  PROVE  FreeCells' = FreeCells
<1>1. floorPassable' = floorPassable
  BY DEF Next, DrawMap, Move, vars
<1>2. \A c \in Cells : characterLevel'[c] \in Npcs <=> characterLevel[c] \in Npcs
  BY NpcCells
<1> QED
  BY <1>1, <1>2 DEF FreeCells, FloorIsPassable, Cells

(* The player begins on the grid where the abstract walker does.             *)
LEMMA InitRefines == Init => Walk!GridInit
<1> SUFFICES ASSUME Init PROVE Walk!GridInit
  OBVIOUS
<1>1. IInv /\ objectToDir[Player] = NoDir
  BY InitIInv DEF Init, Objects
<1>2. Camera = <<0, 0>> /\ Camera \in Cells
  BY DEF Init, Camera, Cells
<1>3. PlayerCell = <<0, 0>>
  BY <1>1, <1>2, PlayerCellFacts, BehindNoDir DEF PlayerAt
<1>4. FreeCells \subseteq Walk!Grid
  BY DEF FreeCells, Walk!Grid, Cells
<1> QED
  BY <1>2, <1>3, <1>4 DEF Walk!GridInit

(* A step moves the player to a free neighbouring cell, or not at all.       *)
LEMMA StepRefines ==
  ASSUME IInv, IInv', [Next]_vars
  PROVE  [Walk!GridNext]_(Walk!gridVars)
<1>1. PlayerCell = PlayerAt /\ PlayerCell' = PlayerAt'
  <2>1. PlayerCell' = PlayerAt'
    BY DEF PlayerCell, IInv, CameraLeads
  <2> QED
    BY <2>1, PlayerCellFacts
<1>2. FreeCells' = FreeCells
  BY FreeFixed
<1>3. Camera \in Cells
  BY DEF IInv, TypeOK
<1>4. CASE DrawMap
  <2>1. Camera' = Camera
    BY <1>4 DEF DrawMap, AnalyseMap, Camera
  <2>2. CASE objectToDir'[Player] = objectToDir[Player]
    BY <1>1, <1>2, <2>1, <2>2 DEF PlayerAt, Walk!gridVars
  <2>3. CASE objectToDir'[Player] # objectToDir[Player]
    <3>1. Player \in Arriving
      BY <1>4, <2>3 DEF DrawMap, DrawCharacters, Objects
    <3>2. ~Standing /\ objectToDir'[Player] = NoDir
      BY <1>4, <3>1 DEF DrawMap, DrawCharacters, Objects, Arriving, Advancing, Standing
    <3>3. PlayerAt' = Camera
      BY <1>3, <2>1, <3>2, BehindNoDir DEF PlayerAt
    <3>4. PlayerAt # Camera
      BY <3>2, ObjectAssumption DEF IInv, CameraLeads, Objects
    <3> QED
      BY <1>1, <1>2, <2>1, <3>3, <3>4 DEF Walk!GridNext, Walk!Arrive
  <2> QED
    BY <2>2, <2>3
<1>5. ASSUME NEW d \in Dir, Move(d)
      PROVE  [Walk!GridNext]_(Walk!gridVars)
  <2>1. CASE ~CanWalk(d)
    <3>1. UNCHANGED <<Camera, PlayerAt>>
      BY <1>5, <2>1 DEF Move, walkVars, camVars, Camera, PlayerAt
    <3> QED
      BY <1>1, <1>2, <3>1 DEF Walk!gridVars
  <2>2. CASE CanWalk(d)
    <3>1. /\ PlayerAt = Camera
          /\ Ahead(Camera, d) \in Cells /\ characterLevel[Ahead(Camera, d)] = NoObject
          /\ ~FloorIsPassable(Ahead(Camera, d))
          /\ characterLevel[Camera] = Player
      BY <2>2, CanWalkFacts
    <3>2. Ahead(Camera, d) \in FreeCells
      BY <3>1, ObjectAssumption DEF FreeCells, Objects
    <3>3. Camera' = Ahead(Camera, d)
      BY <1>5, <2>2, StartScrollFacts
    <3>4. PlayerAt' = Camera
      <4>1. objectToDir'[Player] = d
        BY <1>5, <2>2, <3>1 DEF Move, IInv, TypeOK, Objects
      <4> QED
        BY <1>3, <3>3, <4>1, BehindAhead DEF PlayerAt
    <3> QED
      BY <1>1, <1>2, <1>3, <3>1, <3>2, <3>3, <3>4, AheadAdjacent
      DEF Walk!GridNext, Walk!Commit
  <2> QED
    BY <2>1, <2>2
<1>6. CASE UNCHANGED vars
  BY <1>1, <1>2, <1>6 DEF vars, walkVars, camVars, Camera, PlayerAt, Walk!gridVars
<1> QED
  BY <1>4, <1>5, <1>6 DEF Next

(* Every behaviour of the map is a walk of GridWalk: free cells only, one  *)
(* at a time, no turning round half way (PlayScene.Move with Map).         *)
THEOREM Refines == Spec => IsGridWalk
<1>1. Init => Walk!GridInit
  BY InitRefines
<1>2. IInv /\ IInv' /\ [Next]_vars => [Walk!GridNext]_(Walk!gridVars)
  BY StepRefines
<1> QED
  BY <1>1, <1>2, Invariance, PTL DEF Spec, IsGridWalk, Walk!GridSpec

-----------------------------------------------------------------------------
(* The scan.                                                               *)

(* The least of a set of numbers. *)
LEMMA LeastOf ==
  ASSUME NEW S \in SUBSET Nat, S # {}
  PROVE  \E n \in S : \A m \in S : n <= m
<1> DEFINE R == {p \in Nat \X Nat : p[1] < p[2]}
<1>1. IsWellFoundedOn(R, Nat)
  BY NatLessThanWellFounded DEF OpToRel
<1>2. PICK n \in S : \A m \in S : <<m, n>> \notin R
  <2> HIDE DEF R
  <2> QED BY <1>1, WFMin
<1>3. \A m \in S : ~(m < n)
  BY <1>2
<1> QED BY <1>3

(* Two loops that begin alike and do the same end alike.                   *)
Alike(f, g, lo, hi) ==
  f[lo] = g[lo] /\ \A c \in lo + 1 .. hi : f[c - 1] = g[c - 1] => f[c] = g[c]

(* By induction over the round. *)
LEMMA SameLoop ==
  ASSUME NEW lo \in Int, NEW hi \in Int, lo <= hi, NEW f, NEW g, Alike(f, g, lo, hi)
  PROVE  f[hi] = g[hi]
<1> USE DEF Alike
<1> DEFINE Bad == {n \in Nat : n <= hi - lo /\ f[lo + n] # g[lo + n]}
<1>1. Bad = {}
  <2> SUFFICES ASSUME Bad # {} PROVE FALSE
    OBVIOUS
  <2>1. \E n \in Bad : \A m \in Bad : n <= m
    <3>1. Bad \in SUBSET Nat
      OBVIOUS
    <3> HIDE DEF Bad
    <3> QED BY <3>1, LeastOf
  <2>2. PICK n \in Bad : \A m \in Bad : n <= m
    BY <2>1
  <2>3. n \in Nat /\ n <= hi - lo /\ f[lo + n] # g[lo + n]
    OBVIOUS
  <2>4. n # 0
    BY <2>3
  <2>5. n - 1 \in Nat /\ n - 1 <= hi - lo /\ ~(n <= n - 1) /\ lo + n \in lo + 1 .. hi /\ (lo + n) - 1 = lo + (n - 1)
    BY <2>3, <2>4
  <2>6. f[(lo + n) - 1] = g[(lo + n) - 1]
    BY <2>2, <2>5
  <2> QED BY <2>3, <2>5, <2>6
<1>2. \A n \in Nat : n <= hi - lo => f[lo + n] = g[lo + n]
  BY <1>1
<1>3. hi - lo \in Nat /\ hi - lo <= hi - lo /\ lo + (hi - lo) = hi
  OBVIOUS
<1>4. f[lo + (hi - lo)] = g[lo + (hi - lo)]
  BY <1>2, <1>3
<1> QED BY <1>3, <1>4

(* What the visits of a row leave, one after another.                      *)
Visits(g, s, yy) ==
  /\ g = [xx \in LeftMost .. RightMost |-> g[xx]]
  /\ g[LeftMost] = s
  /\ \A xx \in LeftMost + 1 .. RightMost : g[xx] = Visit(<<xx - 1, yy>>, g[xx - 1])

(* The last one leaves what the row leaves. *)
LEMMA RowIs ==
  ASSUME NEW s, NEW yy, NEW g, LeftMost \in Int, RightMost \in Int, LeftMost <= RightMost, Visits(g, s, yy)
  PROVE  ScanRow(s, yy) = g[RightMost]
<1> USE DEF Visits
<1> DEFINE Loop(f) == f = [xx \in LeftMost .. RightMost |-> IF xx = LeftMost THEN s ELSE Visit(<<xx - 1, yy>>, f[xx - 1])]
           at == CHOOSE f : Loop(f)
<1>1. ScanRow(s, yy) = at[RightMost]
  BY DEF ScanRow
<1>2. Loop(g)
  <2>1. \A xx \in LeftMost .. RightMost : g[xx] = IF xx = LeftMost THEN s ELSE Visit(<<xx - 1, yy>>, g[xx - 1])
    <3>1. \A xx \in LeftMost .. RightMost : xx = LeftMost \/ xx \in LeftMost + 1 .. RightMost
      OBVIOUS
    <3> QED BY <3>1
  <2> QED BY <2>1, Zenon
<1>3. Loop(at)
  BY <1>2, Zenon
<1> HIDE DEF at
<1>4. at[LeftMost] = g[LeftMost]
  BY <1>3
<1>5. ASSUME NEW xx \in LeftMost + 1 .. RightMost, at[xx - 1] = g[xx - 1] PROVE at[xx] = g[xx]
  <2>1. xx \in LeftMost .. RightMost /\ xx # LeftMost
    OBVIOUS
  <2>2. at[xx] = Visit(<<xx - 1, yy>>, at[xx - 1])
    BY <1>3, <2>1
  <2> QED BY <1>5, <2>2
<1>6. Alike(at, g, LeftMost, RightMost)
  BY <1>4, <1>5 DEF Alike
<1>7. at[RightMost] = g[RightMost]
  BY <1>6, SameLoop
<1> QED BY <1>1, <1>7

(* All rows, given what each of them leaves.                               *)
LEMMA RowsAre ==
  ASSUME NEW s, NEW g, TopMost \in Int, BottomMost \in Int, TopMost <= BottomMost,
         g = [yy \in TopMost .. BottomMost |-> g[yy]], g[TopMost] = s,
         \A yy \in TopMost + 1 .. BottomMost : g[yy] = ScanRow(g[yy - 1], yy - 1)
  PROVE  Scan(s) = g[BottomMost]
<1> DEFINE Loop(f) == f = [yy \in TopMost .. BottomMost |-> IF yy = TopMost THEN s ELSE ScanRow(f[yy - 1], yy - 1)]
           at == CHOOSE f : Loop(f)
<1>1. Scan(s) = at[BottomMost]
  BY DEF Scan
<1>2. Loop(g)
  <2>1. \A yy \in TopMost .. BottomMost : g[yy] = IF yy = TopMost THEN s ELSE ScanRow(g[yy - 1], yy - 1)
    <3>1. \A yy \in TopMost .. BottomMost : yy = TopMost \/ yy \in TopMost + 1 .. BottomMost
      OBVIOUS
    <3> QED BY <3>1
  <2> QED BY <2>1, Zenon
<1>3. Loop(at)
  BY <1>2, Zenon
<1> HIDE DEF at
<1>4. at[TopMost] = g[TopMost]
  BY <1>3
<1>5. ASSUME NEW yy \in TopMost + 1 .. BottomMost, at[yy - 1] = g[yy - 1] PROVE at[yy] = g[yy]
  <2>1. yy \in TopMost .. BottomMost /\ yy # TopMost
    OBVIOUS
  <2>2. at[yy] = ScanRow(at[yy - 1], yy - 1)
    BY <1>3, <2>1
  <2> QED BY <1>5, <2>2
<1>6. Alike(at, g, TopMost, BottomMost)
  BY <1>4, <1>5 DEF Alike
<1>7. at[BottomMost] = g[BottomMost]
  BY <1>6, SameLoop
<1> QED BY <1>1, <1>7

(* The grid when the player's cell has been visited.                       *)
Visited == Visit(PlayerAt, Grid)

(* It is the one DrawMap leaves.                                           *)
LEMMA VisitedIs ==
  ASSUME IInv, DrawMap
  PROVE  Grid' = Visited
<1>1. /\ characterLevel \in [Cells -> Objects \cup {NoObject}] /\ objectToDir \in [Objects -> Dir \cup {NoDir}]
      /\ objectToSub \in [Objects -> 0 .. Steps - 1] /\ PlayerAt \in Cells /\ Player \in Objects /\ Player # NoObject
      /\ Grid.level = characterLevel /\ Grid.dir = objectToDir /\ Grid.sub = objectToSub
  BY DEF IInv, TypeOK, CameraLeads, Objects, Grid
<1>2. characterLevel[PlayerAt] = Player
  BY <1>1 DEF IInv, CameraLeads
<1>3. /\ objectToSub' = [o \in Objects |->
           IF o \in Arriving THEN 0 ELSE IF o \in Advancing THEN objectToSub[o] + 1 ELSE objectToSub[o]]
      /\ objectToDir' = [o \in Objects |-> IF o \in Arriving THEN NoDir ELSE objectToDir[o]]
  BY DEF DrawMap, DrawCharacters
<1>4. Grid' = [level |-> characterLevel', dir |-> objectToDir', sub |-> objectToSub']
  BY DEF Grid
<1>5. CASE Standing
  <2>1. Visited = Grid
    BY <1>1, <1>2, <1>5 DEF Visited, Visit, Standing
  <2>2. Advancing = {} /\ Arriving = {} /\ characterLevel' = characterLevel
    BY <1>5, AdvancingFacts, LevelFacts
  <2>3. objectToSub' = objectToSub /\ objectToDir' = objectToDir
    BY <1>1, <1>3, <2>2
  <2> QED BY <1>4, <2>1, <2>2, <2>3 DEF Grid
<1>6. CASE ~Standing /\ objectToSub[Player] + 1 < Steps
  <2>1. Visited = [Grid EXCEPT !.sub[Player] = @ + 1]
    BY <1>1, <1>2, <1>6 DEF Visited, Visit, Standing
  <2>2. Visited = [level |-> characterLevel, dir |-> objectToDir, sub |-> [objectToSub EXCEPT ![Player] = @ + 1]]
    BY <2>1 DEF Grid
  <2>3. Advancing = {Player} /\ Arriving = {}
    <3>1. ~(objectToSub[Player] + 1 >= Steps)
      BY <1>1, <1>6
    <3> QED BY <1>6, <3>1, AdvancingFacts
  <2>4. characterLevel' = characterLevel
    BY <2>3, LevelFacts
  <2>5. objectToSub' = [objectToSub EXCEPT ![Player] = @ + 1] /\ objectToDir' = objectToDir
    BY <1>1, <1>3, <2>3
  <2> QED BY <1>4, <2>2, <2>4, <2>5
<1>7. CASE ~Standing /\ ~(objectToSub[Player] + 1 < Steps)
  <2>1. PICK d \in Dir : d = objectToDir[Player]
    BY <1>1, <1>7 DEF Standing
  <2>2. Ahead(PlayerAt, d) = Camera
    BY <1>1, <2>1, DirFacts DEF PlayerAt, Ahead, Behind, Camera, IInv, TypeOK, Cells
  <2>3. Visited = [Grid EXCEPT !.level[PlayerAt] = NoObject, !.level[Ahead(PlayerAt, d)] = Player,
                               !.dir[Player] = NoDir, !.sub[Player] = 0]
    BY <1>1, <1>2, <1>7, <2>1 DEF Visited, Visit, Standing
  <2>4. Visited = [level |-> [characterLevel EXCEPT ![PlayerAt] = NoObject, ![Camera] = Player],
                   dir |-> [objectToDir EXCEPT ![Player] = NoDir], sub |-> [objectToSub EXCEPT ![Player] = 0]]
    BY <2>2, <2>3 DEF Grid
  <2>5. Advancing = {Player} /\ Arriving = {Player}
    <3>1. objectToSub[Player] + 1 >= Steps
      BY <1>1, <1>7
    <3> QED BY <1>7, <3>1, AdvancingFacts
  <2>6. characterLevel' = [c \in Cells |-> IF c = Camera THEN Player ELSE IF c = PlayerAt THEN NoObject ELSE characterLevel[c]]
    BY <2>5, LevelFacts
  <2>7. characterLevel' = [characterLevel EXCEPT ![PlayerAt] = NoObject, ![Camera] = Player]
    BY <1>1, <2>6
  <2>8. objectToSub' = [objectToSub EXCEPT ![Player] = 0] /\ objectToDir' = [objectToDir EXCEPT ![Player] = NoDir]
    BY <1>1, <1>3, <2>5
  <2> QED BY <1>4, <2>4, <2>7, <2>8
<1> QED BY <1>5, <1>6, <1>7

(* Nobody else is met who walks, neither before nor afterwards.            *)
LEMMA VisitNobody ==
  ASSUME IInv, NEW c \in Cells, c # PlayerAt
  PROVE  Visit(c, Grid) = Grid /\ Visit(c, Visited) = Visited
<1>1. /\ characterLevel \in [Cells -> Objects \cup {NoObject}] /\ objectToDir \in [Objects -> Dir \cup {NoDir}]
      /\ objectToSub \in [Objects -> 0 .. Steps - 1] /\ PlayerAt \in Cells /\ Player \in Objects /\ Player # NoObject
      /\ Grid.level = characterLevel /\ Grid.dir = objectToDir /\ Grid.sub = objectToSub
  BY DEF IInv, TypeOK, CameraLeads, Objects, Grid
<1>2. characterLevel[PlayerAt] = Player /\ characterLevel[c] # Player
  BY <1>1 DEF IInv, CameraLeads
<1>3. characterLevel[c] = NoObject \/ (characterLevel[c] # NoObject /\ objectToDir[characterLevel[c]] = NoDir)
  BY <1>1, <1>2 DEF IInv, NpcsStand, Objects
<1>4. Visit(c, Grid) = Grid
  BY <1>1, <1>3 DEF Visit
<1>5. CASE Standing
  <2>1. Visited = Grid
    BY <1>1, <1>2, <1>5 DEF Visited, Visit, Standing
  <2> QED BY <1>4, <2>1
<1>6. CASE ~Standing /\ objectToSub[Player] + 1 < Steps
  <2>1. Visited = [Grid EXCEPT !.sub[Player] = @ + 1]
    BY <1>1, <1>2, <1>6 DEF Visited, Visit, Standing
  <2>2. Visited.level = characterLevel /\ Visited.dir = objectToDir
    BY <1>1, <2>1 DEF Grid
  <2>3. Visit(c, Visited) = Visited
    BY <1>3, <2>2 DEF Visit
  <2> QED BY <1>4, <2>3
<1>7. CASE ~Standing /\ ~(objectToSub[Player] + 1 < Steps)
  <2>1. PICK d \in Dir : d = objectToDir[Player]
    BY <1>1, <1>7 DEF Standing
  <2>2. Visited = [Grid EXCEPT !.level[PlayerAt] = NoObject, !.level[Ahead(PlayerAt, d)] = Player,
                               !.dir[Player] = NoDir, !.sub[Player] = 0]
    BY <1>1, <1>2, <1>7, <2>1 DEF Visited, Visit, Standing
  <2>3. /\ Visited.level = [characterLevel EXCEPT ![PlayerAt] = NoObject, ![Ahead(PlayerAt, d)] = Player]
        /\ Visited.dir = [objectToDir EXCEPT ![Player] = NoDir]
    BY <2>2 DEF Grid
  <2>4. Visited.level[c] = Player \/ Visited.level[c] = characterLevel[c]
    BY <1>1, <2>3
  <2>5. Visited.dir[Player] = NoDir /\ (characterLevel[c] # NoObject => Visited.dir[characterLevel[c]] = NoDir)
    BY <1>1, <1>3, <2>3
  <2>6. Visit(c, Visited) = Visited
    BY <1>1, <2>4, <2>5 DEF Visit
  <2> QED BY <1>4, <2>6
<1> QED BY <1>5, <1>6, <1>7

(* The cells that are scanned are on the map, the player's among them.     *)
LEMMA ScannedCells ==
  ASSUME IInv
  PROVE  /\ LeftMost \in 0 .. w - 1 /\ RightMost \in 1 .. w /\ TopMost \in 0 .. h - 1 /\ BottomMost \in 1 .. h
         /\ PlayerAt \in Cells /\ PlayerAt[1] \in LeftMost .. RightMost - 1 /\ PlayerAt[2] \in TopMost .. BottomMost - 1
<1>1. PlayerAt \in Drawn /\ x \in Int /\ y \in Int /\ camx \in 0 .. w - 1 /\ camy \in 0 .. h - 1
  BY PlayerDrawn DEF IInv, TypeOK, Camera, Cells
<1>2. PlayerAt \in Cells /\ PlayerAt[1] \in 0 .. w - 1 /\ PlayerAt[2] \in 0 .. h - 1
  BY <1>1 DEF Drawn, Cells
<1>3. /\ w > ViewW => PlayerAt[1] \in (x - 1) .. (x + ViewW)
      /\ h > ViewH => PlayerAt[2] \in (y - 1) .. (y + ViewH + 1)
  BY <1>1 DEF Drawn
<1>4. LeftMost \in 0 .. w - 1 /\ RightMost \in 1 .. w /\ PlayerAt[1] \in LeftMost .. RightMost - 1
  BY <1>1, <1>2, <1>3 DEF LeftMost, RightMost, Smaller
<1>5. TopMost \in 0 .. h - 1 /\ BottomMost \in 1 .. h /\ PlayerAt[2] \in TopMost .. BottomMost - 1
  BY <1>1, <1>2, <1>3 DEF TopMost, BottomMost, Smaller
<1> QED BY <1>2, <1>4, <1>5

(* A row without the player is scanned in vain, and in the player's the    *)
(* visit to it is all that counts.                                         *)
LEMMA RowScanned ==
  ASSUME IInv, NEW yy \in TopMost .. BottomMost - 1
  PROVE  /\ yy # PlayerAt[2] => ScanRow(Grid, yy) = Grid /\ ScanRow(Visited, yy) = Visited
         /\ yy = PlayerAt[2] => ScanRow(Grid, yy) = Visited
<1>1. /\ LeftMost \in Int /\ RightMost \in Int /\ LeftMost <= RightMost /\ LeftMost < RightMost /\ 0 <= LeftMost /\ RightMost <= w
      /\ PlayerAt[1] \in LeftMost .. RightMost - 1 /\ PlayerAt[1] \in Int
      /\ PlayerAt = <<PlayerAt[1], PlayerAt[2]>> /\ yy \in 0 .. h - 1
  BY ScannedCells DEF Cells
<1>2. \A xx \in LeftMost + 1 .. RightMost : <<xx - 1, yy>> \in Cells
  BY <1>1 DEF Cells
<1>3. ASSUME yy # PlayerAt[2], NEW s \in {Grid, Visited} PROVE ScanRow(s, yy) = s
  <2> DEFINE g == [xx \in LeftMost .. RightMost |-> s]
  <2>1. \A xx \in LeftMost .. RightMost : g[xx] = s
    OBVIOUS
  <2>2. g = [xx \in LeftMost .. RightMost |-> g[xx]]
    BY <2>1
  <2> HIDE DEF g
  <2>3. g[LeftMost] = s /\ g[RightMost] = s
    BY <1>1, <2>1
  <2>4. ASSUME NEW xx \in LeftMost + 1 .. RightMost PROVE g[xx] = Visit(<<xx - 1, yy>>, g[xx - 1])
    <3>1. g[xx] = s /\ g[xx - 1] = s
      BY <1>1, <2>1
    <3>2. <<xx - 1, yy>> # PlayerAt
      BY <1>1, <1>3
    <3> QED BY <1>2, <1>3, <3>1, <3>2, VisitNobody
  <2>5. Visits(g, s, yy)
    BY <2>2, <2>3, <2>4 DEF Visits
  <2>6. ScanRow(s, yy) = g[RightMost]
    BY <1>1, <2>5, RowIs
  <2> QED BY <2>3, <2>6
<1>4. ASSUME yy = PlayerAt[2] PROVE ScanRow(Grid, yy) = Visited
  <2> DEFINE g == [xx \in LeftMost .. RightMost |-> IF xx <= PlayerAt[1] THEN Grid ELSE Visited]
  <2>1. \A xx \in LeftMost .. RightMost : g[xx] = IF xx <= PlayerAt[1] THEN Grid ELSE Visited
    OBVIOUS
  <2>2. g = [xx \in LeftMost .. RightMost |-> g[xx]]
    OBVIOUS
  <2> HIDE DEF g
  <2>3. g[LeftMost] = Grid /\ g[RightMost] = Visited
    BY <1>1, <2>1
  <2>4. ASSUME NEW xx \in LeftMost + 1 .. RightMost PROVE g[xx] = Visit(<<xx - 1, yy>>, g[xx - 1])
    <3>1. /\ g[xx] = IF xx <= PlayerAt[1] THEN Grid ELSE Visited
          /\ g[xx - 1] = IF xx - 1 <= PlayerAt[1] THEN Grid ELSE Visited
      BY <1>1, <2>1
    <3>2. CASE xx - 1 = PlayerAt[1]
      <4>1. <<xx - 1, yy>> = PlayerAt /\ g[xx] = Visited /\ g[xx - 1] = Grid
        BY <1>1, <1>4, <3>1, <3>2
      <4> QED BY <4>1 DEF Visited
    <3>3. CASE xx - 1 # PlayerAt[1]
      <4>1. <<xx - 1, yy>> # PlayerAt
        BY <1>1, <3>3
      <4>2. (xx <= PlayerAt[1]) <=> (xx - 1 <= PlayerAt[1])
        BY <1>1, <3>3
      <4> QED BY <1>2, <3>1, <4>1, <4>2, VisitNobody
    <3> QED BY <3>2, <3>3
  <2>5. Visits(g, Grid, yy)
    BY <2>2, <2>3, <2>4 DEF Visits
  <2>6. ScanRow(Grid, yy) = g[RightMost]
    BY <1>1, <2>5, RowIs
  <2> QED BY <2>3, <2>6
<1> QED BY <1>3, <1>4

(* So the scan does what the visit to the player's cell does.              *)
LEMMA ScanIs ==
  ASSUME IInv
  PROVE  Scan(Grid) = Visited
<1>1. /\ TopMost \in Int /\ BottomMost \in Int /\ TopMost <= BottomMost /\ TopMost < BottomMost
      /\ PlayerAt[2] \in TopMost .. BottomMost - 1 /\ PlayerAt[2] \in Int
  BY ScannedCells DEF Cells
<1> DEFINE g == [yy \in TopMost .. BottomMost |-> IF yy <= PlayerAt[2] THEN Grid ELSE Visited]
<1>2. \A yy \in TopMost .. BottomMost : g[yy] = IF yy <= PlayerAt[2] THEN Grid ELSE Visited
  OBVIOUS
<1>3. g = [yy \in TopMost .. BottomMost |-> g[yy]]
  OBVIOUS
<1> HIDE DEF g
<1>4. g[TopMost] = Grid /\ g[BottomMost] = Visited
  BY <1>1, <1>2
<1>5. ASSUME NEW yy \in TopMost + 1 .. BottomMost PROVE g[yy] = ScanRow(g[yy - 1], yy - 1)
  <2>1. /\ g[yy] = IF yy <= PlayerAt[2] THEN Grid ELSE Visited
        /\ g[yy - 1] = IF yy - 1 <= PlayerAt[2] THEN Grid ELSE Visited
        /\ yy - 1 \in TopMost .. BottomMost - 1
    BY <1>1, <1>2
  <2>2. CASE yy - 1 = PlayerAt[2]
    <3>1. g[yy] = Visited /\ g[yy - 1] = Grid
      BY <1>1, <2>1, <2>2
    <3> QED BY <2>1, <2>2, <3>1, RowScanned
  <2>3. CASE yy - 1 # PlayerAt[2]
    <3>1. (yy <= PlayerAt[2]) <=> (yy - 1 <= PlayerAt[2])
      BY <1>1, <2>3
    <3> QED BY <2>1, <2>3, <3>1, RowScanned
  <2> QED BY <2>2, <2>3
<1> QED BY <1>1, <1>3, <1>4, <1>5, RowsAre

(* DrawMap meets every object once: the scan, which writes the grid that   *)
(* it reads, leaves it as one simultaneous update would, on maps and views *)
(* of every size and wherever the player walks (Map.DrawMap).              *)
THEOREM ScanAgreesAlways == Spec => ScanAgrees
<1>1. IInv /\ [Next]_vars => [DrawMap => Scan(Grid) = Grid']_vars
  BY ScanIs, VisitedIs
<1> QED
  BY <1>1, Invariance, PTL DEF Spec, ScanAgrees

=============================================================================
