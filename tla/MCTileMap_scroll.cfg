CONSTANTS
  w = 4
  h = 4
  ViewW = 3
  ViewH = 2
  Steps = 2
  Player = player
  Npcs = {box0}
  NoObject = NoObject
  NoDir = NoDir
  MaxWalls = 1
SPECIFICATION MCFairSpec
INVARIANTS WalkConsistent
PROPERTIES NoJump NpcsUndisturbed ScanAgrees IsGridWalk WalkCompletes
