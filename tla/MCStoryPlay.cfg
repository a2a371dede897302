CONSTANTS
  w = 3
  h = 3
  ViewW = 2
  ViewH = 2
  Steps = 4
  Player = player0
  Npcs = {box, doorway}
  NoObject = NoObject
  NoDir = NoDir
  box = box
  doorway = doorway
  UseOf <- MCUse
  Hasty <- TaleHasty
  Idle = Idle
  Pcs <- TalePcs
  Code <- Tale
  Main = "start"
  Uses = {"box", "door"}
  Letters <- MCLetters
  x0 = 30
  y0 = 400
  w0 = 740
  h0 = 200
SPECIFICATION MCPlaySpec
INVARIANTS DialogsConsistent InPlay
PROPERTIES NoLineCutShort FollowsScript TypingEnds
CHECK_DEADLOCK FALSE
