---------------------------- MODULE MCStoryPlay ----------------------------
(***************************************************************************)
(* The scripts of MCScriptRuntime played on a map of a few cells: a box    *)
(* and a door to use, a wall, and room to be on the way while using them.  *)
(***************************************************************************)
EXTENDS StoryPlay, MCScriptRuntime

CONSTANTS box, doorway

BoxAt  == <<2, 0>>
DoorAt == <<0, 2>>
WallAt == <<1, 1>>

MCUse == [n \in Npcs |-> IF n = box THEN "box" ELSE "door"]

TaleHasty == {"box", "door", "stay", "go", "rest"}

MCPlayInit ==
  /\ floorPassable = [c \in Cells |-> c # WallAt]
  /\ characterLevel = [c \in Cells |->
        IF c = BoxAt THEN box ELSE IF c = DoorAt THEN doorway ELSE NoObject]
  /\ PlayInit

MCPlaySpec == MCPlayInit /\ [][PlayNext]_playVars /\ WF_playVars(Act) /\ WF_playVars(Draw)
=============================================================================
