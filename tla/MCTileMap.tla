----------------------------- MODULE MCTileMap ------------------------------
(***************************************************************************)
(* Small instances of TileMap.  The initial maps are those of Init with at *)
(* most MaxWalls blocking floors and every object on the map: TLC          *)
(* could not enumerate the functions that Init ranges over.                *)
(***************************************************************************)
EXTENDS TileMap, TLC, FiniteSetsExt

CONSTANT MaxWalls

Places == {at \in [Npcs -> Cells \ {<<0, 0>>}] : \A n, m \in Npcs : at[n] = at[m] => n = m}

MCInit ==
  /\ \E k \in 0 .. MaxWalls : \E walls \in kSubset(k, Cells) :
        floorPassable = [c \in Cells |-> c \notin walls]
  /\ \E at \in Places :
        characterLevel = [c \in Cells |->
           IF c = <<0, 0>> THEN Player
           ELSE IF \E n \in Npcs : at[n] = c THEN CHOOSE n \in Npcs : at[n] = c
           ELSE NoObject]
  /\ Init

MCSpec == MCInit /\ [][Next]_vars
MCFairSpec == MCSpec /\ WF_vars(DrawMap)
=============================================================================
