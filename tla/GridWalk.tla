------------------------------ MODULE GridWalk ------------------------------
(***************************************************************************)
(* What the map promises to the rest of the game about walking, without    *)
(* animation, scrolling or viewport: the player stands on one cell of a    *)
(* grid, may commit to a free neighbouring cell, and then arrives there    *)
(* before it can commit again.  TileMap implements this module with        *)
(* pos <- the cell that holds the player, goal <- the camera cell and      *)
(* free <- the cells without a wall and without another object.            *)
(***************************************************************************)
EXTENDS Integers

CONSTANTS w, h   \* the size of the grid

VARIABLES
  pos,    \* where the player stands
  goal,   \* where it is going, pos when it goes nowhere
  free    \* the cells it may enter, fixed by the map

gridVars == <<pos, goal, free>>

Grid == (0 .. w - 1) \X (0 .. h - 1)

(* Four-neighbourhood: one coordinate differs by one.                      *)
Adjacent(c, d) ==
  \/ c[1] = d[1] /\ d[2] \in {c[2] - 1, c[2] + 1}
  \/ c[2] = d[2] /\ d[1] \in {c[1] - 1, c[1] + 1}

GridInit ==
  /\ free \subseteq Grid
  /\ pos = <<0, 0>>
  /\ goal = pos

Commit ==
  /\ goal = pos
  /\ \E c \in free : Adjacent(pos, c) /\ goal' = c
  /\ UNCHANGED <<pos, free>>

Arrive ==
  /\ pos # goal
  /\ pos' = goal
  /\ UNCHANGED <<goal, free>>

GridNext == Commit \/ Arrive

GridSpec == GridInit /\ [][GridNext]_gridVars

(* A committed walk is always completed.                                   *)
GridFairSpec == GridSpec /\ WF_gridVars(Arrive)
=============================================================================
