---------------------------- MODULE MCLuaTable ------------------------------
(* Tables of a few integer keys and colliding keys of both reductions.      *)
EXTENDS LuaTable

CONSTANTS a, b

MCOthers == {a, b}
MCHash == [k \in Ints \cup MCOthers |-> IF k = a THEN 3 ELSE IF k = b THEN 4 ELSE k]
=============================================================================
