------------------------------ MODULE MCLuaGC -------------------------------
(* Small heaps for the collector.  A world names the objects that may be    *)
(* made and what else the program may do in it: tables only; a table and a  *)
(* shared string; a weak table and a udata; a weak table and a string; a     *)
(* udata and its environment; a closure and its upvalue with a second       *)
(* coroutine; the same in a chain of three coroutines that resumed one      *)
(* another; udata at lua_close.                                             *)
EXTENDS LuaGC, TLC

CONSTANTS reg, t1, t2, main, co, co2, u1, u2, c1, v1, s1, Worlds

VARIABLE world

Objects(w) ==
  {reg, main} \cup CASE w = "tables"  -> {t1, t2}
                     [] w = "strings" -> {t1, s1}
                     [] w = "weak"    -> {t1, u1}
                     [] w = "weakstring" -> {t1, s1}
                     [] w = "udata"   -> {t1, u1}
                     [] w = "upvals"  -> {c1, v1, co}
                     [] w = "chain"   -> {c1, v1, co, co2}
                     [] w = "close"   -> {u1, u2}

\* What may be in the second slot of a thread.
Second(w, h) ==
  {None} \cup CASE w \in {"udata", "weak", "weakstring", "tables"} -> {t1}
                [] w \in {"upvals", "chain"} /\ h = main -> {co}
                [] w = "chain" /\ h = co -> {co2} [] OTHER -> {}

MCModes == {{}, {"k", "v"}}
TwoSlots == 1 .. 2

MCInit == Init /\ world \in Worlds
MCNext ==
  /\ Next
  /\ alloc' \subseteq Objects(world)
  /\ mode' # mode => world \in {"weak", "weakstring"}
  /\ closing' # closing => world = "close"
  /\ full' = "sweep" => world = "strings"
  /\ key' # key => world \in {"weak", "weakstring"}
  /\ world = "weak" => /\ val'[u1] # t1 /\ stack'[main][1] # t1 
                      /\ <<key'[t1], val'[t1]>> \in {<<None, None>>, <<t1, u1>>, <<u1, t1>>}
  /\ world \in {"upvals", "chain"} => val'[reg] \in {None, c1}
  /\ world \in {"upvals", "chain"} =>
       \A h \in Threads : stack'[h][1] \in {None, c1} \cup (IF world = "upvals" /\ h = co THEN {co} ELSE {})
  /\ world = "upvals" => open'[v1] \in {None, <<main, 2>>, <<co, 1>>}
  /\ world = "chain" =>
       /\ open'[v1] \in {None, <<main, 2>>} /\ val'[v1] # c1
       /\ running' # running => running' \in {<<main, co>>, <<main, co, co2>>}
       /\ currentwhite' # currentwhite => L = co2
       /\ stack'[co][1] = None
  /\ \A h \in Threads : stack'[h][1] \notin {reg, main} \cup (IF h = main THEN {co} ELSE {})
                          /\ stack'[h][2] \in Second(world, h)
  /\ world = "tables" => val'[reg] \in {None, t1}
  /\ world = "weakstring" =>
       /\ stack'[main][1] # t1
       /\ <<key'[t1], val'[t1]>> \in {<<None, None>>, <<t1, s1>>, <<s1, t1>>, <<s1, s1>>}
  /\ world \in {"weak", "weakstring"} => val'[reg] = None
  /\ world = "udata" => val'[t1] = None /\ val'[reg] \in {None, u1}
  /\ UNCHANGED world
MCSpec == MCInit /\ [][MCNext]_<<vars, world>>
MCFairSpec == MCSpec /\ []<><<SingleStep>>_vars
=============================================================================
