------------------------------- MODULE LuaMap -------------------------------
(* What a Lua table promises: a map from keys to values (Nil where a key is *)
(* absent), walked by next.  During a walk entries may be changed or        *)
(* cleared but none added; the walk hands out each key once and ends only   *)
(* when every key that was there all the time has been handed out.          *)

CONSTANTS Key, Value, Nil

VARIABLES map,      \* the value of every key
          walking,  \* is a walk under way?
          seen,     \* the keys it has handed out
          due       \* the keys present since it began, not yet handed out

vars == <<map, walking, seen, due>>

Init == map \in [Key -> Value \cup {Nil}] /\ walking = FALSE /\ seen = {} /\ due = {}

Assign(k, v) ==
  /\ walking => map[k] # Nil
  /\ map' = [map EXCEPT ![k] = v]
  /\ due' = IF v = Nil THEN due \ {k} ELSE due
  /\ UNCHANGED <<walking, seen>>

Begin ==
  /\ ~walking
  /\ walking' = TRUE /\ seen' = {}
  /\ due' = {k \in Key : map[k] # Nil}
  /\ UNCHANGED map

Step(k) ==
  /\ walking /\ map[k] # Nil /\ k \notin seen
  /\ seen' = seen \cup {k} /\ due' = due \ {k}
  /\ UNCHANGED <<map, walking>>

End ==
  /\ walking /\ due = {}
  /\ walking' = FALSE /\ seen' = {}
  /\ UNCHANGED <<map, due>>

Next == \/ \E k \in Key, v \in Value \cup {Nil} : Assign(k, v)
        \/ \E k \in Key : Step(k)
        \/ Begin \/ End

Spec == Init /\ [][Next]_vars
=============================================================================
