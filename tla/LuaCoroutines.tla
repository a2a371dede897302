---------------------------- MODULE LuaCoroutines ----------------------------
(* What the coroutine library of lua/src/lbaselib.c promises a program:     *)
(* state[c] is what coroutine.status answers for c, and resumer[c] the      *)
(* thread that waits for c.  One thread runs at any time; it passes control *)
(* only to a suspended coroutine, or back to the thread that resumed it,    *)
(* and what is dead stays dead.                                             *)
CONSTANTS Thread, Main

VARIABLES state, resumer, begun

cvars == <<state, resumer, begun>>

CInit ==
  /\ state = [c \in Thread |-> IF c = Main THEN "running" ELSE "none"]
  /\ resumer = [c \in Thread |-> Main]
  /\ begun = {}

Create(c) ==
  /\ state[c] = "none"
  /\ state' = [state EXCEPT ![c] = "suspended"]
  /\ UNCHANGED <<resumer, begun>>

Resume(r, c) ==
  /\ state[r] = "running" /\ state[c] = "suspended"
  /\ state' = [state EXCEPT ![r] = "normal", ![c] = "running"]
  /\ resumer' = [resumer EXCEPT ![c] = r]
  /\ begun' = begun \cup {c}

\* c yields, or ends: its resumer runs again.
Leave(c, as) ==
  /\ state[c] = "running" /\ c # Main
  /\ state[resumer[c]] = "normal"
  /\ state' = [state EXCEPT ![c] = as, ![resumer[c]] = "running"]
  /\ resumer' = [resumer EXCEPT ![c] = Main]
  /\ UNCHANGED begun

\* A coroutine that never ran is lost when the C stack has no room to start it.
Lose(c) ==
  /\ state[c] = "suspended" /\ c \notin begun
  /\ state' = [state EXCEPT ![c] = "dead"]
  /\ begun' = begun \cup {c}
  /\ UNCHANGED resumer

CNext ==
  \E c \in Thread : \/ Create(c)
                    \/ \E r \in Thread : Resume(r, c)
                    \/ \E as \in {"suspended", "dead"} : Leave(c, as)
                    \/ Lose(c)

CSpec == CInit /\ [][CNext]_cvars
=============================================================================
