------------------------------ MODULE LuaRefs ------------------------------
(* The references of lua/src/lauxlib.c (luaL_ref, luaL_unref), by which C    *)
(* programs keep Lua values: a table whose free places are a list that       *)
(* begins in t[0] and goes on in the places themselves.  A place holds nil,  *)
(* the number of another place, or a value, which is written as less than 0  *)
(* and told apart by the reference it was given.                             *)
EXTENDS Integers

CONSTANT MaxRef   \* the largest reference a run makes
ASSUME MaxRefAssumption == MaxRef \in Nat

VARIABLES
  reftable,   \* the table
  live        \* the references that the program holds

FreeList == 0   \* FREELIST_REF
Nil == 0
Value(n) == -n

refvars == <<reftable, live>>

RefsInit == reftable = [i \in 0 .. MaxRef |-> Nil] /\ live = {}

\* lua_tointeger of a place of the list: 0 for nil.
ToInteger(v) == v
\* lua_objlen of the table: any of its borders.
Borders == {n \in 0 .. MaxRef : (n > 0 => reftable[n] # Nil) /\ (n < MaxRef => reftable[n + 1] = Nil)}

\* luaL_ref of a value that is not nil: the first free place, or one behind the last.
Ref ==
  \E border \in Borders :
    LET free == ToInteger(reftable[FreeList])
        ref == IF free # 0 THEN free ELSE border + 1
        left == IF free # 0 THEN [reftable EXCEPT ![FreeList] = reftable[free]] ELSE reftable
    IN  /\ ref <= MaxRef   \* the run's bound
        /\ reftable' = [left EXCEPT ![ref] = Value(ref)]
        /\ live' = live \cup {ref}

\* luaL_unref of a reference the program holds.
MutRelease(ref) == [reftable EXCEPT ![FreeList] = ref, ![ref] = ref]   \* the head is set first
Release(ref) == [reftable EXCEPT ![FreeList] = ref, ![ref] = reftable[FreeList]]
Unref == \E ref \in live : reftable' = Release(ref) /\ live' = live \ {ref}

RefsNext == Ref \/ Unref
RefsSpec == RefsInit /\ [][RefsNext]_refvars
-----------------------------------------------------------------------------
\* Whatever was released and taken again, a reference is of one value: it reads
\* what was put there, and no place of the free list is one the program holds.
\* The table has no hole when that list is empty, so that its length, which may
\* be any border, is the last place in use.
RefsKept ==
  /\ \A r \in live : reftable[r] = Value(r)
  /\ \A r \in 1 .. MaxRef : reftable[r] < 0 => r \in live
  /\ reftable[FreeList] >= 0 /\ reftable[FreeList] \notin live
  /\ reftable[FreeList] = 0 => \A n \in Borders : live = 1 .. n
=============================================================================
