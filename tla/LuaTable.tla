------------------------------ MODULE LuaTable ------------------------------
(* The tables of the Lua distribution (lua/src/ltable.c): an array part and *)
(* a chained scatter table with Brent's variation, rebuilt when it has no   *)
(* free place.  A table is a record: array, the values of keys 1, 2, ...;   *)
(* node, the places of the hash part; dummy, whether that part is the       *)
(* shared dummynode; lastfree, below which a free place may be.  A key the  *)
(* collector has found dead stays in its place, marked dead.  Hash is what  *)
(* the hash functions answer before the reduction to a place.               *)
EXTENDS Integers, FiniteSets, Sequences, FiniteSetsExt, Functions

CONSTANTS Ints,      \* the integer keys
          Others,    \* the keys of the other types
          PowTwo,    \* those of them reduced modulo the size: strings, booleans
          Collected, \* those of them that are collectable objects
          Hash, Value,
          Nil,       \* the value nil, and the key of a place never used
          None,      \* NULL
          MaxArray,  \* bound: the largest array OP_SETLIST asks for
          Walks      \* whether tables are walked

Key == Ints \cup Others

ASSUME KeysAssumption ==
  /\ Ints \subseteq Nat \ {0} /\ PowTwo \subseteq Others /\ Collected \subseteq Others
  /\ Hash \in [Key -> Nat] /\ MaxArray \in Nat
  /\ Nil \notin Key \cup Value /\ None \notin Nat \cup Key /\ Others \cap Nat = {}

VARIABLES tab, walking, at, seen, due

vars == <<tab, walking, at, seen, due>>
-----------------------------------------------------------------------------
Size(t) == Cardinality(DOMAIN t.node)

\* twoto, of lobject.h.
TwoTo[l \in Nat] == IF l = 0 THEN 1 ELSE 2 * TwoTo[l - 1]

\* ceillog2, of llimits.h and lobject.c.
CeilLog2(n) == CHOOSE l \in 0 .. n : TwoTo[l] >= n /\ (l = 0 \/ TwoTo[l - 1] < n)

\* mainposition: modulo the size, or modulo (size - 1) | 1.
MainPosition(t, k) ==
  IF k \in PowTwo THEN Hash[k] % Size(t)
  ELSE Hash[k] % (IF Size(t) = 1 THEN 1 ELSE Size(t) - 1)

\* The places met from place i along next: a place for every n until NULL.
Chain(t, i) ==
  LET walk[n \in 0 .. Size(t)] ==
        IF n = 0 THEN i ELSE IF walk[n - 1] = None THEN None ELSE t.node[walk[n - 1]].next
  IN  walk

\* The first place of the chain of k that satisfies Test.
FirstIn(t, k, Test(_)) ==
  LET c   == Chain(t, MainPosition(t, k))
      hit == {n \in DOMAIN c : c[n] # None /\ Test(c[n])}
  IN  IF hit = {} THEN None ELSE c[Min(hit)]

InArray(t, k) == k \in 1 .. Len(t.array)

\* luaH_get and its specialized forms: the place of k in the hash part.
NodeOf(t, k) ==
  LET Same(i) == t.node[i].key = k /\ ~t.node[i].dead IN FirstIn(t, k, Same)

Present(t, k) == InArray(t, k) \/ NodeOf(t, k) # None

Get(t, k) == IF InArray(t, k) THEN t.array[k]
             ELSE IF NodeOf(t, k) = None THEN Nil ELSE t.node[NodeOf(t, k)].val

Store(t, k, v) == IF InArray(t, k) THEN [t EXCEPT !.array[k] = v]
                  ELSE [t EXCEPT !.node[NodeOf(t, k)].val = v]

Empty == [key |-> Nil, dead |-> FALSE, val |-> Nil, next |-> None]

\* setnodevector
SetNodeVector(t, size) ==
  LET n == IF size = 0 THEN 1 ELSE TwoTo[CeilLog2(size)]
  IN  [t EXCEPT !.node = [i \in 0 .. n - 1 |-> Empty], !.dummy = (size = 0),
                !.lastfree = IF size = 0 THEN 0 ELSE n]

\* getfreepos: a place that never held a key, searched downwards only.
FreePos(t) == LET f == {i \in DOMAIN t.node : i < t.lastfree /\ t.node[i].key = Nil}
              IN  IF f = {} THEN None ELSE Max(f)

\* Mutant of NewKey: the colliding node is not asked for its main position.
MutNewKeyStays(t, k, v) ==
  LET mp  == MainPosition(t, k)
      n   == FreePos(t)
      new == [key |-> k, dead |-> FALSE, val |-> v, next |-> t.node[mp].next]
  IN  IF t.node[mp].val = Nil /\ ~t.dummy THEN [t EXCEPT !.node[mp] = new]
      ELSE [t EXCEPT !.lastfree = n, !.node[n] = new, !.node[mp].next = n]

\* newkey where a place is free, and the store its caller makes: a colliding
\* node away from its main position makes room, else the new one goes to the
\* free place, second in the chain.
NewKey(t, k, v) ==
  LET mp   == MainPosition(t, k)
      n    == FreePos(t)
      u    == [t EXCEPT !.lastfree = n]
      Fresh(next) == [key |-> k, dead |-> FALSE, val |-> v, next |-> next]
      home == MainPosition(t, t.node[mp].key)
      prev == CHOOSE i \in Range(Chain(t, home)) : i # None /\ t.node[i].next = mp
  IN  IF t.node[mp].val = Nil /\ ~t.dummy
      THEN [t EXCEPT !.node[mp] = Fresh(t.node[mp].next)]
      ELSE IF home # mp
      THEN [u EXCEPT !.node[prev].next = n, !.node[n] = t.node[mp], !.node[mp] = Fresh(None)]
      ELSE [u EXCEPT !.node[n] = Fresh(t.node[mp].next), !.node[mp].next = n]

Full(t, k) == (t.node[MainPosition(t, k)].val # Nil \/ t.dummy) /\ FreePos(t) = None

\* luaH_set with the store, in a table that has room.
SetRoomy(t, k, v) == IF Present(t, k) THEN Store(t, k, v) ELSE NewKey(t, k, v)

\* resize: the vanishing slice of the array, then the old nodes from the last,
\* are set again in the new parts, but for those without a value.
Resize(t, nasize, nhsize) ==
  LET na     == Len(t.array)
      cut    == Max({0, na - nasize})
      array  == [i \in 1 .. nasize |-> IF i <= na THEN t.array[i] ELSE Nil]
      Old(n) == IF n <= cut THEN [key |-> nasize + n, val |-> t.array[nasize + n]]
                ELSE LET e == t.node[Size(t) + cut - n] IN [key |-> e.key, val |-> e.val]
      set[n \in 0 .. cut + Size(t)] ==
        IF n = 0 THEN SetNodeVector([t EXCEPT !.array = array], nhsize)
        ELSE IF Old(n).val = Nil THEN set[n - 1]
        ELSE SetRoomy(set[n - 1], Old(n).key, Old(n).val)
  IN  set[cut + Size(t)]

\* The keys with a value: numusearray and numusehash count them.
Used(t) == {i \in 1 .. Len(t.array) : t.array[i] # Nil}
           \cup {e.key : e \in {f \in Range(t.node) : f.val # Nil}}

\* computesizes for these integer keys: the loop over the slices
\* (2^(i-1), 2^i], an empty slice never chosen.
ComputeSizes(keys) ==
  LET upTo(n)  == Cardinality({k \in keys : k <= n})
      sizes    == {TwoTo[i] : i \in 0 .. Cardinality(keys)}
      fit      == {n \in sizes : /\ n \div 2 < Cardinality(keys)
                                 /\ upTo(n) > upTo(n \div 2)
                                 /\ upTo(n) > n \div 2}
      size     == Max(fit \cup {0})
  IN  [size |-> size, inside |-> upTo(size)]

\* Mutant of Rehash: the key to come is not counted.
MutRehash(t, k) ==
  LET s == ComputeSizes(Used(t) \cap Ints)
  IN  Resize(t, s.size, Cardinality(Used(t)) - s.inside)

\* rehash: count the keys and the one to come, and rebuild.
Rehash(t, k) ==
  LET s == ComputeSizes((Used(t) \cup {k}) \cap Ints)
  IN  Resize(t, s.size, Cardinality(Used(t)) + 1 - s.inside)

\* luaH_set and the store into what it returns.
SetTable(t, k, v) ==
  IF Present(t, k) \/ ~Full(t, k) THEN SetRoomy(t, k, v)
  ELSE SetRoomy(Rehash(t, k), k, v)

New(na, nh) ==
  SetNodeVector([array |-> [i \in 1 .. na |-> Nil], node |-> <<>>, dummy |-> TRUE, lastfree |-> 0], nh)
-----------------------------------------------------------------------------
\* luaH_getnum at any index: beyond the keys of the model nothing is stored.
At(t, n) == IF n \in Ints THEN Get(t, n) ELSE Nil

\* Binary search for a boundary from i, present or 0, to j, absent.
Between(t, i, j) ==
  LET half[p \in Nat \X Nat] ==
        IF p[2] - p[1] <= 1 THEN p[1]
        ELSE LET m == (p[1] + p[2]) \div 2
             IN  IF At(t, m) = Nil THEN half[<<p[1], m>>] ELSE half[<<m, p[2]>>]
  IN  half[<<i, j>>]

\* unbound_search: double until an absent key; no table here reaches MAX_INT.
Unbound(t, j) ==
  LET out[p \in Nat \X Nat] ==
        IF At(t, p[2]) = Nil THEN p ELSE out[<<p[2], 2 * p[2]>>]
      p == out[<<j, j + 1>>]
  IN  Between(t, p[1], p[2])

\* luaH_getn
GetN(t) ==
  LET j == Len(t.array)
  IN  IF j > 0 /\ At(t, j) = Nil THEN Between(t, 0, j)
      ELSE IF t.dummy THEN j ELSE Unbound(t, j)

\* findindex: where next goes on, counted through both parts; a dead key counts.
FindIndex(t, k) ==
  LET Same(i) == t.node[i].key = k
  IN  IF k = Nil THEN 0 ELSE IF InArray(t, k) THEN k
      ELSE LET i == FirstIn(t, k, Same) IN IF i = None THEN -1 ELSE Len(t.array) + i + 1

\* Mutant of NextKey: a place without a value is handed out too.
MutNextKey(t, k) ==
  LET na  == Len(t.array)
      KeyAt(i) == IF i <= na THEN i ELSE t.node[i - na - 1].key
      on  == {i \in 1 .. na + Size(t) : i > FindIndex(t, k) /\ KeyAt(i) # Nil}
  IN  IF on = {} THEN None ELSE KeyAt(Min(on))

\* luaH_next: the next key with a value, the array part first; None at the end.
NextKey(t, k) ==
  LET na  == Len(t.array)
      ValAt(i) == IF i <= na THEN t.array[i] ELSE t.node[i - na - 1].val
      on  == {i \in 1 .. na + Size(t) : i > FindIndex(t, k) /\ ValAt(i) # Nil}
  IN  IF on = {} THEN None
      ELSE IF Min(on) <= na THEN Min(on) ELSE t.node[Min(on) - na - 1].key
-----------------------------------------------------------------------------
Contents(t) == [k \in Key |-> Get(t, k)]

Init == /\ tab \in {New(na, nh) : na \in 0 .. MaxArray, nh \in 0 .. 2}
        /\ walking = FALSE /\ at = Nil /\ seen = {} /\ due = {}

\* An assignment; in a walk, only to a field that exists.
Assign(k, v) ==
  /\ walking => Get(tab, k) # Nil
  /\ tab' = SetTable(tab, k, v)
  /\ due' = IF v = Nil THEN due \ {k} ELSE due
  /\ UNCHANGED <<walking, at, seen>>

\* OP_SETLIST makes room for a list constructor: luaH_resizearray.
ResizeArray(n) ==
  /\ ~walking /\ n > Len(tab.array)
  /\ tab' = Resize(tab, n, IF tab.dummy THEN 0 ELSE Size(tab))
  /\ UNCHANGED <<walking, at, seen, due>>

\* Mutant of KillKeys: the place is emptied altogether.
MutKillKeys ==
  /\ \E i \in DOMAIN tab.node : tab.node[i].val = Nil /\ tab.node[i].key \in Collected
  /\ tab' = [tab EXCEPT !.node = [i \in DOMAIN @ |->
        IF @[i].val = Nil /\ @[i].key \in Collected THEN [@[i] EXCEPT !.key = Nil] ELSE @[i]]]
  /\ UNCHANGED <<walking, at, seen, due>>

\* The collector goes over the table: collectable keys without a value die.
KillKeys ==
  /\ \E i \in DOMAIN tab.node : LET e == tab.node[i]
                                IN  e.val = Nil /\ e.key \in Collected /\ ~e.dead
  /\ tab' = [tab EXCEPT !.node = [i \in DOMAIN @ |->
        LET e == @[i] IN [e EXCEPT !.dead = e.dead \/ (e.val = Nil /\ e.key \in Collected)]]]
  /\ UNCHANGED <<walking, at, seen, due>>

\* The collector clears an entry of a weak table, in a walk or not.
ClearEntry(k) ==
  /\ ~InArray(tab, k) /\ NodeOf(tab, k) # None /\ Get(tab, k) # Nil
  /\ tab' = [tab EXCEPT !.node[NodeOf(tab, k)] = [@ EXCEPT !.val = Nil, !.dead = k \in Collected]]
  /\ due' = due \ {k}
  /\ UNCHANGED <<walking, at, seen>>

Begin == /\ ~walking
         /\ walking' = TRUE /\ at' = Nil /\ seen' = {}
         /\ due' = {k \in Key : Get(tab, k) # Nil}
         /\ UNCHANGED tab

\* One call of next, and the loop's end when it answers nil.
Step == /\ walking /\ FindIndex(tab, at) >= 0
        /\ LET k == NextKey(tab, at)
           IN  IF k = None THEN walking' = FALSE /\ at' = Nil /\ seen' = {} /\ UNCHANGED due
               ELSE /\ at' = k /\ seen' = seen \cup {k} /\ due' = due \ {k}
                    /\ UNCHANGED walking
        /\ UNCHANGED tab

Next == \/ \E k \in Key, v \in Value \cup {Nil} : Assign(k, v)
        \/ \E n \in 1 .. MaxArray : ResizeArray(n)
        \/ \E k \in Key : ClearEntry(k)
        \/ KillKeys
        \/ Walks /\ (Begin \/ Step)

Spec == Init /\ [][Next]_vars
-----------------------------------------------------------------------------
\* The parts of a table are of their kinds and a place is free at most below
\* lastfree (ltable.c:382).
TypeOK ==
  /\ tab.array \in Seq(Value \cup {Nil})
  /\ \E l \in 0 .. Size(tab) : DOMAIN tab.node = 0 .. TwoTo[l] - 1
  /\ \A i \in DOMAIN tab.node :
        tab.node[i] \in [key : Key \cup {Nil}, dead : BOOLEAN, val : Value \cup {Nil},
                         next : DOMAIN tab.node \cup {None}]
  /\ tab.dummy \in BOOLEAN /\ tab.lastfree \in 0 .. Size(tab)
  /\ walking \in BOOLEAN /\ at \in Key \cup {Nil} /\ seen \subseteq Key /\ due \subseteq Key

\* Every entry with a value is met on the way from the main position of its
\* key, and only once: no chain loses one or runs in a circle, through moves,
\* places taken over from dead keys and rebuilds (newkey, ltable.c:399).
Found ==
  /\ \A i \in DOMAIN tab.node :
        tab.node[i].val # Nil => NodeOf(tab, tab.node[i].key) = i /\ ~InArray(tab, tab.node[i].key)
  /\ \A i \in DOMAIN tab.node : Chain(tab, i)[Size(tab)] = None

\* The "main invariant of these tables" (ltable.c:15): if an element is not in
\* its main position, the one there is in its own.
Brent ==
  \A i \in DOMAIN tab.node :
     LET mp == MainPosition(tab, tab.node[i].key)
     IN  tab.node[i].val # Nil /\ mp # i => /\ tab.node[mp].key # Nil
                                            /\ MainPosition(tab, tab.node[mp].key) = mp

\* The chains of the node part, through every insertion.
Chains == TypeOK /\ Found /\ Brent

\* What luaH_getn answers is a boundary: that key has a value (or is 0) and the
\* next has none (ltable.c:556).
Boundary == LET n == GetN(tab)
            IN  (n = 0 \/ At(tab, n) # Nil) /\ At(tab, n + 1) = Nil

\* A rebuild finds every element of the old parts a place and leaves one for
\* the key to come: newkey never rebuilds twice for one key (ltable.c:405).
RoomForAll ==
  \A k \in Key : Full(tab, k) /\ ~Present(tab, k) =>
     LET t == Rehash(tab, k)
     IN  /\ Present(t, k) \/ ~Full(t, k)
         /\ Used(t) = Used(tab)

\* A rebuild sizes the array part to "the largest n such that at least half
\* the slots between 0 and n are in use" (ltable.c:12), n a power of two.
HalfInUse ==
  \A k \in Key : Full(tab, k) /\ ~Present(tab, k) =>
     LET ints == (Used(tab) \cup {k}) \cap Ints
         dense == {n \in {TwoTo[i] : i \in 0 .. Cardinality(ints)} : 2 * Cardinality({j \in ints : j <= n}) > n}
     IN  Len(Rehash(tab, k).array) = Max(dense \cup {0})

\* What a rebuild makes of any table that is full.
Rebuilds == RoomForAll /\ HalfInUse

\* next never meets a key it cannot place: the key just handed out is found
\* though it was cleared or killed meanwhile (ltable.c:156).
NextFinds == walking => FindIndex(tab, at) >= 0

\* What is asked of a table is answered: its length, and the key after a key.
Answers == Boundary /\ NextFinds

\* The table implements the map: assignments, rebuilds and the collector
\* change only what the map allows, and a walk hands out every lasting key
\* exactly once though entries are cleared and killed under it.
M == INSTANCE LuaMap WITH map <- Contents(tab), Value <- Value
IsMap == M!Spec
=============================================================================
