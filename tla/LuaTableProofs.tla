---------------------------- MODULE LuaTableProofs ----------------------------
(* Proofs about LuaTable: the structure of the scatter table, for every hash  *)
(* function and for tables of any size.                                       *)
EXTENDS LuaTable, FiniteSetTheorems, WellFoundedInduction, TLAPS

-----------------------------------------------------------------------------
(* Induction, stated over sets, and numbers. *)

(* A set of numbers that is not empty has a least one. *)
LEMMA NatMin ==
  ASSUME NEW S \in SUBSET Nat, S # {}
  PROVE  \E n \in S : \A m \in S : n <= m
<1> DEFINE R == {p \in Nat \X Nat : p[1] < p[2]}
<1>1. IsWellFoundedOn(R, Nat)
  BY NatLessThanWellFounded DEF OpToRel
<1>2. PICK n \in S : \A m \in S : <<m, n>> \notin R
  <2> HIDE DEF R
  <2> QED BY <1>1, WFMin
<1>3. \A m \in S : ~(m < n)
  BY <1>2
<1> QED
  BY <1>3

(* A set with 0 and every successor has every number. *)
LEMMA NatSetInduction ==
  ASSUME NEW S, 0 \in S, \A n \in Nat : n \in S => n + 1 \in S
  PROVE  Nat \subseteq S
<1> SUFFICES ASSUME Nat \ S # {} PROVE FALSE
  OBVIOUS
<1>1. PICK n \in Nat \ S : \A m \in Nat \ S : n <= m
  BY NatMin
<1> QED
  BY <1>1, n - 1 \in Nat

(* The least of what is not empty is in it.                                    *)
LEMMA MinIs ==
  ASSUME NEW S \in SUBSET Nat, S # {}
  PROVE  Min(S) \in S /\ \A m \in S : Min(S) <= m
BY NatMin DEF Min

(* The greatest of what is not empty and has a bound is in it.                 *)
LEMMA MaxIs ==
  ASSUME NEW S \in SUBSET Nat, S # {}, NEW b \in Nat, \A m \in S : m <= b
  PROVE  Max(S) \in S /\ \A m \in S : m <= Max(S)
<1> DEFINE D == {b - m : m \in S}
<1>0. \A m \in S : m \in Nat /\ m <= b /\ b - m \in Nat
  OBVIOUS
<1>1. D \in SUBSET Nat /\ D # {}
  <2>1. D \in SUBSET Nat
    BY <1>0
  <2>2. PICK m : m \in S
    OBVIOUS
  <2>3. b - m \in D
    BY <2>2
  <2> QED BY <2>1, <2>3
<1>2. PICK d \in D : \A e \in D : d <= e
  <2> HIDE DEF D
  <2> QED BY <1>1, NatMin
<1>3. PICK n \in S : d = b - n
  BY <1>2
<1>4. \A m \in S : m <= n
  <2> TAKE m \in S
  <2>1. b - m \in D
    OBVIOUS
  <2>2. b - n <= b - m
    BY <2>1, <1>2, <1>3
  <2> QED BY <2>2, <1>0
<1>5. \E x \in S : \A y \in S : x >= y
  BY <1>4
<1>6. Max(S) \in S /\ \A y \in S : Max(S) >= y
  BY <1>5 DEF Max
<1> QED
  BY <1>6

(* The powers of two: the recursive function exists. *)
LEMMA TwoToIs ==
  \A l \in Nat : TwoTo[l] = IF l = 0 THEN 1 ELSE 2 * TwoTo[l - 1]
<1> DEFINE Is(f, j) == f = [l \in 0 .. j |-> IF l = 0 THEN 1 ELSE 2 * f[l - 1]]
           S == {j \in Nat : \E f : Is(f, j)}
<1>1. 0 \in S
  <2> DEFINE f == [l \in 0 .. 0 |-> 1]
  <2>1. Is(f, 0)
    OBVIOUS
  <2> QED BY <2>1
<1>2. ASSUME NEW j \in Nat, j \in S PROVE j + 1 \in S
  <2>1. PICK f : Is(f, j)
    BY <1>2
  <2> DEFINE g == [l \in 0 .. j + 1 |-> IF l = 0 THEN 1 ELSE 2 * f[l - 1]]
  <2>2. \A l \in 0 .. j : f[l] = IF l = 0 THEN 1 ELSE 2 * f[l - 1]
    BY <2>1
  <2>3. \A l \in 0 .. j + 1 : l # 0 => l - 1 \in 0 .. j
    OBVIOUS
  <2>4. \A l \in 0 .. j : l \in 0 .. j + 1
    OBVIOUS
  <2>5. \A l \in 0 .. j : g[l] = f[l]
    BY <2>2, <2>4
  <2>6. Is(g, j + 1)
    <3> SUFFICES g = [l \in 0 .. j + 1 |-> IF l = 0 THEN 1 ELSE 2 * g[l - 1]]
      OBVIOUS
    <3> QED BY <2>3, <2>5
  <2>7. j + 1 \in Nat
    OBVIOUS
  <2> HIDE DEF g, Is
  <2> QED BY <2>6, <2>7
<1> HIDE DEF S
<1>3. Nat \subseteq S
  BY <1>1, <1>2, NatSetInduction
<1>4. \A j \in Nat : \E f : Is(f, j)
  BY <1>3 DEF S
<1> DEFINE G == [j \in Nat |-> CHOOSE f : Is(f, j)]
           F == [j \in Nat |-> G[j][j]]
<1>5. \A j \in Nat : Is(G[j], j)
  <2> HIDE DEF Is
  <2> QED BY <1>4
<1>6. \A j \in Nat : \A l \in 0 .. j : G[j][l] = IF l = 0 THEN 1 ELSE 2 * G[j][l - 1]
  <2> HIDE DEF G
  <2> QED BY <1>5
<1>7. ASSUME NEW j \in Nat, NEW k \in Nat, j <= k
      PROVE  \A l \in 0 .. j : G[j][l] = G[k][l]
  <2> HIDE DEF G
  <2> DEFINE A == {l \in Nat : l \in 0 .. j => G[j][l] = G[k][l]}
  <2>1. 0 \in A
    BY <1>6, <1>7, 0 \in 0 .. j, 0 \in 0 .. k
  <2>2. ASSUME NEW l \in Nat, l \in A PROVE l + 1 \in A
    <3> SUFFICES ASSUME l + 1 \in 0 .. j PROVE G[j][l + 1] = G[k][l + 1]
      OBVIOUS
    <3>1. l + 1 \in 0 .. k /\ l \in 0 .. j /\ l + 1 # 0 /\ (l + 1) - 1 = l
      BY <1>7
    <3>2. G[j][l + 1] = 2 * G[j][l]
      BY <1>6, <3>1
    <3>3. G[k][l + 1] = 2 * G[k][l]
      BY <1>6, <3>1
    <3> QED BY <2>2, <3>1, <3>2, <3>3
  <2>3. Nat \subseteq A
    <3> HIDE DEF A
    <3> QED BY <2>1, <2>2, NatSetInduction
  <2> QED
    BY <2>3
<1>8. F = [l \in Nat |-> IF l = 0 THEN 1 ELSE 2 * F[l - 1]]
  <2> SUFFICES ASSUME NEW l \in Nat
               PROVE  F[l] = IF l = 0 THEN 1 ELSE 2 * F[l - 1]
    OBVIOUS
  <2>1. F[l] = G[l][l]
    OBVIOUS
  <2>2. CASE l = 0
    BY <1>6, <2>1, <2>2, 0 \in 0 .. 0
  <2>3. CASE l # 0
    <3>1. l - 1 \in Nat /\ l - 1 <= l /\ l - 1 \in 0 .. l - 1 /\ l \in 0 .. l
      BY <2>3
    <3>2. F[l - 1] = G[l - 1][l - 1]
      BY <3>1
    <3> HIDE DEF F, G
    <3>3. G[l - 1][l - 1] = G[l][l - 1]
      BY <1>7, <3>1
    <3>4. G[l][l] = 2 * G[l][l - 1]
      BY <1>6, <2>3, <3>1
    <3> QED BY <2>1, <2>3, <3>2, <3>3, <3>4
  <2> QED BY <2>2, <2>3
<1>9. \E f : f = [l \in Nat |-> IF l = 0 THEN 1 ELSE 2 * f[l - 1]]
  <2> HIDE DEF F
  <2> QED BY <1>8
<1>10. TwoTo = [l \in Nat |-> IF l = 0 THEN 1 ELSE 2 * TwoTo[l - 1]]
  BY <1>9 DEF TwoTo
<1> HIDE DEF F, G, Is
<1> QED
  BY <1>10

(* 2^l is a number above l, even but for the first. *)
LEMMA TwoToGrows ==
  /\ TwoTo[0] = 1
  /\ \A l \in Nat : TwoTo[l] \in Nat /\ TwoTo[l] > l
  /\ \A l \in Nat : TwoTo[l + 1] = 2 * TwoTo[l]
<1>1. TwoTo[0] = 1
  BY TwoToIs
<1>2. \A l \in Nat : TwoTo[l + 1] = 2 * TwoTo[l]
  <2> TAKE l \in Nat
  <2>1. l + 1 \in Nat /\ l + 1 # 0 /\ (l + 1) - 1 = l
    OBVIOUS
  <2> QED BY <2>1, TwoToIs
<1> DEFINE A == {l \in Nat : TwoTo[l] \in Nat /\ TwoTo[l] > l}
<1>3. 0 \in A
  BY <1>1
<1>4. ASSUME NEW l \in Nat, l \in A PROVE l + 1 \in A
  BY <1>2, <1>4
<1>5. Nat \subseteq A
  <2> HIDE DEF A
  <2> QED BY <1>3, <1>4, NatSetInduction
<1> QED
  BY <1>1, <1>2, <1>5

(* ceillog2 answers: the least power of two that is large enough. *)
LEMMA CeilLog2Is ==
  ASSUME NEW n \in Nat
  PROVE  CeilLog2(n) \in 0 .. n /\ TwoTo[CeilLog2(n)] >= n
<1> DEFINE A == {l \in Nat : TwoTo[l] >= n}
<1>1. n \in A
  BY TwoToGrows
<1>2. PICK l \in A : \A m \in A : l <= m
  <2>1. A \in SUBSET Nat /\ A # {}
    BY <1>1
  <2> HIDE DEF A
  <2> QED BY <2>1, NatMin
<1>3. l \in 0 .. n
  BY <1>1, <1>2
<1>4. l = 0 \/ TwoTo[l - 1] < n
  <2>1. CASE l # 0
    <3>1. l - 1 \in Nat /\ l - 1 < l
      BY <1>3, <2>1
    <3>2. l - 1 \notin A
      BY <1>2, <1>3, <3>1
    <3>3. ~(TwoTo[l - 1] >= n)
      BY <3>1, <3>2
    <3>4. TwoTo[l - 1] \in Nat
      BY <3>1, TwoToGrows
    <3> QED BY <3>3, <3>4
  <2> QED BY <2>1
<1>5. \E k \in 0 .. n : TwoTo[k] >= n /\ (k = 0 \/ TwoTo[k - 1] < n)
  BY <1>2, <1>3, <1>4
<1> QED
  BY <1>5 DEF CeilLog2

-----------------------------------------------------------------------------
(* A table with a hash part of n places, and its chains. *)

Vals == Value \cup {Nil}
Node(n) == [key : Key \cup {Nil}, dead : BOOLEAN, val : Vals, next : (0 .. n - 1) \cup {None}]
Table(n) == [array : Seq(Vals), node : [0 .. n - 1 -> Node(n)], dummy : BOOLEAN, lastfree : 0 .. n]

Taken(t) == {i \in DOMAIN t.node : t.node[i].key # Nil}
Main(t, i) == MainPosition(t, t.node[i].key)

(* Place j is in every set that has place i and what follows its members. *)
Closed(t, S) == \A p \in S : t.node[p].next # None => t.node[p].next \in S
Leads(t, i, j) == \A S \in SUBSET DOMAIN t.node : i \in S /\ Closed(t, S) => j \in S

(* No place is followed by itself, or by itself through others. *)
Acyclic(t) == \A S \in SUBSET DOMAIN t.node : S # {} => \E i \in S : t.node[i].next \notin S

(* The parts of a table. *)
LEMMA TableParts ==
  ASSUME NEW n \in Nat \ {0}, NEW t \in Table(n)
  PROVE  /\ DOMAIN t.node = 0 .. n - 1 /\ Size(t) = n
         /\ t.node \in [0 .. n - 1 -> Node(n)]
         /\ t.array \in Seq(Vals) /\ Len(t.array) \in Nat
         /\ \A i \in 0 .. n - 1 : /\ t.node[i] \in Node(n)
                                  /\ t.node[i].key \in Key \cup {Nil} /\ t.node[i].val \in Vals
                                  /\ t.node[i].next \in (0 .. n - 1) \cup {None}
                                  /\ t.node[i].dead \in BOOLEAN
         /\ t.dummy \in BOOLEAN /\ t.lastfree \in 0 .. n
<1>1. t.node \in [0 .. n - 1 -> Node(n)] /\ t.array \in Seq(Vals) /\ t.dummy \in BOOLEAN /\ t.lastfree \in 0 .. n
  BY DEF Table
<1>2. DOMAIN t.node = 0 .. n - 1
  BY <1>1
<1>3. Size(t) = n
  <2>1. Cardinality(0 .. n - 1) = n
    <3>1. 0 \in Int /\ n - 1 \in Int /\ ~(0 > n - 1) /\ (n - 1) - 0 + 1 = n
      OBVIOUS
    <3> QED BY <3>1, FS_Interval
  <2> QED BY <1>2, <2>1 DEF Size
<1>4. \A i \in 0 .. n - 1 : t.node[i] \in Node(n)
  BY <1>1
<1>5. \A i \in 0 .. n - 1 : /\ t.node[i].key \in Key \cup {Nil} /\ t.node[i].val \in Vals
                            /\ t.node[i].next \in (0 .. n - 1) \cup {None}
                            /\ t.node[i].dead \in BOOLEAN
  BY <1>4 DEF Node
<1>6. Len(t.array) \in Nat
  BY <1>1
<1> QED
  BY <1>1, <1>2, <1>3, <1>4, <1>5, <1>6

(* A main position is a place. *)
LEMMA MainIsPlace ==
  ASSUME NEW n \in Nat \ {0}, NEW t \in Table(n), NEW k \in Key
  PROVE  MainPosition(t, k) \in 0 .. n - 1
<1>1. Hash[k] \in Nat
  BY KeysAssumption
<1>2. Size(t) = n
  BY TableParts
<1>3. \A x \in Nat, m \in Nat \ {0} : x % m \in 0 .. m - 1
  OBVIOUS
<1>4. CASE k \in PowTwo
  BY <1>1, <1>2, <1>3, <1>4 DEF MainPosition
<1>5. CASE k \notin PowTwo
  <2>1. CASE n = 1
    BY <1>1, <1>2, <1>3, <1>5, <2>1 DEF MainPosition
  <2>2. CASE n # 1
    <3>1. n - 1 \in Nat \ {0}
      BY <2>2
    <3>2. Hash[k] % (n - 1) \in 0 .. (n - 1) - 1
      BY <1>1, <1>3, <3>1
    <3>3. MainPosition(t, k) = Hash[k] % (n - 1)
      BY <1>2, <1>5, <2>2 DEF MainPosition
    <3>4. \A x \in 0 .. (n - 1) - 1 : x \in 0 .. n - 1
      OBVIOUS
    <3> QED BY <3>2, <3>3, <3>4
  <2> QED BY <2>1, <2>2
<1> QED
  BY <1>4, <1>5

(* Main positions depend on the size of the hash part alone. *)
LEMMA MainSame ==
  ASSUME NEW t, NEW u, NEW k, Size(t) = Size(u)
  PROVE  MainPosition(t, k) = MainPosition(u, k)
BY DEF MainPosition

(* The recursive function of Chain, for k steps.                               *)
Walk(t, i, k, f) ==
  f = [n \in 0 .. k |-> IF n = 0 THEN i ELSE IF f[n - 1] = None THEN None ELSE t.node[f[n - 1]].next]

(* It exists, for any number of steps.                                         *)
LEMMA WalkExists ==
  ASSUME NEW t, NEW i, NEW k \in Nat
  PROVE  \E f : Walk(t, i, k, f)
<1> DEFINE Is(f, j) == f = [n \in 0 .. j |-> IF n = 0 THEN i
                                             ELSE IF f[n - 1] = None THEN None ELSE t.node[f[n - 1]].next]
           S == {j \in Nat : \E f : Is(f, j)}
<1>1. 0 \in S
  <2> DEFINE f == [n \in 0 .. 0 |-> i]
  <2>1. Is(f, 0)
    OBVIOUS
  <2> QED BY <2>1
<1>2. ASSUME NEW j \in Nat, j \in S PROVE j + 1 \in S
  <2>1. PICK f : Is(f, j)
    BY <1>2
  <2> DEFINE g == [n \in 0 .. j + 1 |-> IF n = 0 THEN i
                                        ELSE IF f[n - 1] = None THEN None ELSE t.node[f[n - 1]].next]
  <2>2. \A n \in 0 .. j : f[n] = IF n = 0 THEN i ELSE IF f[n - 1] = None THEN None ELSE t.node[f[n - 1]].next
    BY <2>1
  <2>3. \A n \in 0 .. j + 1 : n # 0 => n - 1 \in 0 .. j
    OBVIOUS
  <2>4. \A n \in 0 .. j : n \in 0 .. j + 1
    OBVIOUS
  <2>5. \A n \in 0 .. j : g[n] = f[n]
    BY <2>2, <2>4
  <2>6. Is(g, j + 1)
    <3> SUFFICES g = [n \in 0 .. j + 1 |-> IF n = 0 THEN i
                                           ELSE IF g[n - 1] = None THEN None ELSE t.node[g[n - 1]].next]
      OBVIOUS
    <3> QED BY <2>3, <2>5
  <2>7. j + 1 \in Nat
    OBVIOUS
  <2> HIDE DEF g, Is
  <2> QED BY <2>6, <2>7
<1> HIDE DEF S
<1>3. Nat \subseteq S
  BY <1>1, <1>2, NatSetInduction
<1> QED
  BY <1>3 DEF S, Walk

(* The chain from place i, step by step. *)
LEMMA ChainSteps ==
  ASSUME NEW n \in Nat \ {0}, NEW t \in Table(n), NEW i \in 0 .. n - 1
  PROVE  /\ DOMAIN Chain(t, i) = 0 .. n
         /\ Chain(t, i)[0] = i
         /\ \A m \in 1 .. n : Chain(t, i)[m] = IF Chain(t, i)[m - 1] = None THEN None
                                               ELSE t.node[Chain(t, i)[m - 1]].next
         /\ \A m \in 0 .. n : Chain(t, i)[m] \in (0 .. n - 1) \cup {None}
<1>1. Size(t) = n
  BY TableParts
<1> DEFINE c == Chain(t, i)
           w == CHOOSE f : f = [m \in 0 .. Size(t) |-> IF m = 0 THEN i
                                ELSE IF f[m - 1] = None THEN None ELSE t.node[f[m - 1]].next]
<1>2. w = [m \in 0 .. Size(t) |-> IF m = 0 THEN i ELSE IF w[m - 1] = None THEN None ELSE t.node[w[m - 1]].next]
  <2>1. Size(t) \in Nat
    BY <1>1
  <2>2. \E f : Walk(t, i, Size(t), f)
    BY <2>1, WalkExists
  <2> QED BY <2>2 DEF Walk
<1>3. c = [m \in 0 .. n |-> IF m = 0 THEN i ELSE IF c[m - 1] = None THEN None ELSE t.node[c[m - 1]].next]
  <2>1. c = w
    BY DEF Chain
  <2> HIDE DEF c, w
  <2> QED BY <1>1, <1>2, <2>1
<1> HIDE DEF c
<1>4. DOMAIN c = 0 .. n /\ c[0] = i
  BY <1>3
<1>5. \A m \in 1 .. n : c[m] = IF c[m - 1] = None THEN None ELSE t.node[c[m - 1]].next
  <2> TAKE m \in 1 .. n
  <2>1. m \in 0 .. n /\ m # 0
    OBVIOUS
  <2> QED BY <1>3, <2>1
<1> DEFINE A == {m \in Nat : m \in 0 .. n => c[m] \in (0 .. n - 1) \cup {None}}
<1>6. 0 \in A
  BY <1>4
<1>7. ASSUME NEW m \in Nat, m \in A PROVE m + 1 \in A
  <2> SUFFICES ASSUME m + 1 \in 0 .. n PROVE c[m + 1] \in (0 .. n - 1) \cup {None}
    OBVIOUS
  <2>1. m + 1 \in 1 .. n /\ m \in 0 .. n /\ (m + 1) - 1 = m
    OBVIOUS
  <2>2. c[m] \in (0 .. n - 1) \cup {None}
    BY <1>7, <2>1
  <2>3. c[m + 1] = IF c[m] = None THEN None ELSE t.node[c[m]].next
    BY <1>5, <2>1
  <2> QED BY <2>2, <2>3, TableParts
<1>8. Nat \subseteq A
  <2> HIDE DEF A
  <2> QED BY <1>6, <1>7, NatSetInduction
<1>9. \A m \in 0 .. n : c[m] \in (0 .. n - 1) \cup {None}
  BY <1>8
<1> QED
  BY <1>4, <1>5, <1>9 DEF c

(* A chain without a circle ends within as many steps as there are places. *)
LEMMA ChainEnds ==
  ASSUME NEW n \in Nat \ {0}, NEW t \in Table(n), NEW i \in 0 .. n - 1, Acyclic(t)
  PROVE  Chain(t, i)[n] = None
<1> SUFFICES ASSUME Chain(t, i)[n] # None PROVE FALSE
  OBVIOUS
<1>0. PICK c : c = Chain(t, i)
  OBVIOUS
<1>1. /\ DOMAIN c = 0 .. n
      /\ \A m \in 1 .. n : c[m] = IF c[m - 1] = None THEN None ELSE t.node[c[m - 1]].next
      /\ \A m \in 0 .. n : c[m] \in (0 .. n - 1) \cup {None}
      /\ c[n] # None
  BY <1>0, ChainSteps
<1> DEFINE A == {m \in Nat : m <= n => c[n - m] # None}
<1>2. 0 \in A
  BY <1>1
<1>3. ASSUME NEW m \in Nat, m \in A PROVE m + 1 \in A
  <2> SUFFICES ASSUME m + 1 <= n PROVE c[n - (m + 1)] # None
    OBVIOUS
  <2>1. n - m \in 1 .. n /\ (n - m) - 1 = n - (m + 1) /\ m <= n
    OBVIOUS
  <2>2. c[n - m] # None
    BY <1>3, <2>1
  <2> QED BY <1>1, <2>1, <2>2
<1>4. Nat \subseteq A
  <2> HIDE DEF A
  <2> QED BY <1>2, <1>3, NatSetInduction
<1>5. \A m \in 0 .. n : c[m] \in 0 .. n - 1
  <2> TAKE m \in 0 .. n
  <2>1. n - m \in Nat /\ n - m <= n /\ n - (n - m) = m
    OBVIOUS
  <2>2. n - m \in A
    BY <2>1, <1>4
  <2>3. c[n - (n - m)] # None
    BY <2>1, <2>2
  <2>4. c[m] # None
    BY <2>1, <2>3
  <2> QED BY <1>1, <2>4
<1> HIDE DEF A
<1>6. PICK a \in 0 .. n, b \in 0 .. n : a < b /\ c[a] = c[b]
  <2> DEFINE f == [m \in 0 .. n |-> c[m]]
  <2>1. f \in [0 .. n -> 0 .. n - 1]
    BY <1>5
  <2>2. IsFiniteSet(0 .. n) /\ Cardinality(0 .. n) = n + 1
    <3>1. 0 \in Int /\ n \in Int /\ ~(0 > n) /\ n - 0 + 1 = n + 1
      OBVIOUS
    <3> QED BY <3>1, FS_Interval
  <2>3. IsFiniteSet(0 .. n - 1) /\ Cardinality(0 .. n - 1) = n
    <3>1. 0 \in Int /\ n - 1 \in Int /\ ~(0 > n - 1) /\ (n - 1) - 0 + 1 = n
      OBVIOUS
    <3> QED BY <3>1, FS_Interval
  <2>4. Cardinality(0 .. n - 1) < Cardinality(0 .. n)
    BY <2>2, <2>3
  <2>5. \E x, y \in 0 .. n : x # y /\ f[x] = f[y]
    <3> HIDE DEF f
    <3> QED BY <2>1, <2>2, <2>3, <2>4, FS_PigeonHole
  <2>6. PICK x \in 0 .. n, y \in 0 .. n : x # y /\ c[x] = c[y]
    BY <2>5
  <2>7. x < y \/ y < x
    BY <2>6
  <2> QED BY <2>6, <2>7
<1> DEFINE S == {c[m] : m \in a .. b - 1}
<1>7. S \in SUBSET DOMAIN t.node /\ S # {}
  <2>1. \A m \in a .. b - 1 : m \in 0 .. n
    OBVIOUS
  <2>2. a \in a .. b - 1
    BY <1>6
  <2>3. c[a] \in S
    BY <2>2
  <2>4. S \subseteq 0 .. n - 1
    BY <1>5, <2>1
  <2>5. DOMAIN t.node = 0 .. n - 1
    BY TableParts
  <2> HIDE DEF S
  <2> QED BY <2>3, <2>4, <2>5
<1>8. PICK p \in S : t.node[p].next \notin S
  <2> HIDE DEF S
  <2> QED BY <1>7 DEF Acyclic
<1>9. PICK m \in a .. b - 1 : p = c[m]
  OBVIOUS
<1>10. m + 1 \in 1 .. n /\ m \in 0 .. n /\ (m + 1) - 1 = m
  OBVIOUS
<1>11. c[m + 1] = t.node[p].next
  <2>1. c[m] # None
    BY <1>5, <1>10, KeysAssumption
  <2> QED BY <1>1, <1>9, <1>10, <2>1
<1>12. c[m + 1] \in S
  <2>1. CASE m + 1 = b
    <3>1. a \in a .. b - 1
      BY <1>6
    <3> QED BY <1>6, <2>1, <3>1
  <2>2. CASE m + 1 # b
    <3>1. m + 1 \in a .. b - 1
      BY <2>2
    <3> QED BY <3>1
  <2> QED BY <2>1, <2>2
<1> QED
  BY <1>8, <1>11, <1>12

(* The chain from place i meets every place that i leads to. *)
LEMMA ChainMeets ==
  ASSUME NEW n \in Nat \ {0}, NEW t \in Table(n), NEW i \in 0 .. n - 1, NEW j \in 0 .. n - 1,
         Acyclic(t), Leads(t, i, j)
  PROVE  \E m \in 0 .. n : Chain(t, i)[m] = j
<1>0. PICK c : c = Chain(t, i)
  OBVIOUS
<1>1. /\ DOMAIN c = 0 .. n /\ c[0] = i
      /\ \A m \in 1 .. n : c[m] = IF c[m - 1] = None THEN None ELSE t.node[c[m - 1]].next
      /\ \A m \in 0 .. n : c[m] \in (0 .. n - 1) \cup {None}
      /\ c[n] = None
  BY <1>0, ChainSteps, ChainEnds
<1> DEFINE S == {p \in 0 .. n - 1 : \E m \in 0 .. n : c[m] = p}
<1>2. S \in SUBSET DOMAIN t.node /\ i \in S
  BY <1>1, TableParts, 0 \in 0 .. n
<1>3. Closed(t, S)
  <2> SUFFICES ASSUME NEW p \in S, t.node[p].next # None PROVE t.node[p].next \in S
    BY DEF Closed
  <2>1. PICK m \in 0 .. n : c[m] = p
    OBVIOUS
  <2>2. p # None
    BY KeysAssumption
  <2>3. m # n
    BY <1>1, <2>1, <2>2
  <2>4. m + 1 \in 1 .. n /\ m + 1 \in 0 .. n /\ (m + 1) - 1 = m
    BY <2>3
  <2>5. c[m + 1] = t.node[p].next
    BY <1>1, <2>1, <2>2, <2>4
  <2>6. c[m + 1] \in 0 .. n - 1
    BY <1>1, <2>4, <2>5
  <2> QED BY <2>4, <2>5, <2>6
<1>4. j \in S
  <2> HIDE DEF S
  <2> QED BY <1>2, <1>3 DEF Leads
<1> QED
  BY <1>0, <1>4

-----------------------------------------------------------------------------
(* The invariant.  It says of every place that was ever taken, dead keys and   *)
(* keys without a value included, what Chains says of those with a value: a    *)
(* key without a value may get one again, and a walk may stand at it.          *)

(* Links stay inside the taken places, at most one leads to a place, and none  *)
(* comes back to where it began.                                               *)
Links(t) ==
  /\ \A i \in DOMAIN t.node : i \notin Taken(t) => t.node[i] = Empty
  /\ \A i \in DOMAIN t.node : t.node[i].next # None => t.node[i].next \in Taken(t)
  /\ \A i, j \in DOMAIN t.node : t.node[i].next = t.node[j].next /\ t.node[i].next # None => i = j
  /\ Acyclic(t)

(* What is in the chain of a main position is led to from it; and a taken main *)
(* position has a key that belongs there, so no two chains meet.               *)
Mains(t) ==
  /\ \A i \in Taken(t) : Leads(t, Main(t, i), i)
  /\ \A i \in Taken(t) : Main(t, i) \in Taken(t) /\ Main(t, Main(t, i)) = Main(t, i)

(* A dead key has no value, no key of the hash part belongs in the array, and  *)
(* a key is live in one place only.                                            *)
Keys(t) ==
  /\ \A i \in Taken(t) : t.node[i].dead => t.node[i].val = Nil
  /\ \A i \in Taken(t) : ~InArray(t, t.node[i].key)
  /\ \A i, j \in Taken(t) : t.node[i].key = t.node[j].key /\ ~t.node[i].dead /\ ~t.node[j].dead => i = j
  /\ \A i \in 1 .. Len(t.array) : t.array[i] # Nil => i \in Ints

(* All from lastfree on is taken; the hash part of an empty table, dummynode,  *)
(* stays empty.                                                                *)
Room(t) ==
  /\ ~t.dummy => \A i \in DOMAIN t.node : i >= t.lastfree => i \in Taken(t)
  /\ t.dummy => Taken(t) = {} /\ Size(t) = 1 /\ t.lastfree = 0

Sound(t) == Links(t) /\ Mains(t) /\ Keys(t) /\ Room(t)

(* A key that is not dead comes before the dead ones with the same key: where  *)
(* next goes on is where it stood.                                             *)
Ahead(t) ==
  \A i, j \in Taken(t) : t.node[i].key = t.node[j].key /\ ~t.node[i].dead => Leads(t, i, j)

(* The places taken, and what is in them. *)
LEMMA TakenIs ==
  ASSUME NEW n \in Nat \ {0}, NEW t \in Table(n), NEW i \in Taken(t)
  PROVE  /\ i \in 0 .. n - 1 /\ i \in DOMAIN t.node /\ t.node[i].key \in Key
         /\ Main(t, i) \in 0 .. n - 1
<1>1. i \in 0 .. n - 1 /\ i \in DOMAIN t.node /\ t.node[i].key # Nil
  BY TableParts DEF Taken
<1>2. t.node[i].key \in Key
  BY <1>1, TableParts
<1> QED
  BY <1>1, <1>2, MainIsPlace DEF Main

(* A key that is in a place and not dead is found there. *)
LEMMA NodeOfFinds ==
  ASSUME NEW n \in Nat \ {0}, NEW t \in Table(n), Sound(t),
         NEW i \in Taken(t), ~t.node[i].dead
  PROVE  NodeOf(t, t.node[i].key) = i
<1>0. PICK k : k = t.node[i].key
  OBVIOUS
<1>1. PICK c : c = Chain(t, MainPosition(t, k))
  OBVIOUS
<1>2. i \in 0 .. n - 1 /\ k \in Key /\ MainPosition(t, k) \in 0 .. n - 1
  BY <1>0, TakenIs, MainIsPlace
<1>3. DOMAIN c = 0 .. n /\ \A m \in 0 .. n : c[m] \in (0 .. n - 1) \cup {None}
  BY <1>1, <1>2, ChainSteps
<1>4. PICK m \in 0 .. n : c[m] = i
  <2>1. Acyclic(t) /\ Leads(t, MainPosition(t, k), i)
    BY <1>0 DEF Sound, Links, Mains, Main
  <2> QED BY <1>1, <1>2, <2>1, ChainMeets
<1> DEFINE hit == {j \in DOMAIN c : c[j] # None /\ (t.node[c[j]].key = k /\ ~t.node[c[j]].dead)}
<1>5. hit \in SUBSET Nat /\ hit # {}
  <2>1. m \in hit
    BY <1>0, <1>2, <1>3, <1>4, KeysAssumption
  <2> QED BY <1>3, <2>1
<1>6. Min(hit) \in hit
  <2> HIDE DEF hit
  <2> QED BY <1>5, MinIs
<1>7. PICK h \in hit : h = Min(hit)
  BY <1>6
<1>8. c[h] \in 0 .. n - 1 /\ t.node[c[h]].key = k /\ ~t.node[c[h]].dead
  BY <1>3, <1>7
<1>9. c[h] \in Taken(t)
  BY <1>8, <1>2, TableParts, KeysAssumption DEF Taken
<1>10. c[h] = i
  BY <1>0, <1>8, <1>9 DEF Sound, Keys
<1>11. NodeOf(t, k) = IF hit = {} THEN None ELSE c[Min(hit)]
  BY <1>1 DEF NodeOf, FirstIn
<1> QED
  BY <1>0, <1>5, <1>7, <1>10, <1>11

(* What NodeOf answers is a place that has the key. *)
LEMMA NodeOfIs ==
  ASSUME NEW n \in Nat \ {0}, NEW t \in Table(n), NEW k \in Key, NodeOf(t, k) # None
  PROVE  /\ NodeOf(t, k) \in Taken(t) /\ t.node[NodeOf(t, k)].key = k /\ ~t.node[NodeOf(t, k)].dead
<1>1. PICK c : c = Chain(t, MainPosition(t, k))
  OBVIOUS
<1>2. MainPosition(t, k) \in 0 .. n - 1
  BY MainIsPlace
<1>3. DOMAIN c = 0 .. n /\ \A m \in 0 .. n : c[m] \in (0 .. n - 1) \cup {None}
  BY <1>1, <1>2, ChainSteps
<1> DEFINE hit == {j \in DOMAIN c : c[j] # None /\ (t.node[c[j]].key = k /\ ~t.node[c[j]].dead)}
<1>4. NodeOf(t, k) = IF hit = {} THEN None ELSE c[Min(hit)]
  BY <1>1 DEF NodeOf, FirstIn
<1>5. hit # {} /\ hit \in SUBSET Nat
  BY <1>3, <1>4
<1>6. Min(hit) \in hit
  <2> HIDE DEF hit
  <2> QED BY <1>5, MinIs
<1>7. PICK h \in hit : h = Min(hit)
  BY <1>6
<1>8. c[h] \in 0 .. n - 1 /\ t.node[c[h]].key = k /\ ~t.node[c[h]].dead
  BY <1>3, <1>7
<1>9. NodeOf(t, k) = c[h]
  BY <1>4, <1>5, <1>7
<1>10. c[h] \in Taken(t)
  BY <1>8, TableParts, KeysAssumption DEF Taken
<1> QED
  BY <1>8, <1>9, <1>10

(* A key in no place is not found. *)
LEMMA NodeOfMisses ==
  ASSUME NEW n \in Nat \ {0}, NEW t \in Table(n), NEW k \in Key,
         \A i \in Taken(t) : t.node[i].key = k => t.node[i].dead
  PROVE  NodeOf(t, k) = None
BY NodeOfIs

(* The place findindex goes on from has the key, dead or not. *)
LEMMA FindIndexIs ==
  ASSUME NEW n \in Nat \ {0}, NEW t \in Table(n), Sound(t),
         NEW i \in Taken(t)
  PROVE  \E j \in Taken(t) : /\ t.node[j].key = t.node[i].key
                             /\ FindIndex(t, t.node[i].key) = Len(t.array) + j + 1
                             /\ Leads(t, j, i)
<1>0. PICK k : k = t.node[i].key
  OBVIOUS
<1>1. PICK c : c = Chain(t, MainPosition(t, k))
  OBVIOUS
<1>2. i \in 0 .. n - 1 /\ k \in Key /\ MainPosition(t, k) \in 0 .. n - 1
  BY <1>0, TakenIs, MainIsPlace
<1>3. DOMAIN c = 0 .. n /\ \A m \in 0 .. n : c[m] \in (0 .. n - 1) \cup {None}
  BY <1>1, <1>2, ChainSteps
<1>4. PICK m \in 0 .. n : c[m] = i
  <2>1. Acyclic(t) /\ Leads(t, MainPosition(t, k), i)
    BY <1>0 DEF Sound, Links, Mains, Main
  <2> QED BY <1>1, <1>2, <2>1, ChainMeets
<1> DEFINE hit == {j \in DOMAIN c : c[j] # None /\ t.node[c[j]].key = k}
           found == IF hit = {} THEN None ELSE c[Min(hit)]
<1>5. hit \in SUBSET Nat /\ hit # {}
  <2>1. m \in hit
    BY <1>0, <1>2, <1>3, <1>4, KeysAssumption
  <2> QED BY <1>3, <2>1
<1>6. Min(hit) \in hit
  <2> HIDE DEF hit
  <2> QED BY <1>5, MinIs
<1>7. PICK h \in hit : h = Min(hit)
  BY <1>6
<1>8. c[h] \in 0 .. n - 1 /\ t.node[c[h]].key = k
  BY <1>3, <1>7
<1>9. c[h] \in Taken(t)
  BY <1>8, <1>2, TableParts, KeysAssumption DEF Taken
<1>10. k # Nil /\ ~InArray(t, k)
  BY <1>0, <1>2, KeysAssumption DEF Sound, Keys
<1>11. found = c[h] /\ c[h] # None
  BY <1>5, <1>7
<1>12. FindIndex(t, k) = IF k = Nil THEN 0 ELSE IF InArray(t, k) THEN k
                         ELSE IF found = None THEN -1 ELSE Len(t.array) + found + 1
  BY <1>1 DEF FindIndex, FirstIn
<1>13. FindIndex(t, k) = Len(t.array) + c[h] + 1
  <2> HIDE DEF found
  <2> QED BY <1>10, <1>11, <1>12
<1>14. Leads(t, c[h], i)
  <2> SUFFICES ASSUME NEW S \in SUBSET DOMAIN t.node, c[h] \in S, Closed(t, S) PROVE i \in S
    BY DEF Leads
  <2>1. h <= m /\ h \in 0 .. n /\ h \in Nat /\ m \in Nat
    <3>1. m \in hit
      BY <1>0, <1>2, <1>3, <1>4, KeysAssumption
    <3>2. h <= m
      <4> HIDE DEF hit
      <4> QED BY <1>5, <1>7, <3>1, MinIs
    <3> QED BY <1>3, <3>2
  <2>2. \A x \in 1 .. n : c[x] = IF c[x - 1] = None THEN None ELSE t.node[c[x - 1]].next
    BY <1>1, <1>2, ChainSteps
  <2> DEFINE D == {d \in Nat : h + d <= m => c[h + d] \in S \/ c[h + d] = None}
  <2>3. 0 \in D
    <3>1. h + 0 = h
      BY <2>1
    <3> QED BY <3>1
  <2>4. ASSUME NEW d \in Nat, d \in D PROVE d + 1 \in D
    <3> SUFFICES ASSUME h + (d + 1) <= m PROVE c[h + (d + 1)] \in S \/ c[h + (d + 1)] = None
      OBVIOUS
    <3>1. h + (d + 1) \in 1 .. n /\ (h + (d + 1)) - 1 = h + d /\ h + d <= m
      BY <2>1
    <3>2. c[h + (d + 1)] = IF c[h + d] = None THEN None ELSE t.node[c[h + d]].next
      BY <2>2, <3>1
    <3>3. c[h + d] \in S \/ c[h + d] = None
      BY <2>4, <3>1
    <3> QED BY <3>2, <3>3 DEF Closed
  <2>5. Nat \subseteq D
    <3> HIDE DEF D
    <3> QED BY <2>3, <2>4, NatSetInduction
  <2>6. m - h \in Nat /\ h + (m - h) = m
    BY <2>1
  <2>7. m - h \in D
    BY <2>5, <2>6
  <2>8. c[m] \in S \/ c[m] = None
    BY <2>6, <2>7
  <2>9. i # None
    BY <1>2, KeysAssumption
  <2> QED BY <1>4, <2>8, <2>9
<1> QED
  BY <1>0, <1>8, <1>9, <1>13, <1>14

-----------------------------------------------------------------------------
(* newkey. *)

(* getfreepos answers a place that was never taken, above which all are taken; *)
(* or none where all are taken.                                                *)
LEMMA FreePosIs ==
  ASSUME NEW n \in Nat \ {0}, NEW t \in Table(n), Sound(t), ~t.dummy
  PROVE  IF FreePos(t) = None THEN Taken(t) = 0 .. n - 1
         ELSE /\ FreePos(t) \in 0 .. n - 1 /\ FreePos(t) \notin Taken(t)
              /\ \A i \in 0 .. n - 1 : i > FreePos(t) => i \in Taken(t)
<1> DEFINE f == {i \in DOMAIN t.node : i < t.lastfree /\ t.node[i].key = Nil}
<1>1. DOMAIN t.node = 0 .. n - 1 /\ t.lastfree \in 0 .. n
  BY TableParts
<1>2. \A i \in 0 .. n - 1 : i >= t.lastfree => i \in Taken(t)
  BY <1>1 DEF Sound, Room
<1>3. \A i \in 0 .. n - 1 : i \notin f => i \in Taken(t)
  <2> TAKE i \in 0 .. n - 1
  <2>1. i < t.lastfree \/ i >= t.lastfree
    BY <1>1
  <2> QED BY <1>1, <1>2, <2>1 DEF Taken
<1>4. f \in SUBSET Nat /\ \A i \in f : i <= n /\ i \in 0 .. n - 1 /\ i \notin Taken(t)
  BY <1>1 DEF Taken
<1>5. FreePos(t) = IF f = {} THEN None ELSE Max(f)
  BY DEF FreePos
<1>6. CASE f = {}
  <2>1. Taken(t) \subseteq 0 .. n - 1
    BY <1>1 DEF Taken
  <2> QED BY <1>3, <1>5, <1>6, <2>1
<1>7. CASE f # {}
  <2> HIDE DEF f
  <2>1. n \in Nat
    OBVIOUS
  <2>2. Max(f) \in f /\ \A i \in f : i <= Max(f)
    BY <1>4, <1>7, <2>1, MaxIs
  <2>3. FreePos(t) = Max(f) /\ Max(f) \in 0 .. n - 1
    BY <1>4, <1>5, <1>7, <2>2
  <2>4. FreePos(t) # None
    BY <2>3, KeysAssumption
  <2>5. \A i \in 0 .. n - 1 : i > Max(f) => i \in Taken(t)
    BY <1>3, <2>2, <2>3
  <2> QED BY <1>4, <2>2, <2>3, <2>4, <2>5
<1> QED
  BY <1>6, <1>7

(* What a new key does to the contents of the places: it is in one, and all    *)
(* that had a value is in some place with the key and value it had.            *)
SameEntry(e, f) == e.key = f.key /\ e.dead = f.dead /\ e.val = f.val
IsEntry(e, k, v) == e.key = k /\ ~e.dead /\ e.val = v

Moved(t, u, k, v) ==
  /\ \E j \in Taken(u) : IsEntry(u.node[j], k, v)
  /\ \A i \in Taken(t) : t.node[i].val # Nil => \E j \in Taken(u) : SameEntry(u.node[j], t.node[i])
  /\ \A j \in Taken(u) : \/ IsEntry(u.node[j], k, v)
                         \/ \E i \in Taken(t) : SameEntry(u.node[j], t.node[i])
  /\ \E p \in DOMAIN t.node : Taken(u) = Taken(t) \cup {p}

(* What is known when newkey is called. *)
Insertable(t, k, v) ==
  /\ Sound(t) /\ ~t.dummy
  /\ k \in Key /\ v \in Vals /\ ~InArray(t, k)
  /\ \A i \in Taken(t) : t.node[i].key = k => t.node[i].dead

(* The place of the key is free, or its value is nil: the links stay.          *)
LEMMA NewKeyAtHome ==
  ASSUME NEW n \in Nat \ {0}, NEW t \in Table(n), NEW k, NEW v, Insertable(t, k, v),
         t.node[MainPosition(t, k)].val = Nil
  PROVE  /\ NewKey(t, k, v) \in Table(n) /\ Sound(NewKey(t, k, v))
         /\ NewKey(t, k, v).array = t.array /\ ~NewKey(t, k, v).dummy
         /\ Moved(t, NewKey(t, k, v), k, v)
         /\ Ahead(t) => Ahead(NewKey(t, k, v))
<1>0. PICK mp : mp = MainPosition(t, k)
  OBVIOUS
<1>1. PICK new : new = [key |-> k, dead |-> FALSE, val |-> v, next |-> t.node[mp].next]
  OBVIOUS
<1>2. PICK u : u = NewKey(t, k, v)
  OBVIOUS
<1>3. u = [t EXCEPT !.node[mp] = new]
  <2>1. t.node[mp].val = Nil /\ ~t.dummy
    BY <1>0 DEF Insertable
  <2> QED BY <1>0, <1>1, <1>2, <2>1, Zenon DEF NewKey
<1>4. k \in Key /\ v \in Vals /\ k # Nil /\ mp \in 0 .. n - 1
  BY <1>0, MainIsPlace, KeysAssumption DEF Insertable
<1>5. new \in Node(n) /\ new.key = k /\ new.val = v /\ ~new.dead /\ new.next = t.node[mp].next
  BY <1>1, <1>4, TableParts DEF Node
<1>6. u \in Table(n)
  BY <1>3, <1>4, <1>5 DEF Table
<1>7. DOMAIN u.node = 0 .. n - 1 /\ DOMAIN t.node = 0 .. n - 1 /\ Size(u) = n /\ Size(t) = n
  BY <1>6, TableParts
<1>8. /\ u.array = t.array /\ u.dummy = t.dummy /\ u.lastfree = t.lastfree
      /\ u.node[mp] = new
      /\ \A i \in 0 .. n - 1 : i # mp => u.node[i] = t.node[i]
      /\ \A i \in 0 .. n - 1 : u.node[i].next = t.node[i].next
  BY <1>3, <1>4, <1>5, <1>7 DEF Table
<1>9. Taken(u) = Taken(t) \cup {mp}
  BY <1>4, <1>5, <1>7, <1>8 DEF Taken
<1>10. \A x : MainPosition(u, x) = MainPosition(t, x)
  BY <1>7, MainSame
<1>11. /\ Main(u, mp) = mp
       /\ \A i \in 0 .. n - 1 : i # mp => Main(u, i) = Main(t, i)
  BY <1>0, <1>5, <1>8, <1>10 DEF Main
<1>12. Links(t) /\ Mains(t) /\ Keys(t) /\ Room(t) /\ ~t.dummy
  BY DEF Insertable, Sound
<1>13. Links(u)
  <2>1. Acyclic(u)
    BY <1>7, <1>8, <1>12 DEF Links, Acyclic
  <2>2. \A i \in DOMAIN u.node : i \notin Taken(u) => u.node[i] = Empty
    BY <1>7, <1>8, <1>9, <1>12 DEF Links
  <2>3. \A i \in DOMAIN u.node : u.node[i].next # None => u.node[i].next \in Taken(u)
    BY <1>7, <1>8, <1>9, <1>12 DEF Links
  <2>4. \A i, j \in DOMAIN u.node : u.node[i].next = u.node[j].next /\ u.node[i].next # None => i = j
    BY <1>7, <1>8, <1>12 DEF Links
  <2> QED BY <2>1, <2>2, <2>3, <2>4 DEF Links
<1>14. \A S \in SUBSET (0 .. n - 1) : Closed(u, S) <=> Closed(t, S)
  BY <1>8 DEF Closed
<1>15. Mains(u)
  <2>1. ASSUME NEW i \in Taken(u)
        PROVE  /\ Leads(u, Main(u, i), i)
               /\ Main(u, i) \in Taken(u) /\ Main(u, Main(u, i)) = Main(u, i)
    <3>1. CASE i = mp
      <4>1. Leads(u, mp, mp)
        BY DEF Leads
      <4> QED BY <1>9, <1>11, <3>1, <4>1
    <3>2. CASE i # mp
      <4>1. i \in Taken(t) /\ i \in 0 .. n - 1 /\ Main(u, i) = Main(t, i)
        BY <1>7, <1>9, <1>11, <3>2 DEF Taken
      <4>2. Leads(t, Main(t, i), i) /\ Main(t, i) \in Taken(t) /\ Main(t, Main(t, i)) = Main(t, i)
        BY <1>12, <4>1 DEF Mains
      <4>3. Leads(u, Main(t, i), i)
        BY <1>7, <1>14, <4>2 DEF Leads
      <4>4. Main(t, i) \in 0 .. n - 1
        BY <1>7, <4>2 DEF Taken
      <4>5. Main(u, Main(t, i)) = Main(t, i)
        BY <1>11, <4>2, <4>4
      <4> QED BY <1>9, <4>1, <4>2, <4>3, <4>5
    <3> QED BY <3>1, <3>2
  <2> QED BY <2>1 DEF Mains
<1>16. Keys(u)
  <2>1. ~InArray(t, k) /\ \A i \in Taken(t) : t.node[i].key = k => t.node[i].dead
    BY DEF Insertable
  <2>2. \A x : InArray(u, x) <=> InArray(t, x)
    BY <1>8 DEF InArray
  <2>3. \A i \in Taken(u) : i # mp => i \in Taken(t) /\ u.node[i] = t.node[i]
    BY <1>7, <1>8, <1>9 DEF Taken
  <2>4. \A i \in Taken(u) : u.node[i].dead => u.node[i].val = Nil
    BY <1>5, <1>8, <1>12, <2>3 DEF Keys
  <2>5. \A i \in Taken(u) : ~InArray(u, u.node[i].key)
    BY <1>5, <1>8, <1>12, <2>1, <2>2, <2>3 DEF Keys
  <2>6. \A i, j \in Taken(u) : u.node[i].key = u.node[j].key /\ ~u.node[i].dead /\ ~u.node[j].dead => i = j
    BY <1>5, <1>8, <1>12, <2>1, <2>3 DEF Keys
  <2> QED BY <1>8, <1>12, <2>4, <2>5, <2>6 DEF Keys
<1>17. Room(u)
  BY <1>7, <1>8, <1>9, <1>12 DEF Room
<1>18. Moved(t, u, k, v)
  <2>0. \A i \in Taken(u) : i # mp => i \in Taken(t) /\ u.node[i] = t.node[i]
    BY <1>7, <1>8, <1>9 DEF Taken
  <2>1. \E j \in Taken(u) : IsEntry(u.node[j], k, v)
    BY <1>5, <1>8, <1>9 DEF IsEntry
  <2>2. \A i \in Taken(t) : t.node[i].val # Nil => \E j \in Taken(u) : SameEntry(u.node[j], t.node[i])
    <3> SUFFICES ASSUME NEW i \in Taken(t), t.node[i].val # Nil
                 PROVE  \E j \in Taken(u) : SameEntry(u.node[j], t.node[i])
      OBVIOUS
    <3>1. i # mp
      BY <1>0
    <3>2. i \in Taken(u) /\ u.node[i] = t.node[i]
      BY <1>7, <1>8, <1>9, <3>1 DEF Taken
    <3> QED BY <3>2 DEF SameEntry
  <2>3. \A j \in Taken(u) : IsEntry(u.node[j], k, v) \/ \E i \in Taken(t) : SameEntry(u.node[j], t.node[i])
    BY <1>5, <1>8, <2>0 DEF IsEntry, SameEntry
  <2>4. \E p \in DOMAIN t.node : Taken(u) = Taken(t) \cup {p}
    BY <1>4, <1>7, <1>9
  <2> QED BY <2>1, <2>2, <2>3, <2>4 DEF Moved
<1>19. ASSUME Ahead(t), NEW i \in Taken(u), NEW j \in Taken(u),
              u.node[i].key = u.node[j].key, ~u.node[i].dead
       PROVE  Leads(u, i, j)
  <2>1. \A x, y : Leads(u, x, y) <=> Leads(t, x, y)
    BY <1>7, <1>14 DEF Leads
  <2>2. \A x \in Taken(u) : x # mp => x \in Taken(t) /\ u.node[x] = t.node[x]
    BY <1>7, <1>8, <1>9 DEF Taken
  <2>3. CASE i = j
    BY <2>3 DEF Leads
  <2>4. CASE i = mp /\ j # mp
    <3>1. j \in Taken(t) /\ t.node[j].key = k
      BY <1>5, <1>8, <1>19, <2>2, <2>4
    <3>2. Leads(t, Main(t, j), j)
      BY <1>12, <3>1 DEF Mains
    <3>3. Main(t, j) = mp
      BY <1>0, <3>1 DEF Main
    <3> QED BY <2>1, <2>4, <3>2, <3>3
  <2>5. CASE i # mp /\ j = mp
    <3>1. i \in Taken(t) /\ t.node[i].key = k /\ ~t.node[i].dead
      BY <1>5, <1>8, <1>19, <2>2, <2>5
    <3> QED BY <3>1 DEF Insertable
  <2>6. CASE i # mp /\ j # mp
    <3>1. i \in Taken(t) /\ j \in Taken(t) /\ t.node[i].key = t.node[j].key /\ ~t.node[i].dead
      BY <1>19, <2>2, <2>6
    <3>2. Leads(t, i, j)
      BY <1>19, <3>1 DEF Ahead
    <3> QED BY <2>1, <3>2
  <2> QED BY <2>3, <2>4, <2>5, <2>6
<1>20. Ahead(t) => Ahead(u)
  BY <1>19 DEF Ahead
<1> QED
  BY <1>2, <1>6, <1>8, <1>12, <1>13, <1>15, <1>16, <1>17, <1>18, <1>20 DEF Sound

(* What both ways of taking a free place have in common: the keys stay what    *)
(* they are, but for the place taken and the main position.                    *)
Settled(t, u, k, v, mp, q) ==
  /\ u.array = t.array /\ ~u.dummy /\ u.lastfree = q
  /\ Taken(u) = Taken(t) \cup {q}
  /\ \A i \in Taken(t) : i # mp => SameEntry(u.node[i], t.node[i])
  /\ \/ SameEntry(u.node[mp], t.node[mp]) /\ IsEntry(u.node[q], k, v)
     \/ SameEntry(u.node[q], t.node[mp]) /\ IsEntry(u.node[mp], k, v)

(* Such a step keeps each live key in one place and the free pointer above     *)
(* what is free, and moves entries as Moved says.                              *)
LEMMA SettledKeys ==
  ASSUME NEW n \in Nat \ {0}, NEW t \in Table(n), NEW u \in Table(n), NEW k, NEW v,
         Insertable(t, k, v), NEW mp \in Taken(t), NEW q \in 0 .. n - 1,
         q \notin Taken(t), \A i \in 0 .. n - 1 : i > q => i \in Taken(t),
         Settled(t, u, k, v, mp, q)
  PROVE  Keys(u) /\ Room(u) /\ Moved(t, u, k, v)
<1>1. DOMAIN u.node = 0 .. n - 1 /\ DOMAIN t.node = 0 .. n - 1 /\ Taken(t) \subseteq 0 .. n - 1
  BY TableParts DEF Taken
<1>2. Keys(t) /\ Room(t) /\ ~t.dummy
  BY DEF Insertable, Sound
<1>3. mp # q /\ Taken(u) = Taken(t) \cup {q}
  BY DEF Settled
<1>4. ~InArray(t, k) /\ \A i \in Taken(t) : t.node[i].key = k => t.node[i].dead
  BY DEF Insertable
    (* Where the entry of each place was before. *)
<1>5. PICK f : /\ f \in [Taken(u) -> Taken(t) \cup {q}]
               /\ \A i, j \in Taken(u) : f[i] = f[j] => i = j
               /\ \A i \in Taken(u) : f[i] = q <=> IsEntry(u.node[i], k, v)
               /\ \A i \in Taken(u) : f[i] # q => SameEntry(u.node[i], t.node[f[i]])
               /\ \A i \in Taken(t) : \E j \in Taken(u) : f[j] = i
               /\ \E j \in Taken(u) : f[j] = q
  <2>1. \A i \in Taken(t) : t.node[i].key = k => t.node[i].dead
    BY <1>4
  <2>2. ASSUME NEW e, NEW i \in Taken(t), SameEntry(e, t.node[i]) PROVE ~IsEntry(e, k, v)
    BY <2>1, <2>2 DEF SameEntry, IsEntry
  <2>3. CASE SameEntry(u.node[mp], t.node[mp]) /\ IsEntry(u.node[q], k, v)
    <3> DEFINE f == [i \in Taken(u) |-> i]
    <3>1. f \in [Taken(u) -> Taken(t) \cup {q}]
      BY <1>3
    <3>2. \A i, j \in Taken(u) : f[i] = f[j] => i = j
      OBVIOUS
    <3>3. \A i \in Taken(u) : f[i] # q => SameEntry(u.node[i], t.node[f[i]])
      BY <1>3, <2>3 DEF Settled
    <3>4. \A i \in Taken(u) : f[i] = q <=> IsEntry(u.node[i], k, v)
      BY <1>3, <2>2, <2>3, <3>3
    <3>5. \A i \in Taken(t) : \E j \in Taken(u) : f[j] = i
      BY <1>3
    <3>6. \E j \in Taken(u) : f[j] = q
      BY <1>3
    <3> HIDE DEF f
    <3> QED BY <3>1, <3>2, <3>3, <3>4, <3>5, <3>6
  <2>4. CASE SameEntry(u.node[q], t.node[mp]) /\ IsEntry(u.node[mp], k, v)
    <3> DEFINE f == [i \in Taken(u) |-> IF i = q THEN mp ELSE IF i = mp THEN q ELSE i]
    <3>1. f \in [Taken(u) -> Taken(t) \cup {q}]
      BY <1>3
    <3>2. \A i, j \in Taken(u) : f[i] = f[j] => i = j
      BY <1>3
    <3>3. \A i \in Taken(u) : f[i] # q => SameEntry(u.node[i], t.node[f[i]])
      BY <1>3, <2>4 DEF Settled
    <3>4. \A i \in Taken(u) : f[i] = q <=> IsEntry(u.node[i], k, v)
      <4> TAKE i \in Taken(u)
      <4>1. CASE i = mp
        BY <1>3, <2>4, <4>1
      <4>2. CASE i # mp
        <5>1. f[i] # q /\ f[i] \in Taken(t)
          BY <1>3, <4>2
        <5>2. SameEntry(u.node[i], t.node[f[i]])
          BY <3>3, <5>1
        <5> HIDE DEF f
        <5> QED BY <2>2, <5>1, <5>2
      <4> QED BY <4>1, <4>2
    <3>5. \A i \in Taken(t) : \E j \in Taken(u) : f[j] = i
      <4> TAKE i \in Taken(t)
      <4>1. CASE i = mp
        BY <1>3, <4>1
      <4>2. CASE i # mp
        BY <1>3, <4>2
      <4> QED BY <4>1, <4>2
    <3>6. \E j \in Taken(u) : f[j] = q
      BY <1>3
    <3> HIDE DEF f
    <3> QED BY <3>1, <3>2, <3>3, <3>4, <3>5, <3>6
  <2> QED BY <2>3, <2>4 DEF Settled
<1>6. Keys(u)
  <2>1. \A i \in Taken(u) : u.node[i].dead => u.node[i].val = Nil
    BY <1>2, <1>5 DEF Keys, SameEntry, IsEntry
  <2>2. \A x : InArray(u, x) <=> InArray(t, x)
    BY DEF InArray, Settled
  <2>3. \A i \in Taken(u) : ~InArray(u, u.node[i].key)
    BY <1>2, <1>4, <1>5, <2>2 DEF Keys, SameEntry, IsEntry
  <2>4. ASSUME NEW i \in Taken(u), NEW j \in Taken(u),
               u.node[i].key = u.node[j].key, ~u.node[i].dead, ~u.node[j].dead
        PROVE  i = j
    <3>1. CASE f[i] = q /\ f[j] = q
      BY <1>5, <3>1
    <3>2. CASE f[i] = q /\ f[j] # q
      <4>1. f[j] \in Taken(t) /\ t.node[f[j]].key = k /\ ~t.node[f[j]].dead
        BY <1>5, <2>4, <3>2 DEF SameEntry, IsEntry
      <4> QED BY <1>4, <4>1
    <3>3. CASE f[i] # q /\ f[j] = q
      <4>1. f[i] \in Taken(t) /\ t.node[f[i]].key = k /\ ~t.node[f[i]].dead
        BY <1>5, <2>4, <3>3 DEF SameEntry, IsEntry
      <4> QED BY <1>4, <4>1
    <3>4. CASE f[i] # q /\ f[j] # q
      <4>1. f[i] \in Taken(t) /\ f[j] \in Taken(t) /\ t.node[f[i]].key = t.node[f[j]].key
            /\ ~t.node[f[i]].dead /\ ~t.node[f[j]].dead
        BY <1>5, <2>4, <3>4 DEF SameEntry
      <4>2. f[i] = f[j]
        BY <1>2, <4>1 DEF Keys
      <4> QED BY <1>5, <4>2
    <3> QED BY <3>1, <3>2, <3>3, <3>4
  <2>5. \A i \in 1 .. Len(u.array) : u.array[i] # Nil => i \in Ints
    BY <1>2 DEF Settled, Keys
  <2> QED BY <2>1, <2>3, <2>4, <2>5 DEF Keys
<1>7. Room(u)
  <2>1. \A i \in 0 .. n - 1 : i >= q => i = q \/ i > q
    OBVIOUS
  <2>2. ~u.dummy /\ u.lastfree = q
    BY DEF Settled
  <2>3. \A i \in DOMAIN u.node : i >= u.lastfree => i \in Taken(u)
    BY <1>1, <1>3, <2>1, <2>2
  <2> QED BY <2>2, <2>3 DEF Room
<1>8. Moved(t, u, k, v)
  <2>1. \E j \in Taken(u) : IsEntry(u.node[j], k, v)
    BY <1>5
  <2>2. \A i \in Taken(t) : \E j \in Taken(u) : SameEntry(u.node[j], t.node[i])
    <3> TAKE i \in Taken(t)
    <3>1. PICK j \in Taken(u) : f[j] = i
      BY <1>5
    <3>2. f[j] # q
      BY <3>1
    <3>3. SameEntry(u.node[j], t.node[i])
      BY <1>5, <3>1, <3>2
    <3> QED BY <3>3
  <2>3. \A j \in Taken(u) : IsEntry(u.node[j], k, v) \/ \E i \in Taken(t) : SameEntry(u.node[j], t.node[i])
    <3> TAKE j \in Taken(u)
    <3>1. f[j] # q => f[j] \in Taken(t) /\ SameEntry(u.node[j], t.node[f[j]])
      BY <1>5
    <3> QED BY <1>5, <3>1
  <2>4. \E p \in DOMAIN t.node : Taken(u) = Taken(t) \cup {p}
    BY <1>1, <1>3
  <2> QED BY <2>1, <2>2, <2>3, <2>4 DEF Moved
<1> QED
  BY <1>6, <1>7, <1>8

(* What is known when newkey takes a free place q. *)
LEMMA FreePlace ==
  ASSUME NEW n \in Nat \ {0}, NEW t \in Table(n), NEW k, NEW v, Insertable(t, k, v), ~Full(t, k),
         NEW mp, mp = MainPosition(t, k), t.node[mp].val # Nil, NEW q, q = FreePos(t)
  PROVE  /\ k \in Key /\ v \in Vals /\ k # Nil
         /\ mp \in Taken(t) /\ mp \in 0 .. n - 1 /\ q \in 0 .. n - 1 /\ q \notin Taken(t) /\ q # mp
         /\ \A i \in 0 .. n - 1 : i > q => i \in Taken(t)
         /\ t.node[q] = Empty /\ t.node[q].next = None /\ q # None
         /\ \A i \in 0 .. n - 1 : t.node[i].next # q
         /\ ~t.node[mp].dead
<1>1. k \in Key /\ v \in Vals /\ k # Nil /\ mp \in 0 .. n - 1
  BY MainIsPlace, KeysAssumption DEF Insertable
<1>2. DOMAIN t.node = 0 .. n - 1
  BY TableParts
<1>3. Sound(t) /\ ~t.dummy
  BY DEF Insertable
<1>4. Links(t) /\ Keys(t)
  BY <1>3 DEF Sound
<1>5. mp \in Taken(t)
  BY <1>1, <1>2, <1>4 DEF Links, Empty
<1>6. FreePos(t) # None
  BY DEF Full
<1>7. q \in 0 .. n - 1 /\ q \notin Taken(t) /\ \A i \in 0 .. n - 1 : i > q => i \in Taken(t)
  BY <1>3, <1>6, FreePosIs
<1>8. t.node[q] = Empty
  BY <1>2, <1>4, <1>7 DEF Links
<1>9. t.node[q].next = None
  BY <1>8 DEF Empty
<1>10. q # None
  BY <1>6
<1>11. \A i \in 0 .. n - 1 : t.node[i].next # q
  BY <1>2, <1>4, <1>7, <1>10 DEF Links
<1>12. ~t.node[mp].dead
  BY <1>4, <1>5 DEF Keys
<1> QED
  BY <1>1, <1>5, <1>7, <1>8, <1>9, <1>10, <1>11, <1>12

(* The colliding node is in its main position: the new key goes to the free    *)
(* place, second in the chain.                                                 *)
LEMMA NewKeyBehind ==
  ASSUME NEW n \in Nat \ {0}, NEW t \in Table(n), NEW k, NEW v, Insertable(t, k, v), ~Full(t, k),
         t.node[MainPosition(t, k)].val # Nil,
         Main(t, MainPosition(t, k)) = MainPosition(t, k)
  PROVE  /\ NewKey(t, k, v) \in Table(n) /\ Sound(NewKey(t, k, v))
         /\ NewKey(t, k, v).array = t.array /\ ~NewKey(t, k, v).dummy
         /\ Moved(t, NewKey(t, k, v), k, v)
         /\ Ahead(t) => Ahead(NewKey(t, k, v))
<1>0. PICK mp : mp = MainPosition(t, k)
  OBVIOUS
<1>1. PICK q : q = FreePos(t)
  OBVIOUS
<1>2. /\ k \in Key /\ v \in Vals /\ k # Nil
      /\ mp \in Taken(t) /\ mp \in 0 .. n - 1 /\ q \in 0 .. n - 1 /\ q \notin Taken(t) /\ q # mp
      /\ \A i \in 0 .. n - 1 : i > q => i \in Taken(t)
      /\ t.node[q] = Empty /\ t.node[q].next = None /\ q # None
      /\ \A i \in 0 .. n - 1 : t.node[i].next # q
      /\ ~t.node[mp].dead
  <2>1. t.node[mp].val # Nil
    BY <1>0
  <2> QED BY <1>0, <1>1, <2>1, FreePlace
<1>3. PICK new : new = [key |-> k, dead |-> FALSE, val |-> v, next |-> t.node[mp].next]
  OBVIOUS
<1>4. PICK u : u = NewKey(t, k, v)
  OBVIOUS
<1>5. PICK t1 : t1 = [t EXCEPT !.lastfree = q]
  OBVIOUS
<1>6. u = [t1 EXCEPT !.node[q] = new, !.node[mp].next = q]
  <2>1. t.node[MainPosition(t, k)].val # Nil /\ MainPosition(t, t.node[MainPosition(t, k)].key) = MainPosition(t, k)
    BY DEF Main
  <2>2. NewKey(t, k, v) = [[t EXCEPT !.lastfree = FreePos(t)] EXCEPT
           !.node[FreePos(t)] = [key |-> k, dead |-> FALSE, val |-> v, next |-> t.node[MainPosition(t, k)].next],
           !.node[MainPosition(t, k)].next = FreePos(t)]
    BY <2>1, Zenon DEF NewKey
  <2> QED BY <1>0, <1>1, <1>3, <1>4, <1>5, <2>2
<1>7. new \in Node(n) /\ new.key = k /\ new.val = v /\ ~new.dead /\ new.next = t.node[mp].next
  BY <1>2, <1>3, TableParts DEF Node
<1>8. /\ t1 \in Table(n) /\ t1.node = t.node /\ t1.array = t.array /\ t1.dummy = t.dummy /\ t1.lastfree = q
  <2>1. q \in 0 .. n
    BY <1>2
  <2> QED BY <1>5, <2>1 DEF Table
<1>9. PICK e : e = [t.node[mp] EXCEPT !.next = q]
  OBVIOUS
<1>10. /\ e \in Node(n) /\ e.key = t.node[mp].key /\ e.val = t.node[mp].val
       /\ e.dead = t.node[mp].dead /\ e.next = q
  <2>1. t.node[mp] \in Node(n)
    BY <1>2, TableParts
  <2> QED BY <1>2, <1>9, <2>1 DEF Node
<1>11. u = [t1 EXCEPT !.node = [[t.node EXCEPT ![q] = new] EXCEPT ![mp] = e]]
  <2>1. t.node \in [0 .. n - 1 -> Node(n)]
    BY TableParts
  <2>2. [t.node EXCEPT ![q] = new][mp] = t.node[mp]
    BY <1>2, <2>1
  <2>3. u = [t1 EXCEPT !.node = [[t1.node EXCEPT ![q] = new] EXCEPT
                                   ![mp] = [[t1.node EXCEPT ![q] = new][mp] EXCEPT !.next = q]]]
    BY <1>6
  <2> QED BY <1>8, <1>9, <2>2, <2>3
<1>12. /\ u \in Table(n) /\ u.array = t.array /\ u.dummy = t.dummy /\ u.lastfree = q
       /\ u.node[q] = new /\ u.node[mp] = e
       /\ \A i \in 0 .. n - 1 : i # q /\ i # mp => u.node[i] = t.node[i]
  <2>1. t.node \in [0 .. n - 1 -> Node(n)]
    BY TableParts
  <2>2. PICK nodes : nodes = [[t.node EXCEPT ![q] = new] EXCEPT ![mp] = e]
    OBVIOUS
  <2>3. nodes \in [0 .. n - 1 -> Node(n)] /\ nodes[q] = new /\ nodes[mp] = e
        /\ \A i \in 0 .. n - 1 : i # q /\ i # mp => nodes[i] = t.node[i]
    BY <1>2, <1>7, <1>10, <2>1, <2>2
  <2>4. u = [t1 EXCEPT !.node = nodes]
    BY <1>11, <2>2
  <2> HIDE <2>2
  <2>5. u \in Table(n) /\ u.array = t1.array /\ u.dummy = t1.dummy /\ u.lastfree = t1.lastfree /\ u.node = nodes
    BY <1>8, <2>3, <2>4 DEF Table
  <2> QED BY <1>8, <2>3, <2>5
<1>13. DOMAIN u.node = 0 .. n - 1 /\ DOMAIN t.node = 0 .. n - 1 /\ Size(u) = n /\ Size(t) = n
  BY <1>12, TableParts
<1>14. Taken(u) = Taken(t) \cup {q}
  <2>1. \A i \in 0 .. n - 1 : i # q => u.node[i].key = t.node[i].key
    BY <1>10, <1>12
  <2>2. u.node[q].key # Nil
    BY <1>2, <1>7, <1>12
  <2> QED BY <1>2, <1>13, <2>1, <2>2 DEF Taken
<1>15. Links(t) /\ Mains(t) /\ ~t.dummy
  BY DEF Insertable, Sound
<1>16. /\ u.node[q].next = t.node[mp].next /\ u.node[mp].next = q
       /\ \A i \in 0 .. n - 1 : i # q /\ i # mp => u.node[i].next = t.node[i].next
  BY <1>7, <1>10, <1>12
<1>17. \A S \in SUBSET (0 .. n - 1) : Closed(u, S) => Closed(t, S)
  BY <1>2, <1>16 DEF Closed
<1>18. Links(u)
  <2>1. \A i \in DOMAIN u.node : i \notin Taken(u) => u.node[i] = Empty
    BY <1>2, <1>12, <1>13, <1>14, <1>15 DEF Links
  <2>2. \A i \in DOMAIN u.node : u.node[i].next # None => u.node[i].next \in Taken(u)
    BY <1>2, <1>13, <1>14, <1>15, <1>16 DEF Links
  <2>3. ASSUME NEW i \in 0 .. n - 1, NEW j \in 0 .. n - 1,
               u.node[i].next = u.node[j].next, u.node[i].next # None
        PROVE  i = j
    <3>1. \A x, y \in 0 .. n - 1 : t.node[x].next = t.node[y].next /\ t.node[x].next # None => x = y
      BY <1>13, <1>15 DEF Links
    <3>2. \A x \in 0 .. n - 1 : x # mp => u.node[x].next # q
      BY <1>2, <1>16
    <3>3. CASE i = mp \/ j = mp
      BY <1>16, <2>3, <3>2, <3>3
    <3>4. CASE i # mp /\ j # mp
      <4>1. CASE i = q /\ j # q
        BY <1>2, <1>16, <2>3, <3>1, <3>4, <4>1
      <4>2. CASE i # q /\ j = q
        BY <1>2, <1>16, <2>3, <3>1, <3>4, <4>2
      <4>3. CASE i # q /\ j # q
        BY <1>16, <2>3, <3>1, <3>4, <4>3
      <4> QED BY <4>1, <4>2, <4>3
    <3> QED BY <3>3, <3>4
  <2>4. Acyclic(u)
    <3> SUFFICES ASSUME NEW S \in SUBSET (0 .. n - 1), S # {}, \A i \in S : u.node[i].next \in S
                 PROVE  FALSE
      BY <1>13 DEF Acyclic
    <3>1. \A i \in S \ {q} : t.node[i].next \in S \ {q}
      <4> TAKE i \in S \ {q}
      <4>1. CASE i = mp
        <5>1. q \in S
          BY <1>16, <4>1
        <5>2. t.node[mp].next \in S
          BY <1>16, <5>1
        <5> QED BY <1>2, <4>1, <5>2
      <4>2. CASE i # mp
        <5>1. t.node[i].next = u.node[i].next
          BY <1>16, <4>2
        <5> QED BY <1>2, <5>1
      <4> QED BY <4>1, <4>2
    <3>2. S \ {q} # {}
      <4>1. CASE q \in S
        BY <1>2, <1>16, <4>1
      <4> QED BY <4>1
    <3>3. S \ {q} \in SUBSET DOMAIN t.node
      BY <1>13
    <3> QED BY <1>15, <3>1, <3>2, <3>3 DEF Links, Acyclic
  <2> QED BY <1>13, <2>1, <2>2, <2>3, <2>4 DEF Links
<1>19. /\ Main(u, q) = mp
       /\ \A i \in 0 .. n - 1 : i # q => Main(u, i) = Main(t, i)
  <2>1. \A x : MainPosition(u, x) = MainPosition(t, x)
    BY <1>13, MainSame
  <2> QED BY <1>0, <1>7, <1>10, <1>12, <2>1 DEF Main
<1>20. Mains(u)
  <2>1. ASSUME NEW i \in Taken(u)
        PROVE  /\ Leads(u, Main(u, i), i)
               /\ Main(u, i) \in Taken(u) /\ Main(u, Main(u, i)) = Main(u, i)
    <3>1. CASE i = q
      <4>1. Leads(u, mp, q)
        BY <1>2, <1>16 DEF Leads, Closed
      <4>2. Main(t, mp) = mp
        BY <1>0
      <4>3. Main(u, mp) = mp
        BY <1>2, <1>19, <4>2
      <4> QED BY <1>2, <1>14, <1>19, <3>1, <4>1, <4>3
    <3>2. CASE i # q
      <4>1. i \in Taken(t) /\ i \in 0 .. n - 1 /\ Main(u, i) = Main(t, i)
        BY <1>13, <1>14, <1>19, <3>2 DEF Taken
      <4>2. Leads(t, Main(t, i), i) /\ Main(t, i) \in Taken(t) /\ Main(t, Main(t, i)) = Main(t, i)
        BY <1>15, <4>1 DEF Mains
      <4>3. Leads(u, Main(t, i), i)
        BY <1>13, <1>17, <4>2 DEF Leads
      <4>4. Main(t, i) \in 0 .. n - 1 /\ Main(t, i) # q
        BY <1>2, <1>13, <4>2 DEF Taken
      <4>5. Main(u, Main(t, i)) = Main(t, i)
        BY <1>19, <4>2, <4>4
      <4> QED BY <1>14, <4>1, <4>2, <4>3, <4>5
    <3> QED BY <3>1, <3>2
  <2> QED BY <2>1 DEF Mains
<1>21. Settled(t, u, k, v, mp, q)
  <2>1. \A i \in Taken(t) : i # mp => SameEntry(u.node[i], t.node[i])
    <3> TAKE i \in Taken(t)
    <3>1. i # q /\ i \in 0 .. n - 1
      BY <1>2, <1>13 DEF Taken
    <3> QED BY <1>12, <3>1 DEF SameEntry
  <2>2. SameEntry(u.node[mp], t.node[mp]) /\ IsEntry(u.node[q], k, v)
    BY <1>7, <1>10, <1>12 DEF SameEntry, IsEntry
  <2> QED BY <1>12, <1>14, <1>15, <2>1, <2>2 DEF Settled
<1>22. Keys(u) /\ Room(u) /\ Moved(t, u, k, v)
  BY <1>2, <1>12, <1>21, SettledKeys
<1>23. ASSUME Ahead(t), NEW i \in Taken(u), NEW j \in Taken(u),
              u.node[i].key = u.node[j].key, ~u.node[i].dead
       PROVE  Leads(u, i, j)
  <2>1. \A x, y : Leads(t, x, y) => Leads(u, x, y)
    BY <1>13, <1>17 DEF Leads
  <2>2. \A x \in Taken(u) : x # q => /\ x \in Taken(t) /\ x \in 0 .. n - 1
                                     /\ u.node[x].key = t.node[x].key /\ u.node[x].dead = t.node[x].dead
    BY <1>10, <1>12, <1>13, <1>14 DEF Taken
  <2>3. CASE i = j
    BY <2>3 DEF Leads
  <2>4. CASE i = q /\ j # q
    <3>1. j \in Taken(t) /\ t.node[j].key = k /\ j \in 0 .. n - 1
      BY <1>7, <1>12, <1>23, <2>2, <2>4
    <3>2. Leads(t, Main(t, j), j) /\ t.node[j].dead
      BY <1>15, <3>1 DEF Mains, Insertable
    <3>3. Main(t, j) = mp /\ j # mp
      BY <1>0, <1>2, <3>1, <3>2 DEF Main
    <3>4. ASSUME NEW S \in SUBSET (0 .. n - 1), q \in S, Closed(u, S)
          PROVE  j \in S
      <4>1. S \cup {mp} \in SUBSET DOMAIN t.node
        BY <1>2, <1>13
      <4>2. Closed(t, S \cup {mp})
        BY <1>2, <1>16, <3>4 DEF Closed
      <4>3. j \in S \cup {mp}
        BY <3>2, <3>3, <4>1, <4>2 DEF Leads
      <4> QED BY <3>3, <4>3
    <3> QED BY <1>13, <2>4, <3>4 DEF Leads
  <2>5. CASE i # q /\ j = q
    <3>1. i \in Taken(t) /\ t.node[i].key = k /\ ~t.node[i].dead
      BY <1>7, <1>12, <1>23, <2>2, <2>5
    <3> QED BY <3>1 DEF Insertable
  <2>6. CASE i # q /\ j # q
    <3>1. i \in Taken(t) /\ j \in Taken(t) /\ t.node[i].key = t.node[j].key /\ ~t.node[i].dead
      BY <1>23, <2>2, <2>6
    <3>2. Leads(t, i, j)
      BY <1>23, <3>1 DEF Ahead
    <3> QED BY <2>1, <3>2
  <2> QED BY <2>3, <2>4, <2>5, <2>6
<1>24. Ahead(t) => Ahead(u)
  BY <1>23 DEF Ahead
<1> QED
  BY <1>4, <1>12, <1>15, <1>18, <1>20, <1>22, <1>24 DEF Sound

(* The colliding node is away from its main position: it moves to the free     *)
(* place and what led to it leads there; the new key takes its place.          *)
LEMMA NewKeyMoves ==
  ASSUME NEW n \in Nat \ {0}, NEW t \in Table(n), NEW k, NEW v, Insertable(t, k, v), ~Full(t, k),
         t.node[MainPosition(t, k)].val # Nil,
         Main(t, MainPosition(t, k)) # MainPosition(t, k)
  PROVE  /\ NewKey(t, k, v) \in Table(n) /\ Sound(NewKey(t, k, v))
         /\ NewKey(t, k, v).array = t.array /\ ~NewKey(t, k, v).dummy
         /\ Moved(t, NewKey(t, k, v), k, v)
         /\ Ahead(t) => Ahead(NewKey(t, k, v))
<1>0. PICK mp : mp = MainPosition(t, k)
  OBVIOUS
<1>1. PICK q : q = FreePos(t)
  OBVIOUS
<1>2. /\ k \in Key /\ v \in Vals /\ k # Nil
      /\ mp \in Taken(t) /\ mp \in 0 .. n - 1 /\ q \in 0 .. n - 1 /\ q \notin Taken(t) /\ q # mp
      /\ \A i \in 0 .. n - 1 : i > q => i \in Taken(t)
      /\ t.node[q] = Empty /\ t.node[q].next = None /\ q # None
      /\ \A i \in 0 .. n - 1 : t.node[i].next # q
      /\ ~t.node[mp].dead
  <2>1. t.node[mp].val # Nil
    BY <1>0
  <2> QED BY <1>0, <1>1, <2>1, FreePlace
<1>3. PICK new : new = [key |-> k, dead |-> FALSE, val |-> v, next |-> None]
  OBVIOUS
<1>4. PICK u : u = NewKey(t, k, v)
  OBVIOUS
<1>5. PICK t1 : t1 = [t EXCEPT !.lastfree = q]
  OBVIOUS
<1>6. PICK home : home = Main(t, mp)
  OBVIOUS
<1>7. PICK prev : prev = CHOOSE i \in Range(Chain(t, home)) : i # None /\ t.node[i].next = mp
  OBVIOUS
<1>8. Links(t) /\ Mains(t) /\ ~t.dummy
  BY DEF Insertable, Sound
<1>9. home # mp /\ home \in 0 .. n - 1 /\ home \in Taken(t) /\ Main(t, home) = home /\ Leads(t, home, mp)
  <2>1. home \in Taken(t) /\ Main(t, home) = home /\ Leads(t, home, mp)
    BY <1>2, <1>6, <1>8 DEF Mains
  <2>2. home \in 0 .. n - 1
    BY <1>2, <1>6, TakenIs
  <2> QED BY <1>0, <1>6, <2>1, <2>2
<1>10. prev \in 0 .. n - 1 /\ t.node[prev].next = mp /\ prev # mp /\ prev # q
  <2>0. PICK c : c = Chain(t, home)
    OBVIOUS
  <2>1. /\ DOMAIN c = 0 .. n /\ c[0] = home
        /\ \A m \in 1 .. n : c[m] = IF c[m - 1] = None THEN None ELSE t.node[c[m - 1]].next
        /\ \A m \in 0 .. n : c[m] \in (0 .. n - 1) \cup {None}
    BY <1>9, <2>0, ChainSteps
  <2>2. Acyclic(t)
    BY <1>8 DEF Links
  <2>3. PICK m \in 0 .. n : c[m] = mp
    BY <1>2, <1>9, <2>0, <2>2, ChainMeets
  <2>4. m \in 1 .. n /\ m - 1 \in 0 .. n
    BY <1>9, <2>1, <2>3
  <2>5. mp # None
    BY <1>2, KeysAssumption
  <2>6. c[m - 1] # None /\ t.node[c[m - 1]].next = mp
    BY <2>1, <2>3, <2>4, <2>5
  <2>7. c[m - 1] \in Range(c)
    BY <2>1, <2>4 DEF Range
  <2>8. prev \in Range(c) /\ prev # None /\ t.node[prev].next = mp
    BY <1>7, <2>0, <2>6, <2>7
  <2>9. prev \in 0 .. n - 1
    BY <2>1, <2>8 DEF Range
  <2>10. prev # q
    BY <1>2, <2>5, <2>8
  <2>11. prev # mp
    <3> SUFFICES ASSUME prev = mp PROVE FALSE
      OBVIOUS
    <3>1. {mp} \in SUBSET DOMAIN t.node
      BY <1>2, TableParts
    <3>2. \E i \in {mp} : t.node[i].next \notin {mp}
      BY <2>2, <3>1 DEF Acyclic
    <3> QED BY <2>8, <3>2
  <2> QED BY <2>8, <2>9, <2>10, <2>11
<1>11. u = [t1 EXCEPT !.node[prev].next = q, !.node[q] = t.node[mp], !.node[mp] = new]
  <2>1. t.node[mp].val # Nil /\ MainPosition(t, t.node[mp].key) # mp /\ home = MainPosition(t, t.node[mp].key)
    BY <1>0, <1>6, <1>9 DEF Main
  <2> QED BY <1>0, <1>1, <1>3, <1>4, <1>5, <1>7, <2>1, Zenon DEF NewKey
<1>12. new \in Node(n) /\ new.key = k /\ new.val = v /\ ~new.dead /\ new.next = None
  BY <1>2, <1>3 DEF Node
<1>13. /\ t1 \in Table(n) /\ t1.node = t.node /\ t1.array = t.array /\ t1.dummy = t.dummy /\ t1.lastfree = q
  <2>1. q \in 0 .. n
    BY <1>2
  <2> QED BY <1>5, <2>1 DEF Table
<1>14. PICK e : e = [t.node[prev] EXCEPT !.next = q]
  OBVIOUS
<1>15. /\ e \in Node(n) /\ e.key = t.node[prev].key /\ e.val = t.node[prev].val
       /\ e.dead = t.node[prev].dead /\ e.next = q
  <2>1. t.node[prev] \in Node(n)
    BY <1>10, TableParts
  <2> QED BY <1>2, <1>14, <2>1 DEF Node
<1>16. u = [t1 EXCEPT !.node = [[[t.node EXCEPT ![prev] = e] EXCEPT ![q] = t.node[mp]] EXCEPT ![mp] = new]]
  <2>1. u = [t1 EXCEPT !.node = [[[t1.node EXCEPT ![prev] = [t1.node[prev] EXCEPT !.next = q]]
                                    EXCEPT ![q] = t.node[mp]] EXCEPT ![mp] = new]]
    BY <1>11
  <2> QED BY <1>13, <1>14, <2>1
<1>17. /\ u \in Table(n) /\ u.array = t.array /\ u.dummy = t.dummy /\ u.lastfree = q
       /\ u.node[prev] = e /\ u.node[q] = t.node[mp] /\ u.node[mp] = new
       /\ \A i \in 0 .. n - 1 : i # q /\ i # mp /\ i # prev => u.node[i] = t.node[i]
  <2>1. t.node \in [0 .. n - 1 -> Node(n)] /\ t.node[mp] \in Node(n)
    BY <1>2, TableParts
  <2>2. PICK nodes : nodes = [[[t.node EXCEPT ![prev] = e] EXCEPT ![q] = t.node[mp]] EXCEPT ![mp] = new]
    OBVIOUS
  <2>3. nodes \in [0 .. n - 1 -> Node(n)] /\ nodes[q] = t.node[mp] /\ nodes[mp] = new /\ nodes[prev] = e
        /\ \A i \in 0 .. n - 1 : i # q /\ i # mp /\ i # prev => nodes[i] = t.node[i]
    BY <1>2, <1>10, <1>12, <1>15, <2>1, <2>2
  <2>4. u = [t1 EXCEPT !.node = nodes]
    BY <1>16, <2>2
  <2> HIDE <2>2
  <2>5. u \in Table(n) /\ u.array = t1.array /\ u.dummy = t1.dummy /\ u.lastfree = t1.lastfree /\ u.node = nodes
    BY <1>13, <2>3, <2>4 DEF Table
  <2> QED BY <1>13, <2>3, <2>5
<1>18. DOMAIN u.node = 0 .. n - 1 /\ DOMAIN t.node = 0 .. n - 1 /\ Size(u) = n /\ Size(t) = n
  BY <1>17, TableParts
<1>19. \A i \in 0 .. n - 1 : i # q /\ i # mp => u.node[i].key = t.node[i].key
  BY <1>15, <1>17
<1>20. Taken(u) = Taken(t) \cup {q}
  <2>1. u.node[q].key # Nil /\ u.node[mp].key # Nil
    BY <1>2, <1>12, <1>17 DEF Taken
  <2> QED BY <1>2, <1>18, <1>19, <2>1 DEF Taken
<1>21. /\ u.node[q].next = t.node[mp].next /\ u.node[mp].next = None /\ u.node[prev].next = q
       /\ \A i \in 0 .. n - 1 : i # q /\ i # mp /\ i # prev => u.node[i].next = t.node[i].next
  BY <1>12, <1>15, <1>17
<1>22. \A x, y \in 0 .. n - 1 : t.node[x].next = t.node[y].next /\ t.node[x].next # None => x = y
  BY <1>8, <1>18 DEF Links
<1>23. \A x \in 0 .. n - 1 : t.node[x].next = mp => x = prev
  BY <1>2, <1>10, <1>22, KeysAssumption
<1>24. Links(u)
  <2>1. \A i \in DOMAIN u.node : i \notin Taken(u) => u.node[i] = Empty
    <3> SUFFICES ASSUME NEW i \in 0 .. n - 1, i \notin Taken(u) PROVE u.node[i] = Empty
      BY <1>18
    <3>1. i \notin Taken(t) /\ i # q /\ i # mp
      BY <1>2, <1>20
    <3>2. i # prev
      BY <1>2, <1>8, <1>10, <1>18, <3>1, KeysAssumption DEF Links, Empty
    <3> QED BY <1>8, <1>17, <1>18, <3>1, <3>2 DEF Links
  <2>2. \A i \in DOMAIN u.node : u.node[i].next # None => u.node[i].next \in Taken(u)
    <3> SUFFICES ASSUME NEW i \in 0 .. n - 1, u.node[i].next # None PROVE u.node[i].next \in Taken(u)
      BY <1>18
    <3>1. \A x \in 0 .. n - 1 : t.node[x].next # None => t.node[x].next \in Taken(t)
      BY <1>8, <1>18 DEF Links
    <3> QED BY <1>2, <1>20, <1>21, <3>1
  <2>3. ASSUME NEW i \in 0 .. n - 1, NEW j \in 0 .. n - 1,
               u.node[i].next = u.node[j].next, u.node[i].next # None
        PROVE  i = j
    <3>1. i # mp /\ j # mp
      BY <1>21, <2>3
    <3>2. \A x \in 0 .. n - 1 : x # prev => u.node[x].next # q
      BY <1>2, <1>21
    <3>3. CASE i = prev \/ j = prev
      BY <1>21, <2>3, <3>2, <3>3
    <3>4. CASE i # prev /\ j # prev
      <4>1. CASE i = q /\ j # q
        BY <1>2, <1>21, <1>22, <2>3, <3>1, <3>4, <4>1
      <4>2. CASE i # q /\ j = q
        BY <1>2, <1>21, <1>22, <2>3, <3>1, <3>4, <4>2
      <4>3. CASE i # q /\ j # q
        BY <1>21, <1>22, <2>3, <3>1, <3>4, <4>3
      <4> QED BY <4>1, <4>2, <4>3
    <3> QED BY <3>3, <3>4
  <2>4. Acyclic(u)
    <3> SUFFICES ASSUME NEW S \in SUBSET (0 .. n - 1), S # {}, \A i \in S : u.node[i].next \in S
                 PROVE  FALSE
      BY <1>18 DEF Acyclic
    <3>1. mp \notin S
      <4>1. None \notin S
        <5>1. None \notin Nat
          BY KeysAssumption
        <5>2. \A x \in S : x \in Nat
          OBVIOUS
        <5> QED BY <5>1, <5>2
      <4> QED BY <1>21, <4>1
    <3> DEFINE S0 == IF q \in S THEN (S \ {q}) \cup {mp} ELSE S
    <3>2. \A i \in S0 : t.node[i].next \in S0
      <4> SUFFICES ASSUME NEW i \in S0 PROVE t.node[i].next \in S0
        OBVIOUS
      <4>0. i \in 0 .. n - 1 /\ t.node[i].next # q
        BY <1>2
      <4>1. CASE i = mp
        <5>1. q \in S
          BY <3>1, <4>1
        <5>2. t.node[mp].next \in S
          BY <1>21, <5>1
        <5> QED BY <4>0, <4>1, <5>1, <5>2
      <4>2. CASE i = prev
        <5>1. prev \in S
          BY <1>10, <4>2
        <5>2. q \in S
          BY <1>21, <5>1
        <5> QED BY <1>10, <4>2, <5>2
      <4>3. CASE i # mp /\ i # prev
        <5>1. i \in S /\ i # q
          BY <4>3
        <5>2. t.node[i].next \in S
          BY <1>21, <4>3, <5>1
        <5> QED BY <4>0, <5>2
      <4> QED BY <4>1, <4>2, <4>3
    <3>3. S0 # {} /\ S0 \in SUBSET DOMAIN t.node
      BY <1>2, <1>18
    <3> HIDE DEF S0
    <3> QED BY <1>8, <3>2, <3>3 DEF Links, Acyclic
  <2> QED BY <1>18, <2>1, <2>2, <2>3, <2>4 DEF Links
<1>25. /\ Main(u, q) = home /\ Main(u, mp) = mp
       /\ \A i \in 0 .. n - 1 : i # q /\ i # mp => Main(u, i) = Main(t, i)
  <2>1. \A x : MainPosition(u, x) = MainPosition(t, x)
    BY <1>18, MainSame
  <2> QED BY <1>0, <1>6, <1>12, <1>17, <1>19, <2>1 DEF Main
    (* From anywhere but the main position of the new key the old places are met,  *)
    (* and the place that moved.                                             *)
<1>26. ASSUME NEW h \in 0 .. n - 1, NEW i \in 0 .. n - 1, h # mp, Leads(t, h, i)
       PROVE  /\ i # mp => Leads(u, h, i)
              /\ i = mp => Leads(u, h, q)
  <2> SUFFICES ASSUME NEW S \in SUBSET (0 .. n - 1), h \in S, Closed(u, S)
               PROVE  (i # mp => i \in S) /\ (i = mp => q \in S)
    BY <1>18 DEF Leads
  <2> DEFINE S0 == IF q \in S THEN S \cup {mp} ELSE S \ {mp}
  <2>1. Closed(t, S0)
    <3> SUFFICES ASSUME NEW p \in S0, t.node[p].next # None PROVE t.node[p].next \in S0
      BY DEF Closed
    <3>0. p \in 0 .. n - 1
      BY <1>2
    <3>1. \A x \in S : u.node[x].next # None => u.node[x].next \in S
      BY DEF Closed
    <3>2. CASE p = mp
      <4>1. q \in S
        BY <3>2
      <4>2. t.node[mp].next \in S
        BY <1>21, <3>1, <3>2, <4>1
      <4> QED BY <3>2, <4>1, <4>2
    <3>3. CASE p = prev
      <4>1. prev \in S
        BY <1>10, <3>3
      <4>2. q \in S
        BY <1>2, <1>21, <3>1, <4>1
      <4> QED BY <1>10, <3>3, <4>2
    <3>4. CASE p # mp /\ p # prev
      <4>1. p \in S /\ p # q
        BY <1>2, <3>4
      <4>2. t.node[p].next \in S
        BY <1>21, <3>0, <3>1, <3>4, <4>1
      <4>3. t.node[p].next # mp
        BY <1>23, <3>0, <3>4
      <4> QED BY <4>2, <4>3
    <3> QED BY <3>2, <3>3, <3>4
  <2>2. S0 \in SUBSET DOMAIN t.node /\ h \in S0
    BY <1>2, <1>18, <1>26
  <2>3. i \in S0
    <3> HIDE DEF S0
    <3> QED BY <1>26, <2>1, <2>2 DEF Leads
  <2> QED BY <2>3
<1>27. Mains(u)
  <2>1. ASSUME NEW i \in Taken(u)
        PROVE  /\ Leads(u, Main(u, i), i)
               /\ Main(u, i) \in Taken(u) /\ Main(u, Main(u, i)) = Main(u, i)
    <3>1. CASE i = q
      <4>1. Leads(u, home, q)
        BY <1>2, <1>9, <1>26
      <4>2. home # q
        BY <1>2, <1>9
      <4>3. Main(u, home) = home
        BY <1>9, <1>25, <4>2
      <4> QED BY <1>9, <1>20, <1>25, <3>1, <4>1, <4>3
    <3>2. CASE i = mp
      <4>1. Leads(u, mp, mp)
        BY DEF Leads
      <4> QED BY <1>2, <1>20, <1>25, <3>2, <4>1
    <3>3. CASE i # q /\ i # mp
      <4>1. i \in Taken(t) /\ i \in 0 .. n - 1 /\ Main(u, i) = Main(t, i)
        BY <1>18, <1>20, <1>25, <3>3 DEF Taken
      <4>2. Leads(t, Main(t, i), i) /\ Main(t, i) \in Taken(t) /\ Main(t, Main(t, i)) = Main(t, i)
        BY <1>8, <4>1 DEF Mains
      <4>3. Main(t, i) # mp
        BY <1>6, <1>9, <4>2
      <4>4. Main(t, i) \in 0 .. n - 1 /\ Main(t, i) # q
        BY <1>2, <1>18, <4>2 DEF Taken
      <4>5. Leads(u, Main(t, i), i)
        BY <1>26, <3>3, <4>1, <4>2, <4>3, <4>4
      <4>6. Main(u, Main(t, i)) = Main(t, i)
        BY <1>25, <4>2, <4>3, <4>4
      <4> QED BY <1>20, <4>1, <4>2, <4>5, <4>6
    <3> QED BY <3>1, <3>2, <3>3
  <2> QED BY <2>1 DEF Mains
<1>28. Settled(t, u, k, v, mp, q)
  <2>1. \A i \in Taken(t) : i # mp => SameEntry(u.node[i], t.node[i])
    <3> TAKE i \in Taken(t)
    <3>1. i # q /\ i \in 0 .. n - 1
      BY <1>2, <1>18 DEF Taken
    <3> QED BY <1>15, <1>17, <3>1 DEF SameEntry
  <2>2. SameEntry(u.node[q], t.node[mp]) /\ IsEntry(u.node[mp], k, v)
    BY <1>12, <1>17 DEF SameEntry, IsEntry
  <2> QED BY <1>8, <1>17, <1>20, <2>1, <2>2 DEF Settled
<1>29. Keys(u) /\ Room(u) /\ Moved(t, u, k, v)
  BY <1>2, <1>17, <1>28, SettledKeys
    (* Where the entry of a place was before. *)
<1> DEFINE was(x) == IF x = q THEN mp ELSE x
<1>30. \A x \in Taken(u) : x # mp => /\ was(x) \in Taken(t) /\ was(x) \in 0 .. n - 1 /\ x \in 0 .. n - 1
                                      /\ u.node[x].key = t.node[was(x)].key
                                      /\ u.node[x].dead = t.node[was(x)].dead
  BY <1>2, <1>15, <1>17, <1>18, <1>20 DEF Taken
<1>31. ASSUME Ahead(t), NEW i \in Taken(u), NEW j \in Taken(u),
              u.node[i].key = u.node[j].key, ~u.node[i].dead
       PROVE  Leads(u, i, j)
  <2>1. CASE i = j
    BY <2>1 DEF Leads
  <2>2. CASE i = mp /\ j # mp
    <3>1. was(j) \in Taken(t) /\ t.node[was(j)].key = k
      BY <1>12, <1>17, <1>30, <1>31, <2>2
    <3>2. Main(t, was(j)) = mp /\ Main(t, mp) = mp
      <4>1. Main(t, was(j)) = mp
        BY <1>0, <3>1 DEF Main
      <4> HIDE DEF was
      <4> QED BY <1>8, <3>1, <4>1 DEF Mains
    <3> QED BY <1>6, <1>9, <3>2
  <2>3. CASE i # mp /\ j = mp
    <3>1. was(i) \in Taken(t) /\ t.node[was(i)].key = k /\ ~t.node[was(i)].dead
      BY <1>12, <1>17, <1>30, <1>31, <2>3
    <3> HIDE DEF was
    <3> QED BY <3>1 DEF Insertable
  <2>4. CASE i # mp /\ j # mp /\ i # j
    <3>1. /\ was(i) \in Taken(t) /\ was(j) \in Taken(t) /\ ~t.node[was(i)].dead
          /\ t.node[was(i)].key = t.node[was(j)].key
          /\ was(i) \in 0 .. n - 1 /\ was(j) \in 0 .. n - 1
      BY <1>30, <1>31, <2>4
    <3>2. Leads(t, was(i), was(j))
      <4> HIDE DEF was
      <4> QED BY <1>31, <3>1 DEF Ahead
    <3>3. CASE i # q
      <4>1. was(i) = i
        BY <3>3
      <4>2. CASE j = q
        <5>1. Leads(t, i, mp)
          BY <3>2, <4>1, <4>2
        <5> QED BY <1>2, <1>26, <2>4, <3>1, <4>1, <4>2, <5>1
      <4>3. CASE j # q
        <5>1. Leads(t, i, j) /\ j \in 0 .. n - 1
          BY <3>1, <3>2, <4>1, <4>3
        <5> QED BY <1>26, <2>4, <3>1, <4>1, <5>1
      <4> QED BY <4>2, <4>3
    <3>4. CASE i = q
      <4>1. Leads(t, mp, j) /\ j # mp /\ j # q
        BY <2>4, <3>2, <3>4
      <4>2. ASSUME NEW S \in SUBSET (0 .. n - 1), q \in S, Closed(u, S)
            PROVE  j \in S
        <5>1. S \cup {mp} \in SUBSET DOMAIN t.node
          BY <1>2, <1>18
        <5>2. Closed(t, S \cup {mp})
          <6> SUFFICES ASSUME NEW p \in S \cup {mp}, t.node[p].next # None
                       PROVE  t.node[p].next \in S \cup {mp}
            BY DEF Closed
          <6>1. \A x \in S : u.node[x].next # None => u.node[x].next \in S
            BY <4>2 DEF Closed
          <6>2. CASE p = mp
            <7>1. u.node[q].next = t.node[mp].next
              BY <1>21
            <7> QED BY <4>2, <6>1, <6>2, <7>1
          <6>3. CASE p = q
            BY <1>2, <6>3
          <6>4. CASE p = prev
            BY <1>10, <6>4
          <6>5. CASE p # mp /\ p # q /\ p # prev
            <7>1. p \in S /\ u.node[p].next = t.node[p].next
              BY <1>21, <6>5
            <7> QED BY <6>1, <7>1
          <6> QED BY <6>2, <6>3, <6>4, <6>5
        <5>3. j \in S \cup {mp}
          BY <4>1, <5>1, <5>2 DEF Leads
        <5> QED BY <4>1, <5>3
      <4> QED BY <1>18, <3>4, <4>2 DEF Leads
    <3> QED BY <3>3, <3>4
  <2> QED BY <2>1, <2>2, <2>3, <2>4
<1>32. Ahead(t) => Ahead(u)
  BY <1>31 DEF Ahead
<1> HIDE DEF was
<1> QED
  BY <1>4, <1>8, <1>17, <1>24, <1>27, <1>29, <1>32 DEF Sound

(* newkey in a table that is not full.                                         *)
LEMMA NewKeySound ==
  ASSUME NEW n \in Nat \ {0}, NEW t \in Table(n), NEW k, NEW v, Insertable(t, k, v), ~Full(t, k)
  PROVE  /\ NewKey(t, k, v) \in Table(n) /\ Sound(NewKey(t, k, v))
         /\ NewKey(t, k, v).array = t.array /\ ~NewKey(t, k, v).dummy
         /\ Moved(t, NewKey(t, k, v), k, v)
         /\ Ahead(t) => Ahead(NewKey(t, k, v))
BY NewKeyAtHome, NewKeyBehind, NewKeyMoves

-----------------------------------------------------------------------------
(* Reading and writing. *)

(* The value of a key that is in a place. *)
LEMMA GetEntry ==
  ASSUME NEW n \in Nat \ {0}, NEW t \in Table(n), Sound(t), NEW i \in Taken(t), ~t.node[i].dead
  PROVE  Get(t, t.node[i].key) = t.node[i].val /\ Present(t, t.node[i].key)
<1>1. NodeOf(t, t.node[i].key) = i
  BY NodeOfFinds
<1>2. ~InArray(t, t.node[i].key)
  BY DEF Sound, Keys
<1>3. i # None
  BY TakenIs, KeysAssumption
<1> QED
  BY <1>1, <1>2, <1>3 DEF Get, Present

(* A key that is nowhere has no value. *)
LEMMA GetNone ==
  ASSUME NEW n \in Nat \ {0}, NEW t \in Table(n), NEW k \in Key, ~InArray(t, k),
         \A i \in Taken(t) : t.node[i].key = k => t.node[i].dead
  PROVE  Get(t, k) = Nil /\ ~Present(t, k)
<1>1. NodeOf(t, k) = None
  BY NodeOfMisses
<1> QED
  BY <1>1 DEF Get, Present

(* A key that is present but not in the array is in a place. *)
LEMMA PresentIs ==
  ASSUME NEW n \in Nat \ {0}, NEW t \in Table(n), NEW k \in Key, Present(t, k), ~InArray(t, k)
  PROVE  /\ NodeOf(t, k) \in Taken(t) /\ t.node[NodeOf(t, k)].key = k /\ ~t.node[NodeOf(t, k)].dead
         /\ Get(t, k) = t.node[NodeOf(t, k)].val
<1>1. NodeOf(t, k) # None
  BY DEF Present
<1> QED
  BY <1>1, NodeOfIs DEF Get

(* A key that is absent is at most in dead places, and has no value.           *)
LEMMA AbsentIs ==
  ASSUME NEW n \in Nat \ {0}, NEW t \in Table(n), Sound(t), NEW k \in Key, ~Present(t, k)
  PROVE  ~InArray(t, k) /\ (\A i \in Taken(t) : t.node[i].key = k => t.node[i].dead) /\ Get(t, k) = Nil
<1>1. ~InArray(t, k) /\ NodeOf(t, k) = None
  BY DEF Present
<1>2. \A i \in Taken(t) : t.node[i].key = k => t.node[i].dead
  BY GetEntry
<1> QED
  BY <1>1, <1>2 DEF Get

(* A key has a value or Nil.                                                   *)
LEMMA GetType ==
  ASSUME NEW n \in Nat \ {0}, NEW t \in Table(n), NEW k \in Key
  PROVE  Get(t, k) \in Vals
<1>1. CASE InArray(t, k)
  <2>1. t.array \in Seq(Vals) /\ k \in 1 .. Len(t.array)
    BY <1>1, TableParts DEF InArray
  <2> QED BY <1>1, <2>1 DEF Get
<1>2. CASE ~InArray(t, k) /\ NodeOf(t, k) # None
  <2>1. NodeOf(t, k) \in 0 .. n - 1
    BY <1>2, NodeOfIs, TakenIs
  <2> QED BY <1>2, <2>1, TableParts DEF Get
<1>3. CASE ~InArray(t, k) /\ NodeOf(t, k) = None
  BY <1>3 DEF Get, Vals
<1> QED
  BY <1>1, <1>2, <1>3

(* A full table has a dummy hash part or no free place. *)
LEMMA DummyIsFull ==
  ASSUME NEW n \in Nat \ {0}, NEW t \in Table(n), Sound(t), NEW k, t.dummy
  PROVE  Full(t, k)
<1>1. t.lastfree = 0 /\ DOMAIN t.node = 0 .. n - 1
  BY TableParts DEF Sound, Room
<1>2. {i \in DOMAIN t.node : i < t.lastfree /\ t.node[i].key = Nil} = {}
  BY <1>1
<1>3. FreePos(t) = None
  BY <1>2 DEF FreePos
<1> QED
  BY <1>3 DEF Full

(* What an assignment does to a table that has room: to the map, and to the    *)
(* places taken.                                                               *)
Assigned(t, u, k, v) ==
  /\ Get(u, k) = v
  /\ \A x \in Key \ {k} : Get(u, x) = Get(t, x)

Occupies(t, u, k, v) ==
  /\ u.dummy = t.dummy /\ Len(u.array) = Len(t.array)
  /\ InArray(t, k) => Taken(u) = Taken(t)
  /\ \A j \in Taken(u) : \/ ~InArray(t, k) /\ IsEntry(u.node[j], k, v)
                         \/ \E i \in Taken(t) : SameEntry(u.node[j], t.node[i])

(* ... into the array; *)
LEMMA StoreArray ==
  ASSUME NEW n \in Nat \ {0}, NEW t \in Table(n), Sound(t), NEW k \in Key, NEW v \in Vals, InArray(t, k)
  PROVE  /\ Store(t, k, v) \in Table(n) /\ Sound(Store(t, k, v))
         /\ Assigned(t, Store(t, k, v), k, v) /\ Occupies(t, Store(t, k, v), k, v)
         /\ Store(t, k, v).node = t.node
<1>0. PICK u : u = Store(t, k, v)
  OBVIOUS
<1>1. u = [t EXCEPT !.array[k] = v]
  BY <1>0 DEF Store
<1>2. t.array \in Seq(Vals) /\ k \in 1 .. Len(t.array)
  BY TableParts DEF InArray
<1>3. PICK a : a = [t.array EXCEPT ![k] = v]
  OBVIOUS
<1>4. /\ a \in Seq(Vals) /\ Len(a) = Len(t.array) /\ a[k] = v
      /\ \A i \in 1 .. Len(t.array) : i # k => a[i] = t.array[i]
  BY <1>2, <1>3
<1>5. u = [t EXCEPT !.array = a]
  BY <1>1, <1>3
<1>6. u \in Table(n) /\ u.array = a /\ u.node = t.node /\ u.dummy = t.dummy /\ u.lastfree = t.lastfree
  BY <1>4, <1>5 DEF Table
<1>7. Taken(u) = Taken(t) /\ Size(u) = Size(t)
  BY <1>6 DEF Taken, Size
<1>8. /\ \A x : InArray(u, x) <=> InArray(t, x)
      /\ \A x : MainPosition(u, x) = MainPosition(t, x)
  BY <1>4, <1>6, <1>7, MainSame DEF InArray
<1>9. k \in Ints
  BY <1>2, KeysAssumption DEF Key
<1>10. Sound(u)
  <2>1. Links(u)
    BY <1>6, <1>7 DEF Sound, Links, Acyclic
  <2>2. Mains(u)
    BY <1>6, <1>7, <1>8 DEF Sound, Mains, Main, Leads, Closed
  <2>3. Keys(u)
    <3>1. \A i \in 1 .. Len(u.array) : u.array[i] # Nil => i \in Ints
      BY <1>4, <1>6, <1>9 DEF Sound, Keys
    <3> QED BY <1>6, <1>7, <1>8, <3>1 DEF Sound, Keys
  <2>4. Room(u)
    BY <1>6, <1>7 DEF Sound, Room
  <2> QED BY <2>1, <2>2, <2>3, <2>4 DEF Sound
<1>11. Assigned(t, u, k, v)
  <2>1. Get(u, k) = v
    BY <1>4, <1>6, <1>8 DEF Get
  <2>2. ASSUME NEW x \in Key \ {k} PROVE Get(u, x) = Get(t, x)
    <3>1. CASE InArray(t, x)
      BY <1>4, <1>6, <1>8, <3>1 DEF Get, InArray
    <3>2. CASE ~InArray(t, x)
      <4>2. NodeOf(u, x) = NodeOf(t, x)
        <5>1. CASE \E i \in Taken(t) : t.node[i].key = x /\ ~t.node[i].dead
          <6>1. PICK i \in Taken(t) : t.node[i].key = x /\ ~t.node[i].dead
            BY <5>1
          <6>2. NodeOf(t, x) = i
            BY <6>1, NodeOfFinds
          <6>3. i \in Taken(u) /\ u.node[i].key = x /\ ~u.node[i].dead
            BY <1>6, <1>7, <6>1
          <6>4. NodeOf(u, x) = i
            BY <1>6, <1>10, <6>3, NodeOfFinds
          <6> QED BY <6>2, <6>4
        <5>2. CASE ~\E i \in Taken(t) : t.node[i].key = x /\ ~t.node[i].dead
          <6>1. NodeOf(t, x) = None
            BY <5>2, NodeOfMisses
          <6>2. \A i \in Taken(u) : u.node[i].key = x => u.node[i].dead
            BY <1>6, <1>7, <5>2
          <6>3. NodeOf(u, x) = None
            BY <1>6, <6>2, NodeOfMisses
          <6> QED BY <6>1, <6>3
        <5> QED BY <5>1, <5>2
      <4> QED BY <1>6, <1>8, <3>2, <4>2 DEF Get
    <3> QED BY <3>1, <3>2
  <2> QED BY <2>1, <2>2 DEF Assigned
<1>12. Occupies(t, u, k, v)
  BY <1>4, <1>6, <1>7 DEF Occupies, SameEntry
<1> QED
  BY <1>0, <1>6, <1>10, <1>11, <1>12

(* The contents of the places are the map, but for the array. *)
LEMMA SameGet ==
  ASSUME NEW n \in Nat \ {0}, NEW t \in Table(n), NEW u \in Table(n), Sound(t), Sound(u),
         u.array = t.array, NEW x \in Key,
         \A i \in Taken(t) : t.node[i].key = x /\ t.node[i].val # Nil => \E j \in Taken(u) : SameEntry(u.node[j], t.node[i]),
         \A j \in Taken(u) : u.node[j].key = x /\ u.node[j].val # Nil => \E i \in Taken(t) : SameEntry(u.node[j], t.node[i])
  PROVE  Get(u, x) = Get(t, x)
<1>1. CASE InArray(t, x)
  BY <1>1 DEF Get, InArray
<1>2. CASE ~InArray(t, x)
  <2>0. ~InArray(u, x)
    BY <1>2 DEF InArray
  <2>1. CASE \E i \in Taken(t) : t.node[i].key = x /\ t.node[i].val # Nil
    <3>1. PICK i \in Taken(t) : t.node[i].key = x /\ t.node[i].val # Nil
      BY <2>1
    <3>2. ~t.node[i].dead
      BY <3>1 DEF Sound, Keys
    <3>3. PICK j \in Taken(u) : SameEntry(u.node[j], t.node[i])
      BY <3>1
    <3>4. u.node[j].key = x /\ ~u.node[j].dead /\ u.node[j].val = t.node[i].val
      BY <3>1, <3>2, <3>3 DEF SameEntry
    <3>5. Get(u, x) = u.node[j].val
      BY <3>4, GetEntry
    <3>6. Get(t, x) = t.node[i].val
      BY <3>1, <3>2, GetEntry
    <3> QED BY <3>4, <3>5, <3>6
  <2>2. CASE \A i \in Taken(t) : t.node[i].key = x => t.node[i].val = Nil
    <3>1. \A j \in Taken(u) : u.node[j].key = x => u.node[j].val = Nil
      BY <2>2 DEF SameEntry
    <3>2. Get(t, x) = Nil
      <4>1. CASE Present(t, x)
        BY <1>2, <2>2, <4>1, PresentIs
      <4>2. CASE ~Present(t, x)
        BY <4>2, AbsentIs
      <4> QED BY <4>1, <4>2
    <3>3. Get(u, x) = Nil
      <4>1. CASE Present(u, x)
        BY <2>0, <3>1, <4>1, PresentIs
      <4>2. CASE ~Present(u, x)
        BY <4>2, AbsentIs
      <4> QED BY <4>1, <4>2
    <3> QED BY <3>2, <3>3
  <2> QED BY <2>1, <2>2
<1> QED
  BY <1>1, <1>2

(* ... into a place that has the key. *)
LEMMA StoreNode ==
  ASSUME NEW n \in Nat \ {0}, NEW t \in Table(n), Sound(t), NEW k \in Key, NEW v \in Vals,
         ~InArray(t, k), Present(t, k)
  PROVE  /\ Store(t, k, v) \in Table(n) /\ Sound(Store(t, k, v))
         /\ Assigned(t, Store(t, k, v), k, v) /\ Occupies(t, Store(t, k, v), k, v)
         /\ Taken(Store(t, k, v)) = Taken(t) /\ Store(t, k, v).array = t.array
         /\ \A i \in Taken(t) : Store(t, k, v).node[i].key = t.node[i].key
<1>0. PICK u : u = Store(t, k, v)
  OBVIOUS
<1>1. PICK p : p = NodeOf(t, k)
  OBVIOUS
<1>2. u = [t EXCEPT !.node[p].val = v]
  BY <1>0, <1>1 DEF Store
<1>3. p \in Taken(t) /\ t.node[p].key = k /\ ~t.node[p].dead /\ p \in 0 .. n - 1
  BY <1>1, PresentIs, TakenIs
<1>4. PICK e : e = [t.node[p] EXCEPT !.val = v]
  OBVIOUS
<1>5. /\ e \in Node(n) /\ e.key = k /\ ~e.dead /\ e.val = v /\ e.next = t.node[p].next
  <2>1. t.node[p] \in Node(n)
    BY <1>3, TableParts
  <2> QED BY <1>3, <1>4, <2>1 DEF Node
<1>6. u = [t EXCEPT !.node = [t.node EXCEPT ![p] = e]]
  BY <1>2, <1>4
<1>7. /\ u \in Table(n) /\ u.array = t.array /\ u.dummy = t.dummy /\ u.lastfree = t.lastfree
      /\ u.node[p] = e
      /\ \A i \in 0 .. n - 1 : i # p => u.node[i] = t.node[i]
  <2>1. t.node \in [0 .. n - 1 -> Node(n)]
    BY TableParts
  <2>2. PICK nodes : nodes = [t.node EXCEPT ![p] = e]
    OBVIOUS
  <2>3. nodes \in [0 .. n - 1 -> Node(n)] /\ nodes[p] = e
        /\ \A i \in 0 .. n - 1 : i # p => nodes[i] = t.node[i]
    BY <1>3, <1>5, <2>1, <2>2
  <2>4. u = [t EXCEPT !.node = nodes]
    BY <1>6, <2>2
  <2> HIDE <2>2
  <2>5. u \in Table(n) /\ u.array = t.array /\ u.dummy = t.dummy /\ u.lastfree = t.lastfree /\ u.node = nodes
    BY <2>3, <2>4 DEF Table
  <2> QED BY <2>3, <2>5
<1>8. DOMAIN u.node = 0 .. n - 1 /\ DOMAIN t.node = 0 .. n - 1 /\ Size(u) = n /\ Size(t) = n
  BY <1>7, TableParts
<1>9. \A i \in 0 .. n - 1 : /\ u.node[i].key = t.node[i].key /\ u.node[i].next = t.node[i].next
                            /\ u.node[i].dead <=> t.node[i].dead
  BY <1>3, <1>5, <1>7
<1>10. Taken(u) = Taken(t)
  BY <1>8, <1>9 DEF Taken
<1>11. /\ \A x : InArray(u, x) <=> InArray(t, x)
       /\ \A x : MainPosition(u, x) = MainPosition(t, x)
       /\ \A i \in 0 .. n - 1 : Main(u, i) = Main(t, i)
  BY <1>7, <1>8, <1>9, MainSame DEF InArray, Main
<1>12. Sound(u)
  <2>0. Links(t) /\ Mains(t) /\ Keys(t) /\ Room(t)
    BY DEF Sound
  <2>1. Links(u)
    <3>1. Acyclic(u)
      BY <1>8, <1>9, <2>0 DEF Links, Acyclic
    <3>2. \A i \in DOMAIN u.node : i \notin Taken(u) => u.node[i] = Empty
      BY <1>3, <1>7, <1>8, <1>10, <2>0 DEF Links
    <3>3. \A i, j \in DOMAIN u.node : u.node[i].next = u.node[j].next /\ u.node[i].next # None => i = j
      BY <1>8, <1>9, <2>0 DEF Links
    <3>4. \A i \in DOMAIN u.node : u.node[i].next # None => u.node[i].next \in Taken(u)
      BY <1>8, <1>9, <1>10, <2>0 DEF Links
    <3> QED BY <3>1, <3>2, <3>3, <3>4 DEF Links
  <2>2. Mains(u)
    <3>1. \A S \in SUBSET (0 .. n - 1) : Closed(u, S) <=> Closed(t, S)
      BY <1>9 DEF Closed
    <3>2. \A i, j : Leads(u, i, j) <=> Leads(t, i, j)
      BY <1>8, <3>1 DEF Leads
    <3>3. \A i \in Taken(t) : i \in 0 .. n - 1 /\ Main(t, i) \in 0 .. n - 1
      BY TakenIs
    <3> QED BY <1>10, <1>11, <2>0, <3>2, <3>3 DEF Mains
  <2>3. Keys(u)
    <3>1. \A i \in Taken(u) : u.node[i].dead => u.node[i].val = Nil
      BY <1>3, <1>7, <1>8, <1>9, <1>10, <2>0 DEF Keys, Taken
    <3>2. \A i \in Taken(u) : i \in 0 .. n - 1
      BY <1>8 DEF Taken
    <3> QED BY <1>7, <1>9, <1>10, <1>11, <2>0, <3>1, <3>2 DEF Keys
  <2>4. Room(u)
    BY <1>7, <1>8, <1>10, <2>0 DEF Room
  <2> QED BY <2>1, <2>2, <2>3, <2>4 DEF Sound
<1>13. \A i \in Taken(t) : i # p => SameEntry(u.node[i], t.node[i])
  BY <1>7, <1>8 DEF Taken, SameEntry
<1>14. Assigned(t, u, k, v)
  <2>1. Get(u, k) = v
    <3>1. p \in Taken(u) /\ ~u.node[p].dead /\ u.node[p].key = k /\ u.node[p].val = v
      BY <1>3, <1>5, <1>7, <1>10
    <3> QED BY <1>7, <1>12, <3>1, GetEntry
  <2>2. ASSUME NEW x \in Key \ {k} PROVE Get(u, x) = Get(t, x)
    <3>1. \A i \in Taken(t) : t.node[i].key = x /\ t.node[i].val # Nil => \E j \in Taken(u) : SameEntry(u.node[j], t.node[i])
      BY <1>3, <1>10, <1>13
    <3>2. \A j \in Taken(u) : u.node[j].key = x /\ u.node[j].val # Nil => \E i \in Taken(t) : SameEntry(u.node[j], t.node[i])
      BY <1>5, <1>7, <1>10, <1>13
    <3> QED BY <1>7, <1>12, <3>1, <3>2, SameGet
  <2> QED BY <2>1, <2>2 DEF Assigned
<1>15. Occupies(t, u, k, v)
  <2>1. \A j \in Taken(u) : \/ ~InArray(t, k) /\ IsEntry(u.node[j], k, v)
                            \/ \E i \in Taken(t) : SameEntry(u.node[j], t.node[i])
    <3>1. IsEntry(u.node[p], k, v)
      BY <1>5, <1>7 DEF IsEntry
    <3> QED BY <1>10, <1>13, <3>1
  <2> QED BY <1>7, <1>10, <2>1 DEF Occupies
<1>16. \A i \in Taken(t) : u.node[i].key = t.node[i].key
  BY <1>8, <1>9 DEF Taken
<1> QED
  BY <1>0, <1>7, <1>10, <1>12, <1>14, <1>15, <1>16

(* luaH_set in a table that has room.                                          *)
LEMMA SetRoomySound ==
  ASSUME NEW n \in Nat \ {0}, NEW t \in Table(n), Sound(t), NEW k \in Key, NEW v \in Vals,
         Present(t, k) \/ ~Full(t, k)
  PROVE  /\ SetRoomy(t, k, v) \in Table(n) /\ Sound(SetRoomy(t, k, v))
         /\ Assigned(t, SetRoomy(t, k, v), k, v) /\ Occupies(t, SetRoomy(t, k, v), k, v)
<1>1. CASE Present(t, k)
  <2>1. SetRoomy(t, k, v) = Store(t, k, v)
    BY <1>1 DEF SetRoomy
  <2> QED BY <1>1, <2>1, StoreArray, StoreNode
<1>2. CASE ~Present(t, k)
  <2>0. PICK u : u = SetRoomy(t, k, v)
    OBVIOUS
  <2>1. u = NewKey(t, k, v) /\ ~Full(t, k)
    BY <1>2, <2>0 DEF SetRoomy
  <2>2. ~t.dummy
    BY <2>1, DummyIsFull
  <2>3. ~InArray(t, k) /\ \A i \in Taken(t) : t.node[i].key = k => t.node[i].dead
    BY <1>2, AbsentIs
  <2>4. Insertable(t, k, v)
    BY <2>2, <2>3 DEF Insertable
  <2>5. u \in Table(n) /\ Sound(u) /\ u.array = t.array /\ ~u.dummy /\ Moved(t, u, k, v)
    BY <2>1, <2>4, NewKeySound
  <2>6. u.dummy = t.dummy
    BY <2>2, <2>5, TableParts
  <2>7. Assigned(t, u, k, v)
    <3>1. PICK j \in Taken(u) : IsEntry(u.node[j], k, v)
      BY <2>5 DEF Moved
    <3>2. Get(u, k) = v
      BY <2>5, <3>1, GetEntry DEF IsEntry
    <3>3. ASSUME NEW x \in Key \ {k} PROVE Get(u, x) = Get(t, x)
      <4>1. \A i \in Taken(t) : t.node[i].key = x /\ t.node[i].val # Nil => \E l \in Taken(u) : SameEntry(u.node[l], t.node[i])
        BY <2>5 DEF Moved
      <4>2. \A l \in Taken(u) : u.node[l].key = x /\ u.node[l].val # Nil => \E i \in Taken(t) : SameEntry(u.node[l], t.node[i])
        BY <2>5 DEF Moved, IsEntry
      <4> QED BY <2>5, <4>1, <4>2, SameGet
    <3> QED BY <3>2, <3>3 DEF Assigned
  <2>8. Occupies(t, u, k, v)
    BY <2>3, <2>5, <2>6 DEF Occupies, Moved
  <2> QED BY <2>0, <2>5, <2>7, <2>8
<1> QED
  BY <1>1, <1>2

-----------------------------------------------------------------------------
(* A new hash part, and rebuilds. *)

(* Numbering a set by different members of another. *)
LEMMA Numbered ==
  ASSUME NEW S, NEW T, IsFiniteSet(T), NEW f \in [S -> T], \A a, b \in S : f[a] = f[b] => a = b
  PROVE  IsFiniteSet(S) /\ Cardinality(S) <= Cardinality(T)
<1>1. f \in Injection(S, T)
  BY DEF Injection, IsInjective
<1> QED
  BY <1>1, FS_Injection

(* setnodevector, on the table of resize or of luaH_new: a power of two of     *)
(* places, all free.                                                           *)
LEMMA SetNodeVectorIs ==
  ASSUME NEW X, NEW t \in [array : Seq(Vals), node : X, dummy : BOOLEAN, lastfree : Nat], NEW size \in Nat,
         \A i \in 1 .. Len(t.array) : t.array[i] # Nil => i \in Ints
  PROVE  \E n \in Nat \ {0} :
           /\ SetNodeVector(t, size) \in Table(n) /\ Sound(SetNodeVector(t, size))
           /\ Taken(SetNodeVector(t, size)) = {} /\ SetNodeVector(t, size).array = t.array
           /\ SetNodeVector(t, size).dummy = (size = 0)
           /\ n >= size /\ \E l \in 0 .. n : n = TwoTo[l]
<1>0. PICK u : u = SetNodeVector(t, size)
  OBVIOUS
<1>1. PICK n : n = IF size = 0 THEN 1 ELSE TwoTo[CeilLog2(size)]
  OBVIOUS
<1>2. n \in Nat \ {0} /\ n >= size /\ (size = 0 => n = 1) /\ \E l \in 0 .. n : n = TwoTo[l]
  <2>1. CASE size = 0
    BY <1>1, <2>1, TwoToGrows, 0 \in 0 .. 1
  <2>2. CASE size # 0
    <3>1. PICK l : l = CeilLog2(size)
      OBVIOUS
    <3>2. l \in 0 .. size /\ TwoTo[l] >= size
      BY <3>1, CeilLog2Is
    <3>3. TwoTo[l] \in Nat /\ TwoTo[l] > l
      BY <3>2, TwoToGrows
    <3>4. n = TwoTo[l]
      BY <1>1, <2>2, <3>1
    <3>5. l \in 0 .. n
      BY <3>2, <3>3, <3>4
    <3> QED BY <2>2, <3>2, <3>3, <3>4, <3>5
  <2> QED BY <2>1, <2>2
<1>3. u = [t EXCEPT !.node = [i \in 0 .. n - 1 |-> Empty], !.dummy = (size = 0),
                    !.lastfree = IF size = 0 THEN 0 ELSE n]
  BY <1>0, <1>1 DEF SetNodeVector
<1>4. PICK nodes : nodes = [i \in 0 .. n - 1 |-> Empty]
  OBVIOUS
<1>5. Empty \in Node(n) /\ Empty.key = Nil /\ Empty.val = Nil /\ Empty.next = None /\ ~Empty.dead
  BY DEF Empty, Node, Vals
<1>6. nodes \in [0 .. n - 1 -> Node(n)] /\ \A i \in 0 .. n - 1 : nodes[i] = Empty
  BY <1>4, <1>5
<1>7. PICK lf : lf = IF size = 0 THEN 0 ELSE n
  OBVIOUS
<1>8. lf \in 0 .. n
  BY <1>2, <1>7
<1>9. u = [t EXCEPT !.node = nodes, !.dummy = (size = 0), !.lastfree = lf]
  BY <1>3, <1>4, <1>7
<1>10. u \in Table(n) /\ u.node = nodes /\ u.array = t.array /\ u.dummy = (size = 0) /\ u.lastfree = lf
  BY <1>6, <1>8, <1>9 DEF Table
<1>11. DOMAIN u.node = 0 .. n - 1 /\ Size(u) = n
  BY <1>2, <1>10, TableParts
<1>12. Taken(u) = {}
  BY <1>5, <1>6, <1>10, <1>11 DEF Taken
<1>13. Sound(u)
  <2>1. None \notin 0 .. n - 1
    BY KeysAssumption
  <2>2. Acyclic(u)
    BY <1>5, <1>6, <1>10, <1>11, <2>1 DEF Acyclic
  <2>3. Links(u)
    BY <1>5, <1>6, <1>10, <1>11, <2>2 DEF Links
  <2>4. Mains(u)
    BY <1>12 DEF Mains
  <2>5. Keys(u)
    BY <1>10, <1>12 DEF Keys
  <2>6. Room(u)
    <3>1. CASE size = 0
      BY <1>2, <1>7, <1>10, <1>11, <1>12, <3>1 DEF Room
    <3>2. CASE size # 0
      <4>1. \A i \in 0 .. n - 1 : ~(i >= lf)
        BY <1>2, <1>7, <3>2
      <4> QED BY <1>10, <1>11, <3>2, <4>1 DEF Room
    <3> QED BY <3>1, <3>2
  <2> QED BY <2>3, <2>4, <2>5, <2>6 DEF Sound
<1> QED
  BY <1>0, <1>2, <1>10, <1>12, <1>13

(* The old entries in the order resize sets them, as in its definition.        *)
Cut(t, m) == Max({0, Len(t.array) - m})
Old(t, m, j) == IF j <= Cut(t, m) THEN [key |-> m + j, val |-> t.array[m + j]]
                ELSE LET e == t.node[Size(t) + Cut(t, m) - j] IN [key |-> e.key, val |-> e.val]
Begun(t, m, h) ==
  SetNodeVector([t EXCEPT !.array = [i \in 1 .. m |-> IF i <= Len(t.array) THEN t.array[i] ELSE Nil]], h)
Sets(t, m, h, k, f) ==
  f = [j \in 0 .. k |-> IF j = 0 THEN Begun(t, m, h)
                        ELSE IF Old(t, m, j).val = Nil THEN f[j - 1]
                        ELSE SetRoomy(f[j - 1], Old(t, m, j).key, Old(t, m, j).val)]

(* The slice that vanishes is what the new array is shorter by.                *)
LEMMA CutIs ==
  ASSUME NEW n \in Nat \ {0}, NEW t \in Table(n), NEW m \in Nat
  PROVE  Cut(t, m) \in Nat /\ Cut(t, m) = IF Len(t.array) > m THEN Len(t.array) - m ELSE 0
<1>1. PICK d : d = Len(t.array) - m
  OBVIOUS
<1>2. d \in Int
  BY <1>1, TableParts
<1>3. \E x \in {0, d} : \A y \in {0, d} : x >= y
  BY <1>2
<1>4. Max({0, d}) \in {0, d} /\ \A y \in {0, d} : Max({0, d}) >= y
  BY <1>3 DEF Max
<1>5. Max({0, d}) = IF d > 0 THEN d ELSE 0
  BY <1>2, <1>4
<1> QED
  BY <1>1, <1>2, <1>5, TableParts DEF Cut

(* The recursive function of resize exists, for any number of entries. *)
LEMMA SetsExist ==
  ASSUME NEW t, NEW m, NEW h, NEW k \in Nat
  PROVE  \E f : Sets(t, m, h, k, f)
<1> DEFINE Is(f, j) == Sets(t, m, h, j, f)
           S == {j \in Nat : \E f : Is(f, j)}
           Next1(f, j) == IF j = 0 THEN Begun(t, m, h)
                          ELSE IF Old(t, m, j).val = Nil THEN f[j - 1]
                          ELSE SetRoomy(f[j - 1], Old(t, m, j).key, Old(t, m, j).val)
<1>1. 0 \in S
  <2> DEFINE f == [j \in 0 .. 0 |-> Begun(t, m, h)]
  <2>1. Is(f, 0)
    BY DEF Sets
  <2> QED BY <2>1
<1>2. ASSUME NEW j \in Nat, j \in S PROVE j + 1 \in S
  <2>1. PICK f : Is(f, j)
    BY <1>2
  <2> DEFINE g == [l \in 0 .. j + 1 |-> Next1(f, l)]
  <2>2. \A l \in 0 .. j : f[l] = Next1(f, l)
    BY <2>1 DEF Sets
  <2>3. \A l \in 0 .. j + 1 : l # 0 => l - 1 \in 0 .. j
    OBVIOUS
  <2>4. \A l \in 0 .. j : l \in 0 .. j + 1
    OBVIOUS
  <2>5. \A l \in 0 .. j : g[l] = f[l]
    BY <2>2, <2>4
  <2>6. Is(g, j + 1)
    <3>1. \A l \in 0 .. j + 1 : Next1(f, l) = Next1(g, l)
      BY <2>3, <2>5
    <3>2. g = [l \in 0 .. j + 1 |-> Next1(g, l)]
      BY <3>1
    <3> HIDE DEF g
    <3> QED BY <3>2 DEF Sets
  <2>7. j + 1 \in Nat
    OBVIOUS
  <2> HIDE DEF g, Is
  <2> QED BY <2>6, <2>7
<1> HIDE DEF S
<1>3. Nat \subseteq S
  BY <1>1, <1>2, NatSetInduction
<1> QED
  BY <1>3 DEF S

(* resize, entry by entry. *)
LEMMA ResizeSteps ==
  ASSUME NEW n \in Nat \ {0}, NEW t \in Table(n), NEW m \in Nat, NEW h \in Nat
  PROVE  \E f : /\ f[0] = Begun(t, m, h) /\ Resize(t, m, h) = f[Cut(t, m) + n]
                /\ \A j \in 1 .. Cut(t, m) + n :
                     f[j] = IF Old(t, m, j).val = Nil THEN f[j - 1]
                            ELSE SetRoomy(f[j - 1], Old(t, m, j).key, Old(t, m, j).val)
<1> DEFINE K == Cut(t, m) + Size(t)
           step == CHOOSE f : f = [j \in 0 .. K |-> IF j = 0 THEN Begun(t, m, h)
                        ELSE IF Old(t, m, j).val = Nil THEN f[j - 1]
                        ELSE SetRoomy(f[j - 1], Old(t, m, j).key, Old(t, m, j).val)]
<1>1. K \in Nat /\ Size(t) = n
  BY CutIs, TableParts
<1>2. \E f : Sets(t, m, h, K, f)
  <2> HIDE DEF K
  <2> QED BY <1>1, SetsExist
<1>3. step = [j \in 0 .. K |-> IF j = 0 THEN Begun(t, m, h)
                        ELSE IF Old(t, m, j).val = Nil THEN step[j - 1]
                        ELSE SetRoomy(step[j - 1], Old(t, m, j).key, Old(t, m, j).val)]
  <2> HIDE DEF K
  <2> QED BY <1>2 DEF Sets
<1>4. Resize(t, m, h) = step[K]
  BY DEF Resize, Begun, Old, Cut
<1> HIDE DEF step, K
<1>5. step[0] = Begun(t, m, h)
  BY <1>1, <1>3, 0 \in 0 .. K
<1>6. \A j \in 1 .. K : step[j] = IF Old(t, m, j).val = Nil THEN step[j - 1]
                                  ELSE SetRoomy(step[j - 1], Old(t, m, j).key, Old(t, m, j).val)
  <2> TAKE j \in 1 .. K
  <2>1. j \in 0 .. K /\ j # 0
    BY <1>1
  <2> QED BY <1>3, <2>1
<1> QED
  BY <1>1, <1>4, <1>5, <1>6 DEF K

(* The old entries that have a value are the keys that have one, each once,    *)
(* but for those that stay in the array.                                       *)
LEMMA OldIs ==
  ASSUME NEW n \in Nat \ {0}, NEW t \in Table(n), Sound(t), NEW m \in Nat
  PROVE  /\ \A j \in 1 .. Cut(t, m) + n : Old(t, m, j).val # Nil =>
              /\ Old(t, m, j).key \in Key /\ Old(t, m, j).val \in Vals
              /\ Get(t, Old(t, m, j).key) = Old(t, m, j).val
              /\ ~(Old(t, m, j).key \in 1 .. m /\ Old(t, m, j).key \in 1 .. Len(t.array))
         /\ \A j, l \in 1 .. Cut(t, m) + n :
              Old(t, m, j).val # Nil /\ Old(t, m, l).val # Nil /\ Old(t, m, j).key = Old(t, m, l).key => j = l
         /\ \A x \in Key : Get(t, x) # Nil =>
              \/ x \in 1 .. m /\ x \in 1 .. Len(t.array)
              \/ \E j \in 1 .. Cut(t, m) + n : Old(t, m, j).key = x /\ Old(t, m, j).val # Nil
<1>1. PICK na : na = Len(t.array)
  OBVIOUS
<1>2. PICK cut : cut = Cut(t, m)
  OBVIOUS
<1>3. na \in Nat /\ cut \in Nat /\ cut = IF na > m THEN na - m ELSE 0
  BY <1>1, <1>2, CutIs, TableParts
<1>4. Size(t) = n /\ t.array \in Seq(Vals) /\ DOMAIN t.node = 0 .. n - 1
  BY TableParts
<1>5. ASSUME NEW j \in 1 .. cut + n, j <= cut
      PROVE  /\ Old(t, m, j).key = m + j /\ Old(t, m, j).val = t.array[m + j]
             /\ m + j \in 1 .. na /\ m + j \notin 1 .. m
  <2>1. Old(t, m, j) = [key |-> m + j, val |-> t.array[m + j]]
    BY <1>2, <1>5 DEF Old
  <2>2. m + j \in 1 .. na
    BY <1>3, <1>5
  <2> QED BY <2>1, <2>2
<1>6. ASSUME NEW j \in 1 .. cut + n, ~(j <= cut)
      PROVE  /\ n + cut - j \in 0 .. n - 1
             /\ Old(t, m, j).key = t.node[n + cut - j].key /\ Old(t, m, j).val = t.node[n + cut - j].val
  <2>1. n + cut - j \in 0 .. n - 1
    BY <1>3, <1>6
  <2>2. Old(t, m, j) = [key |-> t.node[n + cut - j].key, val |-> t.node[n + cut - j].val]
    BY <1>2, <1>4, <1>6 DEF Old
  <2> QED BY <2>1, <2>2
<1>7. ASSUME NEW i \in 0 .. n - 1, t.node[i].val # Nil
      PROVE  /\ i \in Taken(t) /\ ~t.node[i].dead /\ t.node[i].key \in Key
             /\ t.node[i].key \notin 1 .. na /\ Get(t, t.node[i].key) = t.node[i].val
  <2>1. i \in Taken(t)
    BY <1>4, <1>7 DEF Sound, Links, Empty
  <2>2. ~t.node[i].dead
    BY <1>7, <2>1 DEF Sound, Keys
  <2>3. ~InArray(t, t.node[i].key)
    BY <2>1 DEF Sound, Keys
  <2>4. Get(t, t.node[i].key) = t.node[i].val
    BY <2>1, <2>2, GetEntry
  <2> QED BY <1>1, <2>1, <2>2, <2>3, <2>4, TakenIs DEF InArray
<1>8. ASSUME NEW x \in 1 .. na, t.array[x] # Nil
      PROVE  x \in Key /\ Get(t, x) = t.array[x]
  <2>1. x \in Ints
    BY <1>1, <1>8 DEF Sound, Keys
  <2> QED BY <1>1, <2>1 DEF Get, InArray, Key
<1>9. ASSUME NEW j \in 1 .. cut + n, Old(t, m, j).val # Nil
      PROVE  /\ Old(t, m, j).key \in Key /\ Old(t, m, j).val \in Vals
             /\ Get(t, Old(t, m, j).key) = Old(t, m, j).val
             /\ ~(Old(t, m, j).key \in 1 .. m /\ Old(t, m, j).key \in 1 .. na)
             /\ Old(t, m, j).key \in 1 .. na <=> j <= cut
  <2>1. CASE j <= cut
    <3>1. Old(t, m, j).key = m + j /\ Old(t, m, j).val = t.array[m + j] /\ m + j \in 1 .. na /\ m + j \notin 1 .. m
      BY <1>5, <2>1
    <3>2. m + j \in Key /\ Get(t, m + j) = t.array[m + j]
      BY <1>8, <1>9, <3>1
    <3>3. t.array[m + j] \in Vals
      BY <1>1, <1>4, <3>1
    <3> QED BY <2>1, <3>1, <3>2, <3>3
  <2>2. CASE ~(j <= cut)
    <3>1. PICK i : i = n + cut - j
      OBVIOUS
    <3>2. i \in 0 .. n - 1 /\ Old(t, m, j).key = t.node[i].key /\ Old(t, m, j).val = t.node[i].val
      BY <1>6, <2>2, <3>1
    <3>3. t.node[i].key \in Key /\ t.node[i].key \notin 1 .. na /\ Get(t, t.node[i].key) = t.node[i].val
      BY <1>7, <1>9, <3>2
    <3> QED BY <2>2, <3>2, <3>3, TableParts
  <2> QED BY <2>1, <2>2
<1>10. ASSUME NEW j \in 1 .. cut + n, NEW l \in 1 .. cut + n,
              Old(t, m, j).val # Nil, Old(t, m, l).val # Nil, Old(t, m, j).key = Old(t, m, l).key
       PROVE  j = l
  <2>1. j <= cut <=> l <= cut
    BY <1>9, <1>10
  <2>2. CASE j <= cut /\ l <= cut
    BY <1>3, <1>5, <1>10, <2>2
  <2>3. CASE ~(j <= cut) /\ ~(l <= cut)
    <3>1. PICK i : i = n + cut - j
      OBVIOUS
    <3>2. PICK e : e = n + cut - l
      OBVIOUS
    <3>3. i \in 0 .. n - 1 /\ Old(t, m, j).key = t.node[i].key /\ Old(t, m, j).val = t.node[i].val
      BY <1>6, <2>3, <3>1
    <3>4. e \in 0 .. n - 1 /\ Old(t, m, l).key = t.node[e].key /\ Old(t, m, l).val = t.node[e].val
      BY <1>6, <2>3, <3>2
    <3>5. i \in Taken(t) /\ e \in Taken(t) /\ ~t.node[i].dead /\ ~t.node[e].dead
      BY <1>7, <1>10, <3>3, <3>4
    <3>6. i = e
      BY <1>10, <3>3, <3>4, <3>5 DEF Sound, Keys
    <3> QED BY <1>3, <3>1, <3>2, <3>6
  <2> QED BY <2>1, <2>2, <2>3
<1>11. ASSUME NEW x \in Key, Get(t, x) # Nil, ~(x \in 1 .. m /\ x \in 1 .. na)
       PROVE  \E j \in 1 .. cut + n : Old(t, m, j).key = x /\ Old(t, m, j).val # Nil
  <2>1. CASE x \in 1 .. na
    <3>1. PICK j : j = x - m
      OBVIOUS
    <3>2. j \in 1 .. cut + n /\ j <= cut /\ m + j = x
      BY <1>3, <1>11, <2>1, <3>1
    <3>3. t.array[x] # Nil
      BY <1>1, <1>11, <2>1 DEF Get, InArray
    <3> QED BY <1>5, <3>2, <3>3
  <2>2. CASE x \notin 1 .. na
    <3>1. ~InArray(t, x)
      BY <1>1, <2>2 DEF InArray
    <3>2. Present(t, x)
      BY <1>11, AbsentIs
    <3>3. PICK i : i = NodeOf(t, x)
      OBVIOUS
    <3>4. i \in Taken(t) /\ t.node[i].key = x /\ t.node[i].val # Nil /\ i \in 0 .. n - 1
      BY <1>11, <3>1, <3>2, <3>3, PresentIs, TakenIs
    <3>5. PICK j : j = n + cut - i
      OBVIOUS
    <3>6. j \in 1 .. cut + n /\ ~(j <= cut) /\ n + cut - j = i
      BY <1>3, <3>4, <3>5
    <3> QED BY <1>6, <3>4, <3>6
  <2> QED BY <2>1, <2>2
<1> QED
  BY <1>1, <1>2, <1>9, <1>10, <1>11

(* The keys that a rebuild to m places of array sets in the hash part. *)
HashKeys(t, m) == {x \in Key : Get(t, x) # Nil /\ x \notin 1 .. m}

(* A hash part with fewer entries than places has room.                        *)
LEMMA RoomLeft ==
  ASSUME NEW n \in Nat \ {0}, NEW t \in Table(n), Sound(t), ~t.dummy, NEW k,
         NEW T, IsFiniteSet(T), Cardinality(T) < n,
         \A i \in Taken(t) : t.node[i].key \in T /\ ~t.node[i].dead
  PROVE  ~Full(t, k)
<1> SUFFICES ASSUME FreePos(t) = None PROVE FALSE
  BY DEF Full
<1>1. Taken(t) = 0 .. n - 1
  BY FreePosIs
<1>2. Cardinality(0 .. n - 1) = n
  <2>1. 0 \in Int /\ n - 1 \in Int /\ ~(0 > n - 1) /\ (n - 1) - 0 + 1 = n
    OBVIOUS
  <2> QED BY <2>1, FS_Interval
<1> DEFINE f == [i \in 0 .. n - 1 |-> t.node[i].key]
<1>3. f \in [0 .. n - 1 -> T]
  BY <1>1
<1>4. \A a, b \in 0 .. n - 1 : f[a] = f[b] => a = b
  BY <1>1 DEF Sound, Keys
<1>5. n <= Cardinality(T)
  <2> HIDE DEF f
  <2> QED BY <1>2, <1>3, <1>4, Numbered
<1>6. Cardinality(T) \in Nat
  BY FS_CardinalityType
<1> QED
  BY <1>5, <1>6

(* resize keeps the map, and finds every element a place, if the hash part is  *)
(* asked for as large as what goes there.                                      *)
LEMMA ResizeSound ==
  ASSUME NEW n \in Nat \ {0}, NEW t \in Table(n), Sound(t), NEW m \in Nat, NEW h \in Nat,
         IsFiniteSet(HashKeys(t, m)), Cardinality(HashKeys(t, m)) <= h
  PROVE  \E s \in Nat \ {0} :
           /\ Resize(t, m, h) \in Table(s) /\ Sound(Resize(t, m, h))
           /\ Len(Resize(t, m, h).array) = m /\ Resize(t, m, h).dummy = (h = 0)
           /\ s >= h /\ \E l \in 0 .. s : s = TwoTo[l]
           /\ \A x \in Key : Get(Resize(t, m, h), x) = Get(t, x)
           /\ \A i \in Taken(Resize(t, m, h)) : /\ Resize(t, m, h).node[i].key \in HashKeys(t, m)
                                                /\ ~Resize(t, m, h).node[i].dead
<1>1. PICK f : /\ f[0] = Begun(t, m, h) /\ Resize(t, m, h) = f[Cut(t, m) + n]
               /\ \A j \in 1 .. Cut(t, m) + n :
                     f[j] = IF Old(t, m, j).val = Nil THEN f[j - 1]
                            ELSE SetRoomy(f[j - 1], Old(t, m, j).key, Old(t, m, j).val)
  BY ResizeSteps
<1>2. PICK K \in Nat : K = Cut(t, m) + n
  BY CutIs
<1>3. PICK old : old = [j \in 1 .. K |-> Old(t, m, j)]
  OBVIOUS
<1>4. /\ \A j \in 1 .. K : old[j].val # Nil =>
              /\ old[j].key \in Key /\ old[j].val \in Vals
              /\ Get(t, old[j].key) = old[j].val
              /\ ~(old[j].key \in 1 .. m /\ old[j].key \in 1 .. Len(t.array))
      /\ \A j, l \in 1 .. K : old[j].val # Nil /\ old[l].val # Nil /\ old[j].key = old[l].key => j = l
      /\ \A x \in Key : Get(t, x) # Nil =>
              \/ x \in 1 .. m /\ x \in 1 .. Len(t.array)
              \/ \E j \in 1 .. K : old[j].key = x /\ old[j].val # Nil
      /\ \A j \in 1 .. K : f[j] = IF old[j].val = Nil THEN f[j - 1] ELSE SetRoomy(f[j - 1], old[j].key, old[j].val)
  BY <1>1, <1>2, <1>3, OldIs
<1> HIDE <1>3
<1>5. PICK array : array = [i \in 1 .. m |-> IF i <= Len(t.array) THEN t.array[i] ELSE Nil]
  OBVIOUS
<1>6. array \in Seq(Vals) /\ Len(array) = m /\ \A i \in 1 .. m : array[i] = IF i <= Len(t.array) THEN t.array[i] ELSE Nil
  <2>1. t.array \in Seq(Vals) /\ Len(t.array) \in Nat
    BY TableParts
  <2>2. \A i \in 1 .. m : (IF i <= Len(t.array) THEN t.array[i] ELSE Nil) \in Vals
    BY <2>1 DEF Vals
  <2>3. array \in [1 .. m -> Vals]
    BY <1>5, <2>2
  <2> QED BY <1>5, <2>3
<1>7. \A i \in 1 .. m : array[i] # Nil => i \in Ints
  <2> TAKE i \in 1 .. m
  <2>1. i <= Len(t.array) => i \in 1 .. Len(t.array)
    BY TableParts
  <2> QED BY <1>6, <2>1 DEF Sound, Keys
<1>8. PICK s \in Nat \ {0} :
         /\ f[0] \in Table(s) /\ Sound(f[0]) /\ Taken(f[0]) = {} /\ f[0].array = array
         /\ f[0].dummy = (h = 0)
         /\ s >= h /\ \E l \in 0 .. s : s = TwoTo[l]
  <2>1. PICK t0 : t0 = [t EXCEPT !.array = array]
    OBVIOUS
  <2>2. t0 \in [array : Seq(Vals), node : [0 .. n - 1 -> Node(n)], dummy : BOOLEAN, lastfree : Nat] /\ t0.array = array
    BY <1>6, <2>1 DEF Table
  <2>3. f[0] = SetNodeVector(t0, h)
    BY <1>1, <1>5, <2>1 DEF Begun
  <2>4. \A i \in 1 .. Len(t0.array) : t0.array[i] # Nil => i \in Ints
    BY <1>6, <1>7, <2>2
  <2>5. \E s \in Nat \ {0} :
           /\ SetNodeVector(t0, h) \in Table(s) /\ Sound(SetNodeVector(t0, h))
           /\ Taken(SetNodeVector(t0, h)) = {} /\ SetNodeVector(t0, h).array = t0.array
           /\ SetNodeVector(t0, h).dummy = (h = 0)
           /\ s >= h /\ \E l \in 0 .. s : s = TwoTo[l]
    BY <2>2, <2>4, SetNodeVectorIs
  <2> QED BY <2>2, <2>3, <2>5
<1> DEFINE P(j) == /\ f[j] \in Table(s) /\ Sound(f[j])
                   /\ Len(f[j].array) = m /\ f[j].dummy = (h = 0)
                   /\ \A x \in Key : Get(f[j], x) \in {Nil, Get(t, x)}
                   /\ \A x \in Key : x \in 1 .. m /\ x \in 1 .. Len(t.array) => Get(f[j], x) = Get(t, x)
                   /\ \A l \in 1 .. j : old[l].val # Nil => Get(f[j], old[l].key) = old[l].val
                   /\ \A i \in Taken(f[j]) : f[j].node[i].key \in HashKeys(t, m) /\ ~f[j].node[i].dead
           S == {j \in Nat : j <= K => P(j)}
<1>9. 0 \in S
  <2>1. \A x \in Key : InArray(f[0], x) <=> x \in 1 .. m
    BY <1>6, <1>8 DEF InArray
  <2>2. \A x \in Key : x \notin 1 .. m => Get(f[0], x) = Nil
    BY <1>8, <2>1, GetNone
  <2>3. \A x \in Key : x \in 1 .. m => Get(f[0], x) = array[x]
    BY <1>8, <2>1 DEF Get
  <2>4. \A x \in Key : x \in 1 .. m /\ x <= Len(t.array) => Get(t, x) = t.array[x]
    <3> TAKE x \in Key
    <3>1. x \in 1 .. m /\ x <= Len(t.array) => x \in 1 .. Len(t.array)
      BY TableParts
    <3> QED BY <3>1 DEF Get, InArray
  <2>5. \A x \in Key : Get(f[0], x) \in {Nil, Get(t, x)}
    BY <1>6, <2>2, <2>3, <2>4
  <2>6. \A x \in Key : x \in 1 .. m /\ x \in 1 .. Len(t.array) => Get(f[0], x) = Get(t, x)
    <3> TAKE x \in Key
    <3>1. x \in 1 .. Len(t.array) => x <= Len(t.array)
      BY TableParts
    <3> QED BY <1>6, <2>3, <2>4, <3>1
  <2> QED BY <1>6, <1>8, <2>5, <2>6
<1>10. ASSUME NEW j \in Nat, j \in S PROVE j + 1 \in S
  <2> SUFFICES ASSUME j + 1 <= K PROVE P(j + 1)
    OBVIOUS
  <2>0. P(j) /\ j + 1 \in 1 .. K /\ (j + 1) - 1 = j
    BY <1>10
  <2>a. \A l \in 1 .. j + 1 : l \in 1 .. j \/ l = j + 1
    OBVIOUS
  <2>1. CASE old[j + 1].val = Nil
    <3>1. f[j + 1] = f[j]
      BY <1>4, <2>0, <2>1
    <3> QED BY <2>0, <2>1, <2>a, <3>1
  <2>2. CASE old[j + 1].val # Nil
    <3>1. PICK k : k = old[j + 1].key
      OBVIOUS
    <3>2. PICK v : v = old[j + 1].val
      OBVIOUS
    <3>3. k \in Key /\ v \in Vals /\ v # Nil /\ Get(t, k) = v /\ ~(k \in 1 .. m /\ k \in 1 .. Len(t.array))
      BY <1>4, <2>0, <2>2, <3>1, <3>2
    <3>4. PICK u : u = f[j]
      OBVIOUS
    <3>5. f[j + 1] = SetRoomy(u, k, v)
      BY <1>4, <2>0, <2>2, <3>1, <3>2, <3>4
    <3>6. /\ u \in Table(s) /\ Sound(u)
          /\ Len(u.array) = m /\ u.dummy = (h = 0)
          /\ \A x \in Key : Get(u, x) \in {Nil, Get(t, x)}
          /\ \A x \in Key : x \in 1 .. m /\ x \in 1 .. Len(t.array) => Get(u, x) = Get(t, x)
          /\ \A l \in 1 .. j : old[l].val # Nil => Get(u, old[l].key) = old[l].val
          /\ \A i \in Taken(u) : u.node[i].key \in HashKeys(t, m) /\ ~u.node[i].dead
      BY <2>0, <3>4
    <3>7. Present(u, k) \/ ~Full(u, k)
      <4> SUFFICES ASSUME ~Present(u, k) PROVE ~Full(u, k)
        OBVIOUS
      <4>1. ~InArray(u, k) /\ \A i \in Taken(u) : u.node[i].key = k => u.node[i].dead
        BY <3>3, <3>6, AbsentIs
      <4>2. PICK T : T = HashKeys(t, m) \ {k}
        OBVIOUS
      <4>3. k \in HashKeys(t, m)
        BY <3>3, <3>6, <4>1 DEF HashKeys, InArray
      <4>4. IsFiniteSet(T) /\ Cardinality(T) = Cardinality(HashKeys(t, m)) - 1
        BY <4>2, <4>3, FS_RemoveElement
      <4>5. Cardinality(HashKeys(t, m)) \in Nat
        BY FS_CardinalityType
      <4>6. Cardinality(T) \in Nat
        BY <4>4, FS_CardinalityType
      <4>7. Cardinality(T) < s /\ h # 0
        BY <1>8, <4>4, <4>5, <4>6
      <4>8. \A i \in Taken(u) : u.node[i].key \in T /\ ~u.node[i].dead
        BY <3>6, <4>1, <4>2
      <4>9. ~u.dummy
        BY <3>6, <4>7
      <4> QED BY <3>6, <4>4, <4>7, <4>8, <4>9, RoomLeft
    <3>8. PICK w : w = SetRoomy(u, k, v)
      OBVIOUS
    <3>9. w \in Table(s) /\ Sound(w) /\ Assigned(u, w, k, v) /\ Occupies(u, w, k, v)
      BY <3>3, <3>6, <3>7, <3>8, SetRoomySound
    <3>10. Get(w, k) = v /\ \A x \in Key : x # k => Get(w, x) = Get(u, x)
      BY <3>9 DEF Assigned
    <3>11. Len(w.array) = m /\ w.dummy = (h = 0)
      BY <3>6, <3>9 DEF Occupies
    <3>12. \A x \in Key : Get(w, x) \in {Nil, Get(t, x)}
      BY <3>3, <3>6, <3>10
    <3>13. \A x \in Key : x \in 1 .. m /\ x \in 1 .. Len(t.array) => Get(w, x) = Get(t, x)
      BY <3>3, <3>6, <3>10
    <3>14. \A l \in 1 .. j + 1 : old[l].val # Nil => Get(w, old[l].key) = old[l].val
      <4> TAKE l \in 1 .. j + 1
      <4>0. l \in 1 .. K
        BY <2>0
      <4>1. CASE l = j + 1
        BY <3>1, <3>2, <3>10, <4>1
      <4>2. CASE l \in 1 .. j
        <5> SUFFICES ASSUME old[l].val # Nil PROVE Get(w, old[l].key) = old[l].val
          OBVIOUS
        <5>1. l # j + 1
          BY <4>2
        <5>2. old[l].key # k /\ old[l].key \in Key
          BY <1>4, <2>0, <2>2, <3>1, <4>0, <5>1
        <5> QED BY <3>6, <3>10, <4>2, <5>2
      <4> QED BY <2>a, <4>1, <4>2
    <3>15. \A i \in Taken(w) : w.node[i].key \in HashKeys(t, m) /\ ~w.node[i].dead
      <4> TAKE i \in Taken(w)
      <4>1. CASE ~InArray(u, k) /\ IsEntry(w.node[i], k, v)
        BY <3>3, <3>6, <4>1 DEF IsEntry, HashKeys, InArray
      <4>2. CASE \E e \in Taken(u) : SameEntry(w.node[i], u.node[e])
        BY <3>6, <4>2 DEF SameEntry
      <4> QED BY <3>9, <4>1, <4>2 DEF Occupies
    <3> QED BY <3>5, <3>8, <3>9, <3>11, <3>12, <3>13, <3>14, <3>15
  <2> QED BY <2>1, <2>2
<1>11. P(K)
  <2> HIDE DEF P
  <2>1. Nat \subseteq S
    <3> HIDE DEF S
    <3> QED BY <1>9, <1>10, NatSetInduction
  <2> QED BY <2>1
<1>12. \A x \in Key : Get(f[K], x) = Get(t, x)
  <2> TAKE x \in Key
  <2>1. CASE Get(t, x) = Nil
    BY <1>11, <2>1
  <2>2. CASE Get(t, x) # Nil
    <3>1. CASE x \in 1 .. m /\ x \in 1 .. Len(t.array)
      BY <1>11, <3>1
    <3>2. CASE \E j \in 1 .. K : old[j].key = x /\ old[j].val # Nil
      BY <1>4, <1>11, <3>2
    <3> QED BY <1>4, <2>2, <3>1, <3>2
  <2> QED BY <2>1, <2>2
<1> QED
  BY <1>1, <1>2, <1>8, <1>11, <1>12

-----------------------------------------------------------------------------
(* The keys with a value, and rehash. *)

(* The keys that are not in the array are at most as many as the places.       *)
LEMMA HashFits ==
  ASSUME NEW n \in Nat \ {0}, NEW t \in Table(n), Sound(t), NEW m \in Nat, m >= Len(t.array)
  PROVE  /\ IsFiniteSet(HashKeys(t, m)) /\ Cardinality(HashKeys(t, m)) <= n
         /\ t.dummy => HashKeys(t, m) = {}
<1>1. /\ DOMAIN t.node = 0 .. n - 1 /\ Len(t.array) \in Nat
  BY TableParts
<1>2. ASSUME NEW x \in HashKeys(t, m)
      PROVE  NodeOf(t, x) \in Taken(t) /\ t.node[NodeOf(t, x)].key = x
  <2>1. x \in Key /\ Get(t, x) # Nil /\ x \notin 1 .. m
    BY <1>2 DEF HashKeys
  <2>2. ~InArray(t, x)
    BY <2>1, <1>1 DEF InArray
  <2>3. Present(t, x)
    BY <2>1, <2>2 DEF Get, Present
  <2> QED BY <2>1, <2>2, <2>3, PresentIs
<1> DEFINE f == [x \in HashKeys(t, m) |-> NodeOf(t, x)]
<1>3. \A x \in HashKeys(t, m) : f[x] \in 0 .. n - 1 /\ t.node[f[x]].key = x
  BY <1>2, <1>1 DEF Taken
<1>4. f \in [HashKeys(t, m) -> 0 .. n - 1]
  BY <1>3
<1>5. \A x, y \in HashKeys(t, m) : f[x] = f[y] => x = y
  <2> HIDE DEF f
  <2> QED BY <1>3
<1>6. IsFiniteSet(0 .. n - 1) /\ Cardinality(0 .. n - 1) = n
  <2>1. 0 \in Int /\ n - 1 \in Int
    OBVIOUS
  <2>2. IsFiniteSet(0 .. n - 1) /\ Cardinality(0 .. n - 1) = IF 0 > n - 1 THEN 0 ELSE (n - 1) - 0 + 1
    BY <2>1, FS_Interval
  <2> QED BY <2>2
<1>7. IsFiniteSet(HashKeys(t, m)) /\ Cardinality(HashKeys(t, m)) <= n
  <2> HIDE DEF f
  <2>1. IsFiniteSet(HashKeys(t, m)) /\ Cardinality(HashKeys(t, m)) <= Cardinality(0 .. n - 1)
    BY <1>4, <1>5, <1>6, Numbered
  <2> QED BY <2>1, <1>6
<1>8. t.dummy => HashKeys(t, m) = {}
  <2> HIDE DEF f
  <2>1. t.dummy => Taken(t) = {}
    BY DEF Sound, Room
  <2> QED BY <2>1, <1>2
<1> QED BY <1>7, <1>8

(* Used is what has a value; it is finite.                                     *)
LEMMA UsedIs ==
  ASSUME NEW n \in Nat \ {0}, NEW t \in Table(n), Sound(t)
  PROVE  /\ Used(t) = {x \in Key : Get(t, x) # Nil}
         /\ IsFiniteSet(Used(t))
<1>1. /\ DOMAIN t.node = 0 .. n - 1 /\ Len(t.array) \in Nat
      /\ t.array \in Seq(Vals)
  BY TableParts
<1>2. ASSUME NEW x \in Used(t) PROVE x \in Key /\ Get(t, x) # Nil
  <2>1. CASE x \in {i \in 1 .. Len(t.array) : t.array[i] # Nil}
    <3>1. x \in 1 .. Len(t.array) /\ t.array[x] # Nil /\ x \in Ints
      BY <2>1 DEF Sound, Keys
    <3> QED BY <3>1 DEF Key, Get, InArray
  <2>2. CASE x \in {e.key : e \in {f \in Range(t.node) : f.val # Nil}}
    <3>1. PICK i \in DOMAIN t.node : t.node[i].val # Nil /\ x = t.node[i].key
      BY <2>2 DEF Range
    <3>2. i \in Taken(t)
      BY <3>1 DEF Sound, Links, Empty
    <3>3. ~t.node[i].dead
      BY <3>1, <3>2 DEF Sound, Keys
    <3>4. Get(t, x) = t.node[i].val
      BY <3>1, <3>2, <3>3, GetEntry
    <3>5. x \in Key
      BY <3>1, <3>2, TakenIs
    <3> QED BY <3>1, <3>4, <3>5
  <2> QED BY <1>2, <2>1, <2>2 DEF Used
<1>3. ASSUME NEW x \in Key, Get(t, x) # Nil PROVE x \in Used(t)
  <2>1. CASE InArray(t, x)
    BY <2>1, <1>3 DEF Used, Get, InArray
  <2>2. CASE ~InArray(t, x)
    <3>1. Present(t, x)
      BY <2>2, <1>3 DEF Get, Present
    <3>2. /\ NodeOf(t, x) \in Taken(t) /\ t.node[NodeOf(t, x)].key = x
          /\ Get(t, x) = t.node[NodeOf(t, x)].val
      BY <2>2, <3>1, PresentIs
    <3>3. t.node[NodeOf(t, x)] \in Range(t.node)
      BY <3>2 DEF Range, Taken
    <3> QED BY <3>2, <3>3, <1>3 DEF Used
  <2> QED BY <2>1, <2>2
<1>4. Used(t) = {x \in Key : Get(t, x) # Nil}
  BY <1>2, <1>3
<1>5. IsFiniteSet(HashKeys(t, Len(t.array)))
  BY <1>1, HashFits
<1>6. IsFiniteSet(1 .. Len(t.array))
  BY <1>1, FS_Interval
<1>7. IsFiniteSet(HashKeys(t, Len(t.array)) \cup (1 .. Len(t.array)))
  BY <1>5, <1>6, FS_Union
<1>8. Used(t) \subseteq HashKeys(t, Len(t.array)) \cup (1 .. Len(t.array))
  BY <1>4 DEF HashKeys
<1> QED BY <1>4, <1>7, <1>8, FS_Subset

(* A power of two is 1 or twice an earlier one, and they grow.                 *)
LEMMA TwoToRises ==
  ASSUME NEW i \in Nat, NEW j \in Nat, i <= j
  PROVE  TwoTo[i] <= TwoTo[j]
<1> DEFINE S == {d \in Nat : TwoTo[i] <= TwoTo[i + d]}
<1>1. 0 \in S
  <2>1. i + 0 = i /\ TwoTo[i] \in Nat
    BY TwoToGrows
  <2> QED BY <2>1
<1>2. ASSUME NEW d \in Nat, d \in S PROVE d + 1 \in S
  <2>1. TwoTo[i] <= TwoTo[i + d]
    BY <1>2
  <2>2. i + d \in Nat /\ i + (d + 1) = (i + d) + 1
    OBVIOUS
  <2>3. TwoTo[(i + d) + 1] = 2 * TwoTo[i + d] /\ TwoTo[i + d] \in Nat /\ TwoTo[i] \in Nat
    BY <2>2, TwoToGrows
  <2>4. TwoTo[i] <= TwoTo[i + (d + 1)]
    BY <2>1, <2>2, <2>3
  <2> QED BY <2>4
<1>3. Nat \subseteq S
  <2> HIDE DEF S
  <2> QED BY <1>1, <1>2, NatSetInduction
<1>4. j - i \in Nat /\ i + (j - i) = j
  OBVIOUS
<1>5. j - i \in S
  BY <1>3, <1>4
<1> QED BY <1>4, <1>5

(* Of a set of positive numbers at most n are at most n.                       *)
LEMMA UpTo ==
  ASSUME NEW S \in SUBSET (Nat \ {0}), NEW n \in Nat, IsFiniteSet(S)
  PROVE  /\ Cardinality({k \in S : k <= n}) \in Nat
         /\ Cardinality({k \in S : k <= n}) <= n
         /\ Cardinality({k \in S : k <= n}) <= Cardinality(S)
         /\ Cardinality(S) \in Nat
<1>1. {k \in S : k <= n} \in SUBSET (1 .. n)
  <2>1. \A k \in S : k \in Nat /\ k # 0
    OBVIOUS
  <2>2. \A k \in S : k <= n => k \in 1 .. n
    BY <2>1
  <2> QED BY <2>2
<1>2. IsFiniteSet(1 .. n) /\ Cardinality(1 .. n) = IF 1 > n THEN 0 ELSE n - 1 + 1
  BY FS_Interval
<1>3. Cardinality({k \in S : k <= n}) <= Cardinality(1 .. n) /\ IsFiniteSet({k \in S : k <= n})
  BY <1>1, <1>2, FS_Subset
<1>4. {k \in S : k <= n} \in SUBSET S
  OBVIOUS
<1>5. Cardinality({k \in S : k <= n}) <= Cardinality(S)
  BY <1>4, FS_Subset
<1>6. Cardinality({k \in S : k <= n}) \in Nat /\ Cardinality(S) \in Nat
  BY <1>3, FS_CardinalityType
<1> QED BY <1>2, <1>3, <1>5, <1>6

(* computesizes: the largest power of two of which more than half is in use,   *)
(* as in the comment at its head; and the count of what goes into the array.   *)
Sizes(S) == {TwoTo[i] : i \in 0 .. Cardinality(S)}
Dense(S) == {n \in Sizes(S) : 2 * Cardinality({j \in S : j <= n}) > n}

(* The loop of computesizes finds the largest dense size, and 0 if none is.    *)
LEMMA ComputeSizesIs ==
  ASSUME NEW S \in SUBSET (Nat \ {0}), IsFiniteSet(S)
  PROVE  /\ ComputeSizes(S).size = Max(Dense(S) \cup {0})
         /\ ComputeSizes(S).size \in Nat
         /\ ComputeSizes(S).inside = Cardinality({k \in S : k <= ComputeSizes(S).size})
<1> DEFINE upTo(n) == Cardinality({k \in S : k <= n})
           fit == {n \in Sizes(S) : /\ n \div 2 < Cardinality(S)
                                    /\ upTo(n) > upTo(n \div 2)
                                    /\ upTo(n) > n \div 2}
<1>1. Cardinality(S) \in Nat
  BY FS_CardinalityType
<1>2. ASSUME NEW i \in 0 .. Cardinality(S)
      PROVE  /\ TwoTo[i] \in Nat /\ TwoTo[i] <= TwoTo[Cardinality(S)]
             /\ TwoTo[i] = 1 \/ \E m \in Nat \ {0} : TwoTo[i] = 2 * m
  <2>1. i \in Nat /\ i <= Cardinality(S)
    BY <1>1
  <2>2. TwoTo[i] \in Nat /\ TwoTo[i] <= TwoTo[Cardinality(S)]
    BY <2>1, <1>1, TwoToRises, TwoToGrows
  <2>3. CASE i = 0
    BY <2>2, <2>3, TwoToGrows
  <2>4. CASE i # 0
    <3>1. i - 1 \in Nat /\ (i - 1) + 1 = i
      BY <2>1, <2>4
    <3>2. TwoTo[(i - 1) + 1] = 2 * TwoTo[i - 1] /\ TwoTo[i - 1] \in Nat /\ TwoTo[i - 1] > i - 1
      BY <3>1, TwoToGrows
    <3>3. TwoTo[i] = 2 * TwoTo[i - 1] /\ TwoTo[i - 1] \in Nat \ {0}
      BY <3>1, <3>2
    <3> QED BY <2>2, <3>3
  <2> QED BY <2>3, <2>4
<1>3. ASSUME NEW n \in Sizes(S)
      PROVE  /\ n \in Nat /\ n <= TwoTo[Cardinality(S)]
             /\ n = 1 \/ \E m \in Nat \ {0} : n = 2 * m
  BY <1>2, <1>3 DEF Sizes
<1>4. ASSUME NEW n \in Sizes(S) PROVE n \in fit <=> n \in Dense(S)
  <2>1. n \in Nat
    BY <1>3
  <2>2. upTo(n) \in Nat /\ upTo(n) <= Cardinality(S)
    BY <2>1, UpTo
  <2>3. n \in Dense(S) <=> 2 * upTo(n) > n
    BY DEF Dense
  <2>4. CASE n = 1
    <3>1. n \div 2 = 0
      BY <2>4
    <3>2. upTo(0) \in Nat /\ upTo(0) <= 0
      BY UpTo
    <3>3. n \in fit <=> 0 < Cardinality(S) /\ upTo(n) > upTo(0) /\ upTo(n) > 0
      BY <3>1
    <3> HIDE DEF upTo, fit
    <3> QED BY <2>2, <2>3, <2>4, <3>2, <3>3, <1>1
  <2>5. ASSUME NEW m \in Nat \ {0}, n = 2 * m PROVE n \in fit <=> n \in Dense(S)
    <3>1. n \div 2 = m
      BY <2>5
    <3>2. upTo(m) \in Nat /\ upTo(m) <= m
      BY UpTo
    <3>3. n \in fit <=> m < Cardinality(S) /\ upTo(n) > upTo(m) /\ upTo(n) > m
      BY <3>1
    <3> HIDE DEF upTo, fit
    <3> QED BY <2>2, <2>3, <2>5, <3>2, <3>3, <1>1
  <2> QED BY <2>4, <2>5, <1>3
<1>5. fit = Dense(S)
  <2>1. fit \subseteq Sizes(S) /\ Dense(S) \subseteq Sizes(S)
    BY DEF Dense
  <2> HIDE DEF fit
  <2> QED BY <1>4, <2>1
<1>6. /\ ComputeSizes(S).size = Max(fit \cup {0})
      /\ ComputeSizes(S).inside = upTo(Max(fit \cup {0}))
  BY DEF ComputeSizes, Sizes
<1>7. Max(Dense(S) \cup {0}) \in Nat
  <2>1. Dense(S) \cup {0} \in SUBSET Nat /\ Dense(S) \cup {0} # {}
    BY <1>3 DEF Dense
  <2>2. TwoTo[Cardinality(S)] \in Nat
    BY <1>1, TwoToGrows
  <2>3. \A m \in Dense(S) \cup {0} : m <= TwoTo[Cardinality(S)]
    BY <1>3, <2>2 DEF Dense
  <2>4. Max(Dense(S) \cup {0}) \in Dense(S) \cup {0}
    BY <2>1, <2>2, <2>3, MaxIs
  <2> QED BY <2>1, <2>4
<1> QED
  <2> HIDE DEF fit
  <2> QED BY <1>5, <1>6, <1>7

-----------------------------------------------------------------------------
(* Where next stands. *)

(* Places that lead to each other are the same.                                *)
LEMMA NoCircle ==
  ASSUME NEW n \in Nat \ {0}, NEW t \in Table(n), Acyclic(t),
         NEW i \in 0 .. n - 1, NEW j \in 0 .. n - 1, Leads(t, i, j), Leads(t, j, i)
  PROVE  i = j
<1> SUFFICES ASSUME i # j PROVE FALSE
  OBVIOUS
<1>1. DOMAIN t.node = 0 .. n - 1 /\ \A x \in 0 .. n - 1 : t.node[x].next \in (0 .. n - 1) \cup {None}
  BY TableParts
<1>2. ASSUME NEW p \in 0 .. n - 1, NEW x \in 0 .. n - 1, p # x, Leads(t, p, x)
      PROVE  t.node[p].next \in 0 .. n - 1 /\ Leads(t, t.node[p].next, x)
  <2>1. t.node[p].next # None
    <3> SUFFICES ASSUME t.node[p].next = None PROVE FALSE
      OBVIOUS
    <3>1. Closed(t, {p}) /\ {p} \in SUBSET DOMAIN t.node
      BY <1>1 DEF Closed
    <3>2. x \in {p}
      BY <1>2, <3>1 DEF Leads
    <3> QED BY <1>2, <3>2
  <2>2. ASSUME NEW S \in SUBSET DOMAIN t.node, t.node[p].next \in S, Closed(t, S) PROVE x \in S
    <3>1. Closed(t, S \cup {p}) /\ S \cup {p} \in SUBSET DOMAIN t.node
      BY <1>1, <2>2 DEF Closed
    <3>2. x \in S \cup {p}
      BY <1>2, <3>1 DEF Leads
    <3> QED BY <1>2, <3>2
  <2> QED BY <1>1, <2>1, <2>2 DEF Leads
<1>3. \A x, y, z : Leads(t, x, y) /\ Leads(t, y, z) => Leads(t, x, z)
  BY DEF Leads
<1>4. \A x, y : Leads(t, x, y) /\ y \in 0 .. n - 1 /\ t.node[y].next # None => Leads(t, x, t.node[y].next)
  BY DEF Leads, Closed
<1> DEFINE S == {p \in 0 .. n - 1 : Leads(t, i, p) /\ Leads(t, p, i)}
<1>5. i \in S /\ S \in SUBSET DOMAIN t.node
  BY <1>1 DEF Leads
<1>6. ASSUME NEW p \in S PROVE t.node[p].next \in S
  <2>1. p \in 0 .. n - 1 /\ Leads(t, i, p) /\ Leads(t, p, i)
    OBVIOUS
  <2>2. t.node[p].next \in 0 .. n - 1 /\ Leads(t, t.node[p].next, i)
    <3>1. CASE p # i
      BY <1>2, <2>1, <3>1
    <3>2. CASE p = i
      <4>1. t.node[i].next \in 0 .. n - 1 /\ Leads(t, t.node[i].next, j)
        BY <1>2
      <4> QED BY <1>3, <3>2, <4>1
    <3> QED BY <3>1, <3>2
  <2>3. Leads(t, i, t.node[p].next)
    <3>1. None \notin 0 .. n - 1
      <4>1. None \notin Nat
        BY KeysAssumption
      <4> QED BY <4>1
    <3>2. t.node[p].next # None
      BY <2>2, <3>1
    <3> QED BY <1>4, <2>1, <3>2
  <2> QED BY <2>2, <2>3
<1> QED
  <2> HIDE DEF S
  <2> QED BY <1>5, <1>6 DEF Acyclic

(* A key that is not dead is found at its place.                               *)
LEMMA FindIndexLive ==
  ASSUME NEW n \in Nat \ {0}, NEW t \in Table(n), Sound(t), Ahead(t), NEW i \in Taken(t), ~t.node[i].dead
  PROVE  FindIndex(t, t.node[i].key) = Len(t.array) + i + 1
<1>1. PICK j \in Taken(t) : /\ t.node[j].key = t.node[i].key
                            /\ FindIndex(t, t.node[i].key) = Len(t.array) + j + 1
                            /\ Leads(t, j, i)
  BY FindIndexIs
<1>2. Leads(t, i, j)
  BY <1>1 DEF Ahead
<1>3. i \in 0 .. n - 1 /\ j \in 0 .. n - 1
  BY TakenIs
<1>4. i = j
  BY <1>1, <1>2, <1>3, NoCircle DEF Sound, Links
<1> QED BY <1>1, <1>4

(* The keys and values next counts through, as in NextKey.                     *)
KeyAt(t, i) == IF i <= Len(t.array) THEN i ELSE t.node[i - Len(t.array) - 1].key
ValAt(t, i) == IF i <= Len(t.array) THEN t.array[i] ELSE t.node[i - Len(t.array) - 1].val

(* Every index with a value has a key with that value, found at that index.    *)
LEMMA IndexIs ==
  ASSUME NEW n \in Nat \ {0}, NEW t \in Table(n), Sound(t), Ahead(t),
         NEW i \in 1 .. Len(t.array) + n, ValAt(t, i) # Nil
  PROVE  /\ KeyAt(t, i) \in Key /\ Get(t, KeyAt(t, i)) = ValAt(t, i)
         /\ FindIndex(t, KeyAt(t, i)) = i
<1>1. Len(t.array) \in Nat /\ DOMAIN t.node = 0 .. n - 1
  BY TableParts
<1>2. CASE i <= Len(t.array)
  <2>1. KeyAt(t, i) = i /\ ValAt(t, i) = t.array[i] /\ InArray(t, i)
    BY <1>1, <1>2 DEF KeyAt, ValAt, InArray
  <2>2. i \in Ints
    BY <2>1 DEF Sound, Keys, InArray
  <2>3. i \in Key /\ i # Nil
    BY <2>2, KeysAssumption DEF Key
  <2> QED BY <2>1, <2>3 DEF Get, FindIndex
<1>3. CASE i > Len(t.array)
  <2>1. PICK p : p = i - Len(t.array) - 1
    OBVIOUS
  <2>2. p \in 0 .. n - 1 /\ i = Len(t.array) + p + 1
    BY <1>1, <1>3, <2>1
  <2>3. KeyAt(t, i) = t.node[p].key /\ ValAt(t, i) = t.node[p].val
    <3>1. ~(i <= Len(t.array))
      BY <1>1, <1>3
    <3> QED BY <2>1, <3>1 DEF KeyAt, ValAt
  <2>4. p \in Taken(t)
    BY <1>1, <2>2, <2>3 DEF Sound, Links, Empty
  <2>5. ~t.node[p].dead
    BY <2>3, <2>4 DEF Sound, Keys
  <2>6. Get(t, t.node[p].key) = t.node[p].val /\ t.node[p].key \in Key
    BY <2>4, <2>5, GetEntry, TakenIs
  <2>7. FindIndex(t, t.node[p].key) = Len(t.array) + p + 1
    BY <2>4, <2>5, FindIndexLive
  <2> QED BY <2>2, <2>3, <2>6, <2>7
<1> QED BY <1>1, <1>2, <1>3

(* Every key with a value has such an index.                                   *)
LEMMA IndexOf ==
  ASSUME NEW n \in Nat \ {0}, NEW t \in Table(n), Sound(t), Ahead(t), NEW x \in Key, Get(t, x) # Nil
  PROVE  /\ FindIndex(t, x) \in 1 .. Len(t.array) + n
         /\ KeyAt(t, FindIndex(t, x)) = x /\ ValAt(t, FindIndex(t, x)) # Nil
<1>1. Len(t.array) \in Nat /\ x # Nil
  BY TableParts, KeysAssumption
<1>2. CASE InArray(t, x)
  <2>1. FindIndex(t, x) = x /\ x \in 1 .. Len(t.array) /\ Get(t, x) = t.array[x]
    BY <1>1, <1>2 DEF FindIndex, InArray, Get
  <2>2. x \in 1 .. Len(t.array) + n /\ x <= Len(t.array)
    BY <1>1, <2>1
  <2> QED BY <2>1, <2>2 DEF KeyAt, ValAt
<1>3. CASE ~InArray(t, x)
  <2>1. Present(t, x)
    BY <1>3 DEF Get, Present
  <2>2. PICK p : p = NodeOf(t, x)
    OBVIOUS
  <2>3. /\ p \in Taken(t) /\ t.node[p].key = x /\ ~t.node[p].dead
        /\ Get(t, x) = t.node[p].val
    BY <1>3, <2>1, <2>2, PresentIs
  <2>4. FindIndex(t, x) = Len(t.array) + p + 1 /\ p \in 0 .. n - 1
    BY <2>3, FindIndexLive, TakenIs
  <2>5. /\ Len(t.array) + p + 1 \in 1 .. Len(t.array) + n
        /\ ~(Len(t.array) + p + 1 <= Len(t.array))
        /\ Len(t.array) + p + 1 - Len(t.array) - 1 = p
    BY <1>1, <2>4
  <2> QED BY <2>3, <2>4, <2>5 DEF KeyAt, ValAt
<1> QED BY <1>2, <1>3

(* luaH_next answers the first key with a value after where it stands.         *)
LEMMA NextKeyIs ==
  ASSUME NEW n \in Nat \ {0}, NEW t \in Table(n), Sound(t), Ahead(t), NEW k, FindIndex(t, k) \in Nat
  PROVE  IF NextKey(t, k) = None
         THEN \A x \in Key : Get(t, x) # Nil => FindIndex(t, x) <= FindIndex(t, k)
         ELSE /\ NextKey(t, k) \in Key /\ Get(t, NextKey(t, k)) # Nil
              /\ FindIndex(t, NextKey(t, k)) \in Nat
              /\ FindIndex(t, NextKey(t, k)) > FindIndex(t, k)
              /\ \A x \in Key : Get(t, x) # Nil /\ FindIndex(t, x) > FindIndex(t, k) /\ x # NextKey(t, k)
                    => FindIndex(t, x) > FindIndex(t, NextKey(t, k))
<1>1. Len(t.array) \in Nat /\ Size(t) = n
  BY TableParts
<1>2. PICK f \in Nat : f = FindIndex(t, k)
  OBVIOUS
<1> DEFINE on == {i \in 1 .. Len(t.array) + n : i > f /\ ValAt(t, i) # Nil}
<1>3. NextKey(t, k) = IF on = {} THEN None ELSE KeyAt(t, Min(on))
  BY <1>1, <1>2 DEF NextKey, KeyAt, ValAt
<1>4. on \in SUBSET Nat
  BY <1>1
<1>5. \A x \in Key : Get(t, x) # Nil /\ FindIndex(t, x) > f => FindIndex(t, x) \in on
  BY IndexOf
<1>6. \A x \in Key : Get(t, x) # Nil => FindIndex(t, x) \in Nat
  <2> TAKE x \in Key
  <2>1. Get(t, x) # Nil => FindIndex(t, x) \in 1 .. Len(t.array) + n
    BY IndexOf
  <2> QED BY <1>1, <2>1
<1>7. CASE on = {}
  <2>1. NextKey(t, k) = None
    BY <1>3, <1>7
  <2>2. \A x \in Key : Get(t, x) # Nil => FindIndex(t, x) <= f
    <3> HIDE DEF on
    <3> QED BY <1>5, <1>6, <1>7
  <2> QED BY <1>2, <2>1, <2>2
<1>8. CASE on # {}
  <2>1. PICK m : m = Min(on)
    OBVIOUS
  <2>2. m \in on /\ \A i \in on : m <= i
    <3> HIDE DEF on
    <3> QED BY <1>4, <1>8, <2>1, MinIs
  <2>3. m \in 1 .. Len(t.array) + n /\ m > f /\ ValAt(t, m) # Nil /\ m \in Nat
    BY <2>2, <1>4
  <2>4. KeyAt(t, m) \in Key /\ Get(t, KeyAt(t, m)) = ValAt(t, m) /\ FindIndex(t, KeyAt(t, m)) = m
    BY <2>3, IndexIs
  <2>5. NextKey(t, k) = KeyAt(t, m)
    BY <1>3, <1>8, <2>1
  <2>6. NextKey(t, k) # None
    BY <2>4, <2>5, KeysAssumption
  <2>7. ASSUME NEW x \in Key, Get(t, x) # Nil, FindIndex(t, x) > f, x # KeyAt(t, m)
        PROVE  FindIndex(t, x) > m
    <3>1. FindIndex(t, x) \in on /\ FindIndex(t, x) \in Nat
      BY <1>5, <1>6, <2>7
    <3>2. m <= FindIndex(t, x)
      BY <2>2, <3>1
    <3>3. FindIndex(t, x) # m
      BY <2>7, IndexOf
    <3> QED BY <2>3, <3>1, <3>2, <3>3
  <2> HIDE DEF on
  <2> QED BY <1>2, <2>3, <2>4, <2>5, <2>6, <2>7
<1> QED BY <1>7, <1>8

-----------------------------------------------------------------------------
(* What changes no key and no link. *)

SameShape(t, u) ==
  /\ Len(u.array) = Len(t.array)
  /\ \A i \in DOMAIN t.node : u.node[i].key = t.node[i].key /\ u.node[i].next = t.node[i].next

(* The chains stay.                                                            *)
LEMMA SameChain ==
  ASSUME NEW n \in Nat \ {0}, NEW t \in Table(n), NEW u \in Table(n), SameShape(t, u),
         NEW i \in 0 .. n - 1
  PROVE  \A m \in 0 .. n : Chain(u, i)[m] = Chain(t, i)[m]
<1>1. /\ Chain(t, i)[0] = i /\ Chain(u, i)[0] = i
      /\ \A m \in 1 .. n : Chain(t, i)[m] = IF Chain(t, i)[m - 1] = None THEN None
                                            ELSE t.node[Chain(t, i)[m - 1]].next
      /\ \A m \in 1 .. n : Chain(u, i)[m] = IF Chain(u, i)[m - 1] = None THEN None
                                            ELSE u.node[Chain(u, i)[m - 1]].next
      /\ \A m \in 0 .. n : Chain(t, i)[m] \in (0 .. n - 1) \cup {None}
  BY ChainSteps
<1>2. \A p \in 0 .. n - 1 : u.node[p].next = t.node[p].next
  BY TableParts DEF SameShape
<1> DEFINE D == {m \in Nat : m <= n => Chain(u, i)[m] = Chain(t, i)[m]}
<1>3. 0 \in D
  BY <1>1
<1>4. ASSUME NEW m \in Nat, m \in D PROVE m + 1 \in D
  <2> SUFFICES ASSUME m + 1 <= n PROVE Chain(u, i)[m + 1] = Chain(t, i)[m + 1]
    OBVIOUS
  <2>1. m + 1 \in 1 .. n /\ m \in 0 .. n /\ (m + 1) - 1 = m /\ m <= n
    OBVIOUS
  <2>2. Chain(u, i)[m] = Chain(t, i)[m]
    BY <1>4, <2>1
  <2>3. Chain(t, i)[m + 1] = IF Chain(t, i)[m] = None THEN None ELSE t.node[Chain(t, i)[m]].next
    BY <1>1, <2>1
  <2>4. Chain(u, i)[m + 1] = IF Chain(u, i)[m] = None THEN None ELSE u.node[Chain(u, i)[m]].next
    BY <1>1, <2>1
  <2>5. Chain(t, i)[m] \in (0 .. n - 1) \cup {None}
    BY <1>1, <2>1
  <2> QED BY <1>2, <2>2, <2>3, <2>4, <2>5
<1>5. Nat \subseteq D
  <2> HIDE DEF D
  <2> QED BY <1>3, <1>4, NatSetInduction
<1> QED BY <1>5

(* So does where next goes on.                                                 *)
LEMMA SameFindIndex ==
  ASSUME NEW n \in Nat \ {0}, NEW t \in Table(n), NEW u \in Table(n), SameShape(t, u),
         NEW k \in Key \cup {Nil}
  PROVE  FindIndex(u, k) = FindIndex(t, k)
<1>1. \A x : InArray(u, x) <=> InArray(t, x)
  BY DEF InArray, SameShape
<1>2. CASE k = Nil
  BY <1>2 DEF FindIndex
<1>3. CASE k # Nil
  <2>1. k \in Key
    BY <1>3
  <2>2. PICK mp : mp = MainPosition(t, k)
    OBVIOUS
  <2>3. mp \in 0 .. n - 1 /\ MainPosition(u, k) = mp
    <3>1. Size(t) = Size(u)
      BY TableParts
    <3> QED BY <2>1, <2>2, <3>1, MainIsPlace, MainSame
  <2>4. PICK c : c = Chain(t, mp)
    OBVIOUS
  <2>5. PICK d : d = Chain(u, mp)
    OBVIOUS
  <2>6. DOMAIN c = 0 .. n /\ DOMAIN d = 0 .. n /\ \A m \in 0 .. n : d[m] = c[m] /\ c[m] \in (0 .. n - 1) \cup {None}
    BY <2>3, <2>4, <2>5, ChainSteps, SameChain
  <2> DEFINE hit == {m \in DOMAIN c : c[m] # None /\ t.node[c[m]].key = k}
             hitU == {m \in DOMAIN d : d[m] # None /\ u.node[d[m]].key = k}
             first == IF hit = {} THEN None ELSE c[Min(hit)]
             firstU == IF hitU = {} THEN None ELSE d[Min(hitU)]
  <2>7. hit = hitU
    <3>1. \A p \in 0 .. n - 1 : u.node[p].key = t.node[p].key
      BY TableParts DEF SameShape
    <3> QED BY <2>6, <3>1
  <2>8. first = firstU
    <3>1. hit # {} => Min(hit) \in 0 .. n
      <4>1. hit \in SUBSET Nat /\ hit \in SUBSET (0 .. n)
        BY <2>6
      <4> HIDE DEF hit
      <4>2. hit # {} => Min(hit) \in hit
        BY <4>1, MinIs
      <4> QED BY <4>1, <4>2
    <3> HIDE DEF hit, hitU
    <3> QED BY <2>6, <2>7, <3>1
  <2>9. FindIndex(t, k) = IF k = Nil THEN 0 ELSE IF InArray(t, k) THEN k
                          ELSE IF first = None THEN -1 ELSE Len(t.array) + first + 1
    BY <2>2, <2>4 DEF FindIndex, FirstIn
  <2>10. FindIndex(u, k) = IF k = Nil THEN 0 ELSE IF InArray(u, k) THEN k
                           ELSE IF firstU = None THEN -1 ELSE Len(u.array) + firstU + 1
    BY <2>3, <2>5 DEF FindIndex, FirstIn
  <2> HIDE DEF first, firstU
  <2> QED BY <1>1, <2>8, <2>9, <2>10 DEF SameShape
<1> QED BY <1>2, <1>3

(* Marking keys dead, and clearing what is marked, keeps a table sound: but    *)
(* for the first place of each key, the keys were dead already.                *)
LEMMA MarkedSound ==
  ASSUME NEW n \in Nat \ {0}, NEW t \in Table(n), NEW u \in Table(n), Sound(t), Ahead(t),
         SameShape(t, u), u.array = t.array, u.dummy = t.dummy, u.lastfree = t.lastfree,
         \A i \in 0 .. n - 1 : i \notin Taken(t) => u.node[i] = t.node[i],
         \A i \in 0 .. n - 1 : ~u.node[i].dead => ~t.node[i].dead,
         \A i \in 0 .. n - 1 : u.node[i].dead => u.node[i].val = Nil
  PROVE  Sound(u) /\ Ahead(u) /\ Taken(u) = Taken(t)
<1>0. Links(t) /\ Mains(t) /\ Keys(t) /\ Room(t)
  BY DEF Sound
<1>1. DOMAIN u.node = 0 .. n - 1 /\ DOMAIN t.node = 0 .. n - 1 /\ Size(u) = n /\ Size(t) = n
  BY TableParts
<1>2. \A i \in 0 .. n - 1 : u.node[i].key = t.node[i].key /\ u.node[i].next = t.node[i].next
  BY <1>1 DEF SameShape
<1>3. Taken(u) = Taken(t) /\ \A i \in Taken(t) : i \in 0 .. n - 1
  BY <1>1, <1>2 DEF Taken
<1>4. /\ \A x : InArray(u, x) <=> InArray(t, x)
      /\ \A x : MainPosition(u, x) = MainPosition(t, x)
      /\ \A i \in 0 .. n - 1 : Main(u, i) = Main(t, i)
  BY <1>1, <1>2, MainSame DEF InArray, Main
<1>5. \A i, j : Leads(u, i, j) <=> Leads(t, i, j)
  <2>1. \A S \in SUBSET (0 .. n - 1) : Closed(u, S) <=> Closed(t, S)
    BY <1>2 DEF Closed
  <2> QED BY <1>1, <2>1 DEF Leads
<1>6. Links(u)
  <2>1. Acyclic(u)
    BY <1>0, <1>1, <1>2 DEF Links, Acyclic
  <2>2. \A i \in DOMAIN u.node : i \notin Taken(u) => u.node[i] = Empty
    BY <1>0, <1>1, <1>3 DEF Links
  <2>3. \A i, j \in DOMAIN u.node : u.node[i].next = u.node[j].next /\ u.node[i].next # None => i = j
    BY <1>0, <1>1, <1>2 DEF Links
  <2>4. \A i \in DOMAIN u.node : u.node[i].next # None => u.node[i].next \in Taken(u)
    BY <1>0, <1>1, <1>2, <1>3 DEF Links
  <2> QED BY <2>1, <2>2, <2>3, <2>4 DEF Links
<1>7. Mains(u)
  <2>1. \A i \in Taken(t) : Main(t, i) \in 0 .. n - 1
    BY TakenIs
  <2> QED BY <1>0, <1>3, <1>4, <1>5, <2>1 DEF Mains
<1>8. Keys(u)
  <2>1. \A i \in Taken(u) : u.node[i].dead => u.node[i].val = Nil
    BY <1>3
  <2>2. \A i \in Taken(u) : ~InArray(u, u.node[i].key)
    BY <1>0, <1>2, <1>3, <1>4 DEF Keys
  <2>3. \A i, j \in Taken(u) : u.node[i].key = u.node[j].key /\ ~u.node[i].dead /\ ~u.node[j].dead => i = j
    BY <1>0, <1>2, <1>3 DEF Keys
  <2> QED BY <1>0, <2>1, <2>2, <2>3 DEF Keys
<1>9. Room(u)
  BY <1>0, <1>1, <1>3 DEF Room
<1>10. Ahead(u)
  BY <1>2, <1>3, <1>5 DEF Ahead
<1> QED BY <1>3, <1>6, <1>7, <1>8, <1>9, <1>10 DEF Sound

(* A store into a place that is there changes no key and no link.              *)
LEMMA StoreShape ==
  ASSUME NEW n \in Nat \ {0}, NEW t \in Table(n), Sound(t), NEW k \in Key, NEW v \in Vals, Present(t, k)
  PROVE  /\ SameShape(t, Store(t, k, v))
         /\ Ahead(t) => Ahead(Store(t, k, v))
         /\ Taken(Store(t, k, v)) = Taken(t)
<1>0. PICK u : u = Store(t, k, v)
  OBVIOUS
<1>1. u \in Table(n) /\ Sound(u) /\ Taken(u) = Taken(t) /\ Len(u.array) = Len(t.array)
  <2>1. CASE InArray(t, k)
    <3>1. /\ u \in Table(n) /\ Sound(u) /\ Occupies(t, u, k, v) /\ u.node = t.node
      BY <1>0, <2>1, StoreArray
    <3> QED BY <3>1 DEF Occupies, Taken
  <2>2. CASE ~InArray(t, k)
    BY <1>0, <2>2, StoreNode
  <2> QED BY <2>1, <2>2
<1>2. DOMAIN u.node = 0 .. n - 1 /\ DOMAIN t.node = 0 .. n - 1
  BY <1>1, TableParts
<1>3. \A i \in 0 .. n - 1 : /\ u.node[i].key = t.node[i].key /\ u.node[i].next = t.node[i].next
                            /\ u.node[i].dead = t.node[i].dead
  <2>1. CASE InArray(t, k)
    <3>1. u.node = t.node
      BY <1>0, <2>1, StoreArray
    <3> QED BY <3>1
  <2>2. CASE ~InArray(t, k)
    <3>1. PICK p : p = NodeOf(t, k)
      OBVIOUS
    <3>2. u = [t EXCEPT !.node[p].val = v]
      BY <1>0, <2>2, <3>1 DEF Store
    <3>3. p \in 0 .. n - 1
      BY <2>2, <3>1, PresentIs, TakenIs
    <3>4. PICK e : e = [t.node[p] EXCEPT !.val = v]
      OBVIOUS
    <3>5. e.key = t.node[p].key /\ e.next = t.node[p].next /\ e.dead = t.node[p].dead
      <4>1. t.node[p] \in Node(n)
        BY <3>3, TableParts
      <4> QED BY <3>4, <4>1 DEF Node
    <3>6. u.node = [t.node EXCEPT ![p] = e]
      BY <3>2, <3>4 DEF Table
    <3>7. t.node \in [0 .. n - 1 -> Node(n)]
      BY TableParts
    <3>8. \A i \in 0 .. n - 1 : u.node[i] = IF i = p THEN e ELSE t.node[i]
      BY <3>6, <3>7
    <3> QED BY <3>5, <3>8
  <2> QED BY <2>1, <2>2
<1>4. SameShape(t, u)
  BY <1>1, <1>2, <1>3 DEF SameShape
<1>5. ASSUME Ahead(t) PROVE Ahead(u)
  <2>1. \A S \in SUBSET (0 .. n - 1) : Closed(u, S) <=> Closed(t, S)
    BY <1>3 DEF Closed
  <2>2. \A i, j : Leads(u, i, j) <=> Leads(t, i, j)
    BY <1>2, <2>1 DEF Leads
  <2>3. \A i \in Taken(t) : i \in 0 .. n - 1
    BY <1>2 DEF Taken
  <2> QED BY <1>1, <1>3, <1>5, <2>2, <2>3 DEF Ahead
<1> QED BY <1>0, <1>1, <1>4, <1>5

(* luaH_set keeps the keys that are not dead first.                            *)
LEMMA SetRoomyAhead ==
  ASSUME NEW n \in Nat \ {0}, NEW t \in Table(n), Sound(t), Ahead(t), NEW k \in Key, NEW v \in Vals,
         Present(t, k) \/ ~Full(t, k)
  PROVE  Ahead(SetRoomy(t, k, v))
<1>1. CASE Present(t, k)
  BY <1>1, StoreShape DEF SetRoomy
<1>2. CASE ~Present(t, k)
  <2>1. ~InArray(t, k) /\ \A i \in Taken(t) : t.node[i].key = k => t.node[i].dead
    BY <1>2, AbsentIs
  <2>2. ~t.dummy
    BY <1>2, DummyIsFull
  <2>3. Insertable(t, k, v)
    BY <2>1, <2>2 DEF Insertable
  <2>4. Ahead(NewKey(t, k, v))
    BY <1>2, <2>3, NewKeySound
  <2> QED BY <1>2, <2>4 DEF SetRoomy
<1> QED BY <1>1, <1>2

(* Where no key is dead, every key is in one place.                            *)
LEMMA NoneDeadAhead ==
  ASSUME NEW t, Sound(t), \A i \in Taken(t) : ~t.node[i].dead
  PROVE  Ahead(t)
<1>1. \A i, j \in Taken(t) : t.node[i].key = t.node[j].key => i = j
  BY DEF Sound, Keys
<1>2. \A i : Leads(t, i, i)
  BY DEF Leads
<1> QED BY <1>1, <1>2 DEF Ahead

-----------------------------------------------------------------------------
(* Rebuilds that count. *)

(* rehash counts right: no element is lost, and the key to come has its place  *)
(* in the array or a free one in the hash part.                                *)
LEMMA RehashSound ==
  ASSUME NEW n \in Nat \ {0}, NEW t \in Table(n), Sound(t), NEW k \in Key, ~Present(t, k)
  PROVE  LET r == Rehash(t, k)
         IN  /\ \E s \in Nat \ {0} : /\ r \in Table(s) /\ Sound(r) /\ Ahead(r)
                                     /\ \E l \in 0 .. s : s = TwoTo[l]
             /\ \A x \in Key : Get(r, x) = Get(t, x)
             /\ Present(r, k) \/ ~Full(r, k)
             /\ Len(r.array) = Max(Dense((Used(t) \cup {k}) \cap Ints) \cup {0})
<1> DEFINE U == Used(t)
           S == (U \cup {k}) \cap Ints
           m == ComputeSizes(S).size
           H == HashKeys(t, m)
           h == Cardinality(U) + 1 - ComputeSizes(S).inside
<1>1. U = {x \in Key : Get(t, x) # Nil} /\ IsFiniteSet(U)
  BY UsedIs
<1>2. k \notin U
  BY <1>1, AbsentIs
<1>3. S \in SUBSET (Nat \ {0}) /\ IsFiniteSet(S)
  <2>1. IsFiniteSet(U \cup {k})
    BY <1>1, FS_AddElement
  <2>2. S \in SUBSET (U \cup {k})
    OBVIOUS
  <2>3. IsFiniteSet(S)
    BY <2>1, <2>2, FS_Subset
  <2> QED BY <2>3, KeysAssumption
<1>4. /\ m = Max(Dense(S) \cup {0}) /\ m \in Nat
      /\ ComputeSizes(S).inside = Cardinality({x \in S : x <= m})
  BY <1>3, ComputeSizesIs
<1> DEFINE I == {x \in U : x \in 1 .. m}
<1>5. \A x \in Key : x \in 1 .. m <=> x \in Ints /\ x <= m
  <2>1. \A x \in Ints : x \in Nat /\ x # 0
    BY KeysAssumption
  <2>2. \A x \in 1 .. m : x \in Nat
    BY <1>4
  <2>3. \A x \in Key : x \in 1 .. m => x \in Ints
    BY <2>2, KeysAssumption DEF Key
  <2>4. \A x \in Ints : x <= m <=> x \in 1 .. m
    BY <2>1, <1>4
  <2> QED BY <2>3, <2>4
<1>6. H = U \ I
  BY <1>1 DEF HashKeys
<1>7. /\ IsFiniteSet(I) /\ IsFiniteSet(H)
      /\ Cardinality(H) \in Nat /\ Cardinality(I) \in Nat /\ Cardinality(U) \in Nat
      /\ Cardinality(U) = Cardinality(H) + Cardinality(I)
  <2>1. I \in SUBSET U
    OBVIOUS
  <2>2. IsFiniteSet(I)
    BY <1>1, <2>1, FS_Subset
  <2>3. IsFiniteSet(U \ I) /\ Cardinality(U \ I) = Cardinality(U) - Cardinality(U \cap I)
    BY <1>1, FS_Difference
  <2>4. U \cap I = I
    OBVIOUS
  <2>5. Cardinality(U \ I) \in Nat /\ Cardinality(I) \in Nat /\ Cardinality(U) \in Nat
    BY <1>1, <2>2, <2>3, FS_CardinalityType
  <2>6. Cardinality(U) = Cardinality(U \ I) + Cardinality(I)
    <3>1. Cardinality(U \ I) = Cardinality(U) - Cardinality(I)
      BY <2>3, <2>4
    <3> HIDE DEF U, I
    <3> QED BY <2>5, <3>1
  <2> HIDE DEF U, I, H
  <2> QED BY <1>6, <2>2, <2>3, <2>5, <2>6
<1>8. {x \in S : x <= m} = IF k \in 1 .. m THEN I \cup {k} ELSE I
  <2>1. \A x \in U : x \in Key
    BY <1>1
  <2>2. \A x : x \in {y \in S : y <= m} <=> x \in U \cup {k} /\ x \in 1 .. m
    BY <2>1, <1>5
  <2> QED BY <2>2
<1>9. ComputeSizes(S).inside = IF k \in 1 .. m THEN Cardinality(I) + 1 ELSE Cardinality(I)
  <2>1. k \notin I
    BY <1>2
  <2>2. Cardinality(I \cup {k}) = Cardinality(I) + 1
    <3> HIDE DEF I
    <3> QED BY <1>7, <2>1, FS_AddElement
  <2> HIDE DEF S, I
  <2> QED BY <1>4, <1>8, <2>2
<1>10. h = IF k \in 1 .. m THEN Cardinality(H) ELSE Cardinality(H) + 1
  <2> DEFINE ins == ComputeSizes(S).inside
  <2>1. ins = IF k \in 1 .. m THEN Cardinality(I) + 1 ELSE Cardinality(I)
    BY <1>9
  <2>2. h = Cardinality(U) + (1 - ins)
    OBVIOUS
  <2> HIDE DEF U, I, H, h, m, ins
  <2> QED BY <1>7, <2>1, <2>2
<1>11. h \in Nat /\ Cardinality(H) <= h /\ IsFiniteSet(HashKeys(t, m)) /\ Cardinality(HashKeys(t, m)) <= h
  <2>1. h \in Nat /\ Cardinality(H) <= h /\ IsFiniteSet(H)
    <3> HIDE DEF U, I, H, h, m
    <3> QED BY <1>7, <1>10
  <2> QED BY <2>1
<1>12. Rehash(t, k) = Resize(t, m, h)
  BY DEF Rehash
<1> HIDE DEF m, h, S, U, I
<1>13. PICK s \in Nat \ {0} :
           /\ Resize(t, m, h) \in Table(s)
           /\ Sound(Resize(t, m, h))
           /\ Len(Resize(t, m, h).array) = m
           /\ Resize(t, m, h).dummy = (h = 0)
           /\ s >= h
           /\ \E l \in 0 .. s : s = TwoTo[l]
           /\ \A x \in Key : Get(Resize(t, m, h), x) = Get(t, x)
           /\ \A i \in Taken(Resize(t, m, h)) : /\ Resize(t, m, h).node[i].key \in HashKeys(t, m)
                                                /\ ~Resize(t, m, h).node[i].dead
  <2>1. ASSUME NEW a \in Nat, NEW b \in Nat, IsFiniteSet(HashKeys(t, a)), Cardinality(HashKeys(t, a)) <= b
        PROVE  \E s \in Nat \ {0} :
           /\ Resize(t, a, b) \in Table(s) /\ Sound(Resize(t, a, b))
           /\ Len(Resize(t, a, b).array) = a /\ Resize(t, a, b).dummy = (b = 0)
           /\ s >= b /\ \E l \in 0 .. s : s = TwoTo[l]
           /\ \A x \in Key : Get(Resize(t, a, b), x) = Get(t, x)
           /\ \A i \in Taken(Resize(t, a, b)) : /\ Resize(t, a, b).node[i].key \in HashKeys(t, a)
                                                /\ ~Resize(t, a, b).node[i].dead
    BY <2>1, ResizeSound
  <2> QED BY <1>4, <1>11, <2>1
<1>14. Present(Rehash(t, k), k) \/ ~Full(Rehash(t, k), k)
  <2>1. CASE k \in 1 .. m
    BY <2>1, <1>12, <1>13 DEF Present, InArray
  <2>2. CASE k \notin 1 .. m
    <3>1. h = Cardinality(H) + 1 /\ Cardinality(H) \in Nat
      BY <2>2, <1>10, <1>7
    <3>2. ~Resize(t, m, h).dummy /\ Cardinality(H) < s
      <4> HIDE DEF H
      <4>1. h # 0 /\ Cardinality(H) < h
        BY <3>1
      <4>2. Resize(t, m, h).dummy = (h = 0) /\ s >= h
        BY <1>13
      <4>3. ~Resize(t, m, h).dummy
        BY <4>1, <4>2
      <4>4. s \in Nat /\ h \in Nat
        BY <1>11
      <4> QED BY <4>1, <4>2, <4>3, <4>4, <3>1
    <3>3. \A i \in Taken(Resize(t, m, h)) : Resize(t, m, h).node[i].key \in H /\ ~Resize(t, m, h).node[i].dead
      BY <1>13
    <3>4. Resize(t, m, h) \in Table(s) /\ Sound(Resize(t, m, h)) /\ IsFiniteSet(H)
      BY <1>13, <1>7
    <3> HIDE DEF H
    <3>5. ~Full(Resize(t, m, h), k)
      BY <3>2, <3>3, <3>4, RoomLeft
    <3> QED BY <3>5, <1>12
  <2> QED BY <2>1, <2>2
<1>16. Ahead(Resize(t, m, h))
  BY <1>13, NoneDeadAhead
<1>15. Len(Rehash(t, k).array) = Max(Dense((Used(t) \cup {k}) \cap Ints) \cup {0})
  BY <1>4, <1>12, <1>13 DEF S, U
<1> QED BY <1>12, <1>13, <1>14, <1>15, <1>16

(* luaH_set: the map is assigned to, whatever is rebuilt on the way.           *)
LEMMA SetTableSound ==
  ASSUME NEW n \in Nat \ {0}, NEW t \in Table(n), Sound(t), Ahead(t), \E l \in 0 .. n : n = TwoTo[l],
         NEW k \in Key, NEW v \in Vals
  PROVE  /\ \E s \in Nat \ {0} : /\ SetTable(t, k, v) \in Table(s)
                                 /\ Sound(SetTable(t, k, v)) /\ Ahead(SetTable(t, k, v))
                                 /\ \E l \in 0 .. s : s = TwoTo[l]
         /\ Assigned(t, SetTable(t, k, v), k, v)
<1>1. CASE Present(t, k) \/ ~Full(t, k)
  <2>1. SetTable(t, k, v) = SetRoomy(t, k, v)
    BY <1>1 DEF SetTable
  <2>2. Ahead(SetRoomy(t, k, v))
    BY <1>1, SetRoomyAhead
  <2>3. SetRoomy(t, k, v) \in Table(n) /\ Sound(SetRoomy(t, k, v)) /\ Assigned(t, SetRoomy(t, k, v), k, v)
    BY <1>1, SetRoomySound
  <2> QED BY <2>1, <2>2, <2>3
<1>2. CASE ~(Present(t, k) \/ ~Full(t, k))
  <2>1. SetTable(t, k, v) = SetRoomy(Rehash(t, k), k, v)
    BY <1>2 DEF SetTable
  <2> DEFINE r == Rehash(t, k)
  <2>2. /\ \E s \in Nat \ {0} : /\ r \in Table(s) /\ Sound(r) /\ Ahead(r)
                                /\ \E l \in 0 .. s : s = TwoTo[l]
        /\ \A x \in Key : Get(r, x) = Get(t, x)
        /\ Present(r, k) \/ ~Full(r, k)
    BY <1>2, RehashSound
  <2> HIDE DEF r
  <2>3. PICK s \in Nat \ {0} : /\ r \in Table(s)
                               /\ Sound(r)
                               /\ Ahead(r)
                               /\ \E l \in 0 .. s : s = TwoTo[l]
    BY <2>2
  <2>4. /\ SetRoomy(r, k, v) \in Table(s) /\ Sound(SetRoomy(r, k, v))
        /\ Assigned(r, SetRoomy(r, k, v), k, v)
    BY <2>2, <2>3, SetRoomySound
  <2>5. Assigned(t, SetRoomy(r, k, v), k, v)
    BY <2>2, <2>4 DEF Assigned
  <2>6. SetTable(t, k, v) = SetRoomy(r, k, v)
    BY <2>1 DEF r
  <2>7. Ahead(SetRoomy(r, k, v))
    BY <2>2, <2>3, SetRoomyAhead
  <2> QED BY <2>3, <2>4, <2>5, <2>6, <2>7
<1> QED BY <1>1, <1>2

(* luaH_new makes a table without a value.                                     *)
LEMMA NewSound ==
  ASSUME NEW na \in Nat, NEW nh \in Nat
  PROVE  /\ \E n \in Nat \ {0} : /\ New(na, nh) \in Table(n) /\ Sound(New(na, nh)) /\ Ahead(New(na, nh))
                                 /\ \E l \in 0 .. n : n = TwoTo[l]
         /\ \A x \in Key : Get(New(na, nh), x) = Nil
<1> DEFINE array == [i \in 1 .. na |-> Nil]
           z == [array |-> array, node |-> <<>>, dummy |-> TRUE, lastfree |-> 0]
<1>1. array \in Seq(Vals) /\ Len(array) = na /\ \A i \in 1 .. na : array[i] = Nil
  <2>1. array \in [1 .. na -> Vals]
    BY DEF Vals
  <2>2. array \in Seq(Vals) /\ Len(array) = na
    BY <2>1
  <2> QED BY <2>2
<1>2. z \in [array : Seq(Vals), node : {<<>>}, dummy : BOOLEAN, lastfree : Nat] /\ z.array = array
  <2> HIDE DEF array
  <2> QED BY <1>1
<1>3. \A i \in 1 .. Len(z.array) : z.array[i] # Nil => i \in Ints
  <2> HIDE DEF z
  <2> QED BY <1>1, <1>2
<1>4. New(na, nh) = SetNodeVector(z, nh)
  BY DEF New
<1> HIDE DEF z, array
<1>7. PICK zz : zz = z
  OBVIOUS
<1>8. \E n \in Nat \ {0} :
           /\ SetNodeVector(zz, nh) \in Table(n) /\ Sound(SetNodeVector(zz, nh))
           /\ Taken(SetNodeVector(zz, nh)) = {} /\ SetNodeVector(zz, nh).array = zz.array
           /\ SetNodeVector(zz, nh).dummy = (nh = 0)
           /\ n >= nh /\ \E l \in 0 .. n : n = TwoTo[l]
  <2>1. zz \in [array : Seq(Vals), node : {<<>>}, dummy : BOOLEAN, lastfree : Nat]
    BY <1>2, <1>7
  <2>2. \A i \in 1 .. Len(zz.array) : zz.array[i] # Nil => i \in Ints
    BY <1>3, <1>7
  <2> QED BY <2>1, <2>2, SetNodeVectorIs
<1>5. PICK n \in Nat \ {0} :
           /\ SetNodeVector(z, nh) \in Table(n)
           /\ Sound(SetNodeVector(z, nh))
           /\ Taken(SetNodeVector(z, nh)) = {}
           /\ SetNodeVector(z, nh).array = z.array
           /\ SetNodeVector(z, nh).dummy = (nh = 0)
           /\ n >= nh
           /\ \E l \in 0 .. n : n = TwoTo[l]
  BY <1>7, <1>8
<1>6. ASSUME NEW x \in Key PROVE Get(New(na, nh), x) = Nil
  <2>5. PICK u : u = SetNodeVector(z, nh)
    OBVIOUS
  <2>1. u \in Table(n) /\ Taken(u) = {} /\ u.array = array
    BY <1>5, <1>2, <2>5
  <2>2. ASSUME InArray(u, x) PROVE Get(u, x) = Nil
    BY <2>2, <2>1, <1>1 DEF InArray, Get
  <2>3. ASSUME ~InArray(u, x) PROVE Get(u, x) = Nil
    BY <2>3, <2>1, GetNone
  <2>4. Get(u, x) = Nil
    BY <2>2, <2>3
  <2> QED BY <2>4, <2>5, <1>4
<1>9. Ahead(SetNodeVector(z, nh))
  BY <1>5, NoneDeadAhead
<1> QED BY <1>4, <1>5, <1>6, <1>9

(* luaH_resizearray: the array grows, the hash part keeps its size.            *)
LEMMA GrowSound ==
  ASSUME NEW n \in Nat \ {0}, NEW t \in Table(n), Sound(t), NEW m \in Nat, m > Len(t.array)
  PROVE  LET r == Resize(t, m, IF t.dummy THEN 0 ELSE Size(t))
         IN  /\ \E s \in Nat \ {0} : /\ r \in Table(s) /\ Sound(r) /\ Ahead(r)
                                     /\ \E l \in 0 .. s : s = TwoTo[l]
             /\ \A x \in Key : Get(r, x) = Get(t, x)
<1>1. PICK h : h = IF t.dummy THEN 0 ELSE Size(t)
  OBVIOUS
<1>2. Size(t) = n /\ Len(t.array) \in Nat
  BY TableParts
<1>3. m >= Len(t.array)
  BY <1>2
<1>4. /\ IsFiniteSet(HashKeys(t, m)) /\ Cardinality(HashKeys(t, m)) <= n
      /\ t.dummy => HashKeys(t, m) = {}
  BY <1>3, HashFits
<1>5. h \in Nat /\ Cardinality(HashKeys(t, m)) <= h
  <2>1. CASE t.dummy
    <3>1. Cardinality(HashKeys(t, m)) = 0 /\ h = 0
      BY <2>1, <1>1, <1>4, FS_EmptySet
    <3> QED BY <3>1
  <2>2. CASE ~t.dummy
    BY <2>2, <1>1, <1>2, <1>4
  <2> QED BY <2>1, <2>2
<1>6. PICK s \in Nat \ {0} :
           /\ Resize(t, m, h) \in Table(s)
           /\ Sound(Resize(t, m, h))
           /\ Len(Resize(t, m, h).array) = m
           /\ Resize(t, m, h).dummy = (h = 0)
           /\ s >= h
           /\ \E l \in 0 .. s : s = TwoTo[l]
           /\ \A x \in Key : Get(Resize(t, m, h), x) = Get(t, x)
           /\ \A i \in Taken(Resize(t, m, h)) : /\ Resize(t, m, h).node[i].key \in HashKeys(t, m)
                                                /\ ~Resize(t, m, h).node[i].dead
  BY <1>4, <1>5, ResizeSound
<1>7. Ahead(Resize(t, m, h))
  BY <1>6, NoneDeadAhead
<1> QED BY <1>1, <1>6, <1>7

(* The collector marks keys without a value dead.                              *)
LEMMA KillSound ==
  ASSUME NEW n \in Nat \ {0}, NEW t \in Table(n), Sound(t), Ahead(t), NEW u,
         u = [t EXCEPT !.node = [i \in DOMAIN @ |->
                LET e == @[i] IN [e EXCEPT !.dead = e.dead \/ (e.val = Nil /\ e.key \in Collected)]]]
  PROVE  /\ u \in Table(n) /\ Sound(u) /\ Ahead(u)
         /\ SameShape(t, u) /\ Taken(u) = Taken(t)
         /\ \A x \in Key : Get(u, x) = Get(t, x)
<1>1. /\ DOMAIN t.node = 0 .. n - 1 /\ t.node \in [0 .. n - 1 -> Node(n)]
      /\ \A i \in 0 .. n - 1 : t.node[i] \in Node(n) /\ t.node[i].dead \in BOOLEAN
  BY TableParts
<1> DEFINE mark(i) == t.node[i].dead \/ (t.node[i].val = Nil /\ t.node[i].key \in Collected)
           nodes == [i \in 0 .. n - 1 |-> [t.node[i] EXCEPT !.dead = mark(i)]]
<1>2. u = [t EXCEPT !.node = nodes]
  BY <1>1
<1>3. ASSUME NEW i \in 0 .. n - 1
      PROVE  /\ nodes[i] \in Node(n) /\ nodes[i].key = t.node[i].key /\ nodes[i].val = t.node[i].val
             /\ nodes[i].next = t.node[i].next /\ nodes[i].dead = mark(i)
  <2>1. PICK b \in BOOLEAN : b = mark(i)
    <3>1. mark(i) \in BOOLEAN
      BY Zenon
    <3> QED BY <3>1, Zenon
  <2>2. nodes[i] = [t.node[i] EXCEPT !.dead = b]
    BY <2>1
  <2>3. t.node[i] \in Node(n)
    BY <1>1
  <2> HIDE DEF nodes, mark
  <2>4. /\ nodes[i] \in Node(n) /\ nodes[i].key = t.node[i].key /\ nodes[i].val = t.node[i].val
        /\ nodes[i].next = t.node[i].next /\ nodes[i].dead = b
    BY <2>2, <2>3 DEF Node
  <2> QED BY <2>1, <2>4
<1>4. nodes \in [0 .. n - 1 -> Node(n)]
  <2>1. \A i \in 0 .. n - 1 : nodes[i] \in Node(n)
    BY <1>3
  <2>2. nodes = [i \in 0 .. n - 1 |-> nodes[i]]
    OBVIOUS
  <2> HIDE DEF nodes
  <2> QED BY <2>1, <2>2
<1>5. /\ u \in Table(n) /\ u.node = nodes /\ u.array = t.array /\ u.dummy = t.dummy /\ u.lastfree = t.lastfree
  <2> HIDE DEF nodes
  <2> QED BY <1>2, <1>4 DEF Table
<1>6. \A i \in 0 .. n - 1 : /\ u.node[i].key = t.node[i].key /\ u.node[i].next = t.node[i].next
                            /\ u.node[i].val = t.node[i].val /\ u.node[i].dead = mark(i)
  <2> HIDE DEF nodes, mark
  <2> QED BY <1>3, <1>5
<1>7. SameShape(t, u)
  BY <1>1, <1>5, <1>6 DEF SameShape
<1>8. \A i \in 0 .. n - 1 : i \notin Taken(t) => u.node[i] = t.node[i]
  <2> SUFFICES ASSUME NEW i \in 0 .. n - 1, i \notin Taken(t) PROVE u.node[i] = t.node[i]
    OBVIOUS
  <2>1. t.node[i].key = Nil /\ t.node[i] \in Node(n)
    BY <1>1 DEF Taken
  <2>2. Nil \notin Collected
    BY KeysAssumption DEF Key
  <2>3. mark(i) <=> t.node[i].dead
    BY <2>1, <2>2
  <2>4. u.node[i] \in Node(n)
    BY <1>3, <1>5
  <2>5. u.node[i].dead = t.node[i].dead
    BY <1>6, <2>3, <1>1
  <2>6. PICK e : e = t.node[i]
    OBVIOUS
  <2>7. mark(i) = e.dead
    BY <1>6, <2>5, <2>6
  <2>8. nodes[i] = [e EXCEPT !.dead = e.dead]
    BY <2>6, <2>7
  <2>9. [e EXCEPT !.dead = e.dead] = e
    BY <2>1, <2>6 DEF Node
  <2> HIDE DEF nodes, mark
  <2> QED BY <1>5, <2>6, <2>8, <2>9
<1>9. \A i \in 0 .. n - 1 : ~u.node[i].dead => ~t.node[i].dead
  BY <1>6
<1>10. \A i \in 0 .. n - 1 : u.node[i].dead => u.node[i].val = Nil
  <2>1. \A i \in 0 .. n - 1 : t.node[i].dead => t.node[i].val = Nil
    <3> TAKE i \in 0 .. n - 1
    <3>1. CASE i \in Taken(t)
      BY <3>1 DEF Sound, Keys
    <3>2. CASE i \notin Taken(t)
      BY <1>1, <3>2 DEF Sound, Links, Empty
    <3> QED BY <3>1, <3>2
  <2> QED BY <1>6, <2>1
<1>11. Sound(u) /\ Ahead(u) /\ Taken(u) = Taken(t)
  BY <1>5, <1>7, <1>8, <1>9, <1>10, MarkedSound
<1>12. ASSUME NEW x \in Key PROVE Get(u, x) = Get(t, x)
  <2>1. ASSUME NEW i \in Taken(t), t.node[i].val # Nil PROVE SameEntry(u.node[i], t.node[i])
    <3>1. i \in 0 .. n - 1 /\ t.node[i].dead \in BOOLEAN
      BY <1>1 DEF Taken
    <3>2. mark(i) <=> t.node[i].dead
      BY <2>1
    <3>3. u.node[i].dead \in BOOLEAN /\ (u.node[i].dead <=> mark(i))
      <4> HIDE DEF nodes, mark
      <4>1. u.node[i].dead = mark(i)
        BY <1>6, <3>1
      <4>2. u.node[i].dead \in BOOLEAN
        BY <1>5, <3>1, TableParts
      <4> QED BY <4>1, <4>2
    <3>4. u.node[i].dead <=> t.node[i].dead
      BY <3>2, <3>3
    <3>5. u.node[i].dead = t.node[i].dead
      BY <3>1, <3>3, <3>4
    <3> QED BY <1>6, <3>1, <3>5 DEF SameEntry
  <2>2. \A i \in Taken(u) : u.node[i].val # Nil => i \in Taken(t) /\ t.node[i].val # Nil
    <3>1. \A i \in Taken(t) : i \in 0 .. n - 1
      BY <1>1 DEF Taken
    <3> QED BY <1>6, <1>11, <3>1
  <2>3. \A i \in Taken(t) : t.node[i].key = x /\ t.node[i].val # Nil => \E j \in Taken(u) : SameEntry(u.node[j], t.node[i])
    BY <1>11, <2>1
  <2>4. \A j \in Taken(u) : u.node[j].key = x /\ u.node[j].val # Nil => \E i \in Taken(t) : SameEntry(u.node[j], t.node[i])
    BY <2>1, <2>2
  <2> QED BY <1>5, <1>11, <2>3, <2>4, SameGet
<1> QED BY <1>5, <1>7, <1>11, <1>12

(* The collector clears an entry of a weak table.                              *)
LEMMA ClearSound ==
  ASSUME NEW n \in Nat \ {0}, NEW t \in Table(n), Sound(t), Ahead(t), NEW k \in Key,
         ~InArray(t, k), NodeOf(t, k) # None, NEW u,
         u = [t EXCEPT !.node[NodeOf(t, k)] = [@ EXCEPT !.val = Nil, !.dead = k \in Collected]]
  PROVE  /\ u \in Table(n) /\ Sound(u) /\ Ahead(u)
         /\ SameShape(t, u) /\ Taken(u) = Taken(t)
         /\ Assigned(t, u, k, Nil)
<1>1. /\ DOMAIN t.node = 0 .. n - 1 /\ t.node \in [0 .. n - 1 -> Node(n)]
      /\ \A i \in 0 .. n - 1 : t.node[i] \in Node(n) /\ t.node[i].dead \in BOOLEAN
  BY TableParts
<1>2. PICK p : p = NodeOf(t, k)
  OBVIOUS
<1>3. p \in Taken(t) /\ t.node[p].key = k /\ ~t.node[p].dead /\ p \in 0 .. n - 1
  BY <1>1, <1>2, NodeOfIs DEF Taken
<1>4. PICK b \in BOOLEAN : b = (k \in Collected)
  <2>1. (k \in Collected) \in BOOLEAN
    OBVIOUS
  <2> QED BY <2>1, Zenon
<1>5. PICK e : e = [t.node[p] EXCEPT !.val = Nil, !.dead = b]
  OBVIOUS
<1>6. /\ e \in Node(n) /\ e.key = k /\ e.next = t.node[p].next /\ e.val = Nil /\ e.dead = b
  <2>1. t.node[p] \in Node(n)
    BY <1>1, <1>3
  <2> QED BY <1>3, <1>4, <1>5, <2>1 DEF Node, Vals
<1>7. u = [t EXCEPT !.node = [t.node EXCEPT ![p] = e]]
  BY <1>2, <1>4, <1>5
<1>8. /\ u \in Table(n) /\ u.array = t.array /\ u.dummy = t.dummy /\ u.lastfree = t.lastfree
      /\ u.node[p] = e
      /\ \A i \in 0 .. n - 1 : i # p => u.node[i] = t.node[i]
  <2>1. PICK nodes : nodes = [t.node EXCEPT ![p] = e]
    OBVIOUS
  <2>2. nodes \in [0 .. n - 1 -> Node(n)] /\ nodes[p] = e
        /\ \A i \in 0 .. n - 1 : i # p => nodes[i] = t.node[i]
    BY <1>1, <1>3, <1>6, <2>1
  <2>3. u = [t EXCEPT !.node = nodes]
    BY <1>7, <2>1
  <2> HIDE <2>1
  <2>4. u \in Table(n) /\ u.array = t.array /\ u.dummy = t.dummy /\ u.lastfree = t.lastfree /\ u.node = nodes
    BY <2>2, <2>3 DEF Table
  <2> QED BY <2>2, <2>4
<1>9. SameShape(t, u)
  BY <1>1, <1>3, <1>6, <1>8 DEF SameShape
<1>10. \A i \in 0 .. n - 1 : i \notin Taken(t) => u.node[i] = t.node[i]
  BY <1>3, <1>8
<1>11. \A i \in 0 .. n - 1 : ~u.node[i].dead => ~t.node[i].dead
  BY <1>3, <1>8
<1>12. \A i \in 0 .. n - 1 : u.node[i].dead => u.node[i].val = Nil
  <2> TAKE i \in 0 .. n - 1
  <2>1. CASE i = p
    BY <1>6, <1>8, <2>1
  <2>2. CASE i # p /\ i \in Taken(t)
    BY <1>8, <2>2 DEF Sound, Keys
  <2>3. CASE i # p /\ i \notin Taken(t)
    BY <1>1, <1>8, <2>3 DEF Sound, Links, Empty
  <2> QED BY <2>1, <2>2, <2>3
<1>13. Sound(u) /\ Ahead(u) /\ Taken(u) = Taken(t)
  BY <1>8, <1>9, <1>10, <1>11, <1>12, MarkedSound
<1>14. Get(u, k) = Nil
  <2>1. ~InArray(u, k)
    BY <1>8 DEF InArray
  <2>2. CASE NodeOf(u, k) = None
    BY <2>1, <2>2 DEF Get
  <2>3. CASE NodeOf(u, k) # None
    <3>1. PICK j : j = NodeOf(u, k)
      OBVIOUS
    <3>2. j \in Taken(t) /\ u.node[j].key = k /\ ~u.node[j].dead /\ j \in 0 .. n - 1
      <4>1. j \in Taken(u) /\ u.node[j].key = k /\ ~u.node[j].dead
        <5>1. u \in Table(n) /\ NodeOf(u, k) # None
          BY <1>8, <2>3
        <5>2. NodeOf(u, k) \in Taken(u) /\ u.node[NodeOf(u, k)].key = k /\ ~u.node[NodeOf(u, k)].dead
          BY <5>1, NodeOfIs
        <5> QED BY <3>1, <5>2
      <4> QED BY <1>1, <1>13, <4>1 DEF Taken
    <3>3. j = p
      <4> SUFFICES ASSUME j # p PROVE FALSE
        OBVIOUS
      <4>1. t.node[j].key = k /\ ~t.node[j].dead
        BY <1>8, <3>2
      <4> QED BY <1>3, <3>2, <4>1 DEF Sound, Keys
    <3> QED BY <1>6, <1>8, <2>1, <2>3, <3>1, <3>3 DEF Get
  <2> QED BY <2>2, <2>3
<1>15. ASSUME NEW x \in Key \ {k} PROVE Get(u, x) = Get(t, x)
  <2>1. \A i \in Taken(t) : t.node[i].key = x /\ t.node[i].val # Nil => \E j \in Taken(u) : SameEntry(u.node[j], t.node[i])
    <3> SUFFICES ASSUME NEW i \in Taken(t), t.node[i].key = x PROVE SameEntry(u.node[i], t.node[i])
      BY <1>13
    <3>1. i # p /\ i \in 0 .. n - 1
      BY <1>1, <1>3 DEF Taken
    <3> QED BY <1>8, <3>1 DEF SameEntry
  <2>2. \A j \in Taken(u) : u.node[j].key = x /\ u.node[j].val # Nil => \E i \in Taken(t) : SameEntry(u.node[j], t.node[i])
    <3> SUFFICES ASSUME NEW j \in Taken(t), u.node[j].key = x PROVE SameEntry(u.node[j], t.node[j])
      BY <1>13
    <3>1. j # p /\ j \in 0 .. n - 1
      BY <1>1, <1>6, <1>8 DEF Taken
    <3> QED BY <1>8, <3>1 DEF SameEntry
  <2> QED BY <1>8, <1>13, <2>1, <2>2, SameGet
<1> QED BY <1>8, <1>9, <1>13, <1>14, <1>15 DEF Assigned

-----------------------------------------------------------------------------
(* The invariant of the specification. *)

(* Where a walk stands: at the beginning, in the array, or at a key that is in *)
(* a place, be it without a value or dead.                                     *)
Stands(t, k) == k = Nil \/ InArray(t, k) \/ \E i \in Taken(t) : t.node[i].key = k

(* A walk at key k: what was handed out is behind it, and what is due has a    *)
(* value and is ahead.                                                         *)
Walked(t, k, S, D) ==
  /\ Stands(t, k)
  /\ \A x \in S : Get(t, x) # Nil => FindIndex(t, x) <= FindIndex(t, k)
  /\ \A x \in D : Get(t, x) # Nil /\ FindIndex(t, x) > FindIndex(t, k)

Sized(t) == \E n \in Nat \ {0} : /\ t \in Table(n) /\ Sound(t) /\ Ahead(t)
                                 /\ \E l \in 0 .. n : n = TwoTo[l]

(* The table is sound, whatever its size, and a walk is where it should be.    *)
IInv ==
  /\ Sized(tab)
  /\ walking \in BOOLEAN /\ at \in Key \cup {Nil} /\ seen \subseteq Key /\ due \subseteq Key
  /\ walking => Walked(tab, at, seen, due)

(* A walk can go on from where it stands.                                      *)
LEMMA StandsIndex ==
  ASSUME NEW n \in Nat \ {0}, NEW t \in Table(n), Sound(t), NEW k, Stands(t, k)
  PROVE  FindIndex(t, k) \in Nat
<1>1. Len(t.array) \in Nat
  BY TableParts
<1>2. CASE k = Nil
  BY <1>2 DEF FindIndex
<1>3. CASE k # Nil /\ InArray(t, k)
  BY <1>1, <1>3 DEF FindIndex, InArray
<1>4. CASE \E i \in Taken(t) : t.node[i].key = k
  <2>1. PICK i \in Taken(t) : t.node[i].key = k
    BY <1>4
  <2>2. PICK j \in Taken(t) : FindIndex(t, k) = Len(t.array) + j + 1
    BY <2>1, FindIndexIs
  <2>3. j \in 0 .. n - 1
    BY TakenIs
  <2> QED BY <1>1, <2>2, <2>3
<1> QED BY <1>2, <1>3, <1>4 DEF Stands

(* What changes no key and no link leaves a walk where it is.                  *)
LEMMA WalkStays ==
  ASSUME NEW n \in Nat \ {0}, NEW t \in Table(n), NEW u \in Table(n), SameShape(t, u), Taken(u) = Taken(t),
         NEW k \in Key \cup {Nil}, NEW S \in SUBSET Key, NEW D \in SUBSET Key, NEW E \in SUBSET D,
         Walked(t, k, S, D),
         \A x \in S : Get(u, x) # Nil => Get(t, x) # Nil,
         \A x \in E : Get(u, x) # Nil
  PROVE  Walked(u, k, S, E)
<1>1. \A x \in Key \cup {Nil} : FindIndex(u, x) = FindIndex(t, x)
  BY SameFindIndex
<1>2. Stands(u, k)
  <2>1. \A i \in Taken(t) : u.node[i].key = t.node[i].key
    BY DEF SameShape, Taken
  <2>2. InArray(t, k) => InArray(u, k)
    BY DEF InArray, SameShape
  <2> QED BY <2>1, <2>2 DEF Stands, Walked
<1>3. \A x \in S : x \in Key
  OBVIOUS
<1>4. \A x \in E : x \in Key /\ x \in D
  OBVIOUS
<1> QED BY <1>1, <1>2, <1>3, <1>4 DEF Walked

(* In a walk an assignment is a store into a place that is there.              *)
LEMMA AssignInWalk ==
  ASSUME NEW n \in Nat \ {0}, NEW t \in Table(n), Sound(t), Ahead(t), NEW k \in Key, NEW v \in Vals,
         Get(t, k) # Nil
  PROVE  /\ SetTable(t, k, v) \in Table(n) /\ Taken(SetTable(t, k, v)) = Taken(t)
         /\ SameShape(t, SetTable(t, k, v))
<1>1. Present(t, k)
  BY DEF Get, Present
<1>2. SetTable(t, k, v) = Store(t, k, v)
  BY <1>1 DEF SetTable, SetRoomy
<1>3. Store(t, k, v) \in Table(n)
  BY <1>1, StoreArray, StoreNode
<1> QED BY <1>1, <1>2, <1>3, StoreShape

(* The tables luaH_new makes.                                                  *)
LEMMA InitInv ==
  Init => IInv
<1> SUFFICES ASSUME Init PROVE IInv
  OBVIOUS
<1>1. PICK na \in 0 .. MaxArray, nh \in 0 .. 2 : tab = New(na, nh)
  BY DEF Init
<1>2. na \in Nat /\ nh \in Nat
  BY KeysAssumption
<1>3. \E n \in Nat \ {0} : /\ New(na, nh) \in Table(n) /\ Sound(New(na, nh)) /\ Ahead(New(na, nh))
                           /\ \E l \in 0 .. n : n = TwoTo[l]
  BY <1>2, NewSound
<1>4. Sized(tab)
  BY <1>1, <1>3 DEF Sized
<1> QED BY <1>4 DEF Init, IInv

(* No step breaks the chains, or a walk.                                       *)
LEMMA NextInv ==
  IInv /\ [Next]_vars => IInv'
<1> SUFFICES ASSUME IInv, [Next]_vars PROVE IInv'
  OBVIOUS
<1>0. /\ walking \in BOOLEAN /\ at \in Key \cup {Nil} /\ seen \subseteq Key /\ due \subseteq Key
      /\ walking => Walked(tab, at, seen, due)
  BY DEF IInv
<1>1. PICK n \in Nat \ {0} : /\ tab \in Table(n)
                             /\ Sound(tab)
                             /\ Ahead(tab)
                             /\ \E l \in 0 .. n : n = TwoTo[l]
  BY DEF IInv, Sized
<1>2. ASSUME NEW k \in Key, NEW v \in Value \cup {Nil}, Assign(k, v) PROVE IInv'
  <2>1. /\ walking => Get(tab, k) # Nil
        /\ tab' = SetTable(tab, k, v)
        /\ due' = IF v = Nil THEN due \ {k} ELSE due
        /\ walking' = walking /\ at' = at /\ seen' = seen
    BY <1>2 DEF Assign
  <2>2. v \in Vals
    BY DEF Vals
  <2>3. /\ \E s \in Nat \ {0} : /\ SetTable(tab, k, v) \in Table(s)
                                /\ Sound(SetTable(tab, k, v)) /\ Ahead(SetTable(tab, k, v))
                                /\ \E l \in 0 .. s : s = TwoTo[l]
        /\ Assigned(tab, SetTable(tab, k, v), k, v)
    BY <1>1, <2>2, SetTableSound
  <2>4. Sized(tab')
    BY <2>1, <2>3 DEF Sized
  <2>5. ASSUME walking PROVE Walked(tab', at, seen, due')
    <3>1. tab' \in Table(n) /\ Taken(tab') = Taken(tab) /\ SameShape(tab, tab')
      BY <1>1, <2>1, <2>2, <2>5, AssignInWalk
    <3>2. \A x \in seen : Get(tab', x) # Nil => Get(tab, x) # Nil
      BY <1>0, <2>1, <2>3, <2>5 DEF Assigned
    <3>3. \A x \in due' : Get(tab', x) # Nil
      BY <1>0, <2>1, <2>3, <2>5 DEF Assigned, Walked
    <3>4. due' \in SUBSET due
      BY <2>1
    <3> QED BY <1>0, <1>1, <2>5, <3>1, <3>2, <3>3, <3>4, WalkStays
  <2>6. due' \subseteq Key
    BY <1>0, <2>1
  <2> QED BY <1>0, <2>1, <2>4, <2>5, <2>6 DEF IInv
<1>3. ASSUME NEW m \in 1 .. MaxArray, ResizeArray(m) PROVE IInv'
  <2>1. /\ ~walking /\ m > Len(tab.array)
        /\ tab' = Resize(tab, m, IF tab.dummy THEN 0 ELSE Size(tab))
        /\ walking' = walking /\ at' = at /\ seen' = seen /\ due' = due
    BY <1>3 DEF ResizeArray
  <2>2. m \in Nat
    BY KeysAssumption
  <2>3. \E s \in Nat \ {0} : /\ tab' \in Table(s) /\ Sound(tab') /\ Ahead(tab')
                             /\ \E l \in 0 .. s : s = TwoTo[l]
    BY <1>1, <2>1, <2>2, GrowSound
  <2>4. Sized(tab')
    BY <2>3 DEF Sized
  <2> QED BY <1>0, <2>1, <2>4 DEF IInv
<1>4. ASSUME NEW k \in Key, ClearEntry(k) PROVE IInv'
  <2>1. /\ ~InArray(tab, k) /\ NodeOf(tab, k) # None
        /\ tab' = [tab EXCEPT !.node[NodeOf(tab, k)] = [@ EXCEPT !.val = Nil, !.dead = k \in Collected]]
        /\ due' = due \ {k}
        /\ walking' = walking /\ at' = at /\ seen' = seen
    BY <1>4 DEF ClearEntry
  <2>2. /\ tab' \in Table(n) /\ Sound(tab') /\ Ahead(tab')
        /\ SameShape(tab, tab') /\ Taken(tab') = Taken(tab)
        /\ Assigned(tab, tab', k, Nil)
    BY <1>1, <2>1, ClearSound
  <2>3. Sized(tab')
    BY <1>1, <2>2 DEF Sized
  <2>4. ASSUME walking PROVE Walked(tab', at, seen, due')
    <3>1. \A x \in seen : Get(tab', x) # Nil => Get(tab, x) # Nil
      BY <1>0, <2>2 DEF Assigned
    <3>2. \A x \in due' : Get(tab', x) # Nil
      BY <1>0, <2>1, <2>2, <2>4 DEF Assigned, Walked
    <3>3. due' \in SUBSET due
      BY <2>1
    <3> QED BY <1>0, <1>1, <2>2, <2>4, <3>1, <3>2, <3>3, WalkStays
  <2>5. due' \subseteq Key
    BY <1>0, <2>1
  <2> QED BY <1>0, <2>1, <2>3, <2>4, <2>5 DEF IInv
<1>5. ASSUME KillKeys PROVE IInv'
  <2>1. /\ tab' = [tab EXCEPT !.node = [i \in DOMAIN @ |->
              LET e == @[i] IN [e EXCEPT !.dead = e.dead \/ (e.val = Nil /\ e.key \in Collected)]]]
        /\ walking' = walking /\ at' = at /\ seen' = seen /\ due' = due
    BY <1>5 DEF KillKeys
  <2>2. /\ tab' \in Table(n) /\ Sound(tab') /\ Ahead(tab')
        /\ SameShape(tab, tab') /\ Taken(tab') = Taken(tab)
        /\ \A x \in Key : Get(tab', x) = Get(tab, x)
    BY <1>1, <2>1, KillSound
  <2>3. Sized(tab')
    BY <1>1, <2>2 DEF Sized
  <2>4. ASSUME walking PROVE Walked(tab', at, seen, due')
    <3>1. \A x \in seen : Get(tab', x) # Nil => Get(tab, x) # Nil
      BY <1>0, <2>2
    <3>2. \A x \in due' : Get(tab', x) # Nil
      BY <1>0, <2>1, <2>2, <2>4 DEF Walked
    <3>3. due' \in SUBSET due
      BY <2>1
    <3> QED BY <1>0, <1>1, <2>2, <2>4, <3>1, <3>2, <3>3, WalkStays
  <2> QED BY <1>0, <2>1, <2>3, <2>4 DEF IInv
<1>6. ASSUME Begin PROVE IInv'
  <2>1. /\ walking' = TRUE /\ at' = Nil /\ seen' = {}
        /\ due' = {k \in Key : Get(tab, k) # Nil} /\ tab' = tab
    BY <1>6 DEF Begin
  <2>2. FindIndex(tab, Nil) = 0
    BY DEF FindIndex
  <2>3. \A x \in Key : Get(tab, x) # Nil => FindIndex(tab, x) > 0
    <3> TAKE x \in Key
    <3>1. Len(tab.array) \in Nat
      BY <1>1, TableParts
    <3>2. Get(tab, x) # Nil => FindIndex(tab, x) \in 1 .. Len(tab.array) + n
      BY <1>1, IndexOf
    <3> QED BY <3>1, <3>2
  <2>4. Walked(tab', at', seen', due')
    BY <2>1, <2>2, <2>3 DEF Walked, Stands
  <2>5. Sized(tab')
    BY <2>1 DEF IInv
  <2> QED BY <2>1, <2>4, <2>5 DEF IInv
<1>7. ASSUME Step PROVE IInv'
  <2>1. walking /\ tab' = tab
    BY <1>7 DEF Step
  <2>2. Walked(tab, at, seen, due)
    BY <1>0, <2>1
  <2>3. FindIndex(tab, at) \in Nat
    BY <1>1, <2>2, StandsIndex DEF Walked
  <2>4. Sized(tab')
    BY <2>1 DEF IInv
  <2>5. PICK k : k = NextKey(tab, at)
    OBVIOUS
  <2>6. CASE k = None
    <3>1. walking' = FALSE /\ at' = Nil /\ seen' = {} /\ due' = due
      BY <1>7, <2>5, <2>6 DEF Step
    <3> QED BY <1>0, <2>4, <3>1 DEF IInv
  <2>7. CASE k # None
    <3>1. at' = k /\ seen' = seen \cup {k} /\ due' = due \ {k} /\ walking' = walking
      BY <1>7, <2>5, <2>7 DEF Step
    <3>2. /\ k \in Key /\ Get(tab, k) # Nil /\ FindIndex(tab, k) \in Nat
          /\ FindIndex(tab, k) > FindIndex(tab, at)
          /\ \A x \in Key : Get(tab, x) # Nil /\ FindIndex(tab, x) > FindIndex(tab, at) /\ x # k
                => FindIndex(tab, x) > FindIndex(tab, k)
      BY <1>1, <2>3, <2>5, <2>7, NextKeyIs
    <3>3. Stands(tab, k)
      <4>1. CASE InArray(tab, k)
        BY <4>1 DEF Stands
      <4>2. CASE ~InArray(tab, k)
        <5>1. Present(tab, k)
          BY <3>2, <4>2 DEF Get, Present
        <5>2. NodeOf(tab, k) \in Taken(tab) /\ tab.node[NodeOf(tab, k)].key = k
          BY <1>1, <3>2, <4>2, <5>1, PresentIs
        <5> QED BY <5>2 DEF Stands
      <4> QED BY <4>1, <4>2
    <3>4. \A x \in seen \cup {k} : Get(tab, x) # Nil => FindIndex(tab, x) <= FindIndex(tab, k)
      <4> SUFFICES ASSUME NEW x \in seen \cup {k}, Get(tab, x) # Nil
                   PROVE  FindIndex(tab, x) <= FindIndex(tab, k)
        OBVIOUS
      <4>1. CASE x = k
        BY <3>2, <4>1
      <4>2. CASE x \in seen
        <5>1. FindIndex(tab, x) <= FindIndex(tab, at)
          BY <2>2, <4>2 DEF Walked
        <5>2. Len(tab.array) \in Nat
          BY <1>1, TableParts
        <5>3. FindIndex(tab, x) \in 1 .. Len(tab.array) + n
          BY <1>0, <1>1, <4>2, IndexOf
        <5> QED BY <2>3, <3>2, <5>1, <5>2, <5>3
      <4> QED BY <4>1, <4>2
    <3>5. \A x \in due \ {k} : Get(tab, x) # Nil /\ FindIndex(tab, x) > FindIndex(tab, k)
      BY <1>0, <2>2, <3>2 DEF Walked
    <3>6. Walked(tab', at', seen', due')
      BY <2>1, <3>1, <3>3, <3>4, <3>5 DEF Walked
    <3> QED BY <1>0, <2>4, <3>1, <3>2, <3>6 DEF IInv
  <2> QED BY <2>6, <2>7
<1>8. CASE UNCHANGED vars
  BY <1>8 DEF IInv, vars
<1> QED
  BY <1>2, <1>3, <1>4, <1>5, <1>6, <1>7, <1>8 DEF Next

(* The invariant holds of every state.                                         *)
THEOREM Invariant ==
  Spec => []IInv
<1> QED BY InitInv, NextInv, PTL DEF Spec

-----------------------------------------------------------------------------
(* What the runs check. *)

(* The chains: every entry with a value is met on the way from its main        *)
(* position, once; no chain is a circle; and the main invariant of ltable.c.   *)
LEMMA InvChains ==
  IInv => Chains
<1> SUFFICES ASSUME IInv PROVE Chains
  OBVIOUS
<1>1. PICK n \in Nat \ {0} : /\ tab \in Table(n)
                             /\ Sound(tab)
                             /\ Ahead(tab)
                             /\ \E l \in 0 .. n : n = TwoTo[l]
  BY DEF IInv, Sized
<1>2. /\ DOMAIN tab.node = 0 .. n - 1 /\ Size(tab) = n
      /\ tab.array \in Seq(Vals) /\ tab.dummy \in BOOLEAN /\ tab.lastfree \in 0 .. n
      /\ \A i \in 0 .. n - 1 : tab.node[i] \in Node(n)
  BY <1>1, TableParts
<1>3. TypeOK
  <2>1. \E l \in 0 .. Size(tab) : DOMAIN tab.node = 0 .. TwoTo[l] - 1
    BY <1>1, <1>2
  <2>2. \A i \in DOMAIN tab.node :
          tab.node[i] \in [key : Key \cup {Nil}, dead : BOOLEAN, val : Value \cup {Nil},
                           next : DOMAIN tab.node \cup {None}]
    BY <1>2 DEF Node, Vals
  <2> QED BY <1>2, <2>1, <2>2 DEF TypeOK, IInv, Vals
<1>4. ASSUME NEW i \in DOMAIN tab.node, tab.node[i].val # Nil
      PROVE  i \in Taken(tab) /\ ~tab.node[i].dead
  <2>1. i \in Taken(tab)
    BY <1>1, <1>4 DEF Sound, Links, Empty
  <2> QED BY <1>1, <1>4, <2>1 DEF Sound, Keys
<1>5. Found
  <2>1. ASSUME NEW i \in DOMAIN tab.node, tab.node[i].val # Nil
        PROVE  NodeOf(tab, tab.node[i].key) = i /\ ~InArray(tab, tab.node[i].key)
    <3>1. i \in Taken(tab) /\ ~tab.node[i].dead
      BY <1>4, <2>1
    <3>2. ~InArray(tab, tab.node[i].key)
      BY <1>1, <3>1 DEF Sound, Keys
    <3> QED BY <1>1, <3>1, <3>2, NodeOfFinds
  <2>2. ASSUME NEW i \in DOMAIN tab.node PROVE Chain(tab, i)[Size(tab)] = None
    <3>1. Acyclic(tab) /\ i \in 0 .. n - 1
      BY <1>1, <1>2 DEF Sound, Links
    <3> QED BY <1>1, <1>2, <3>1, ChainEnds
  <2> QED BY <2>1, <2>2 DEF Found
<1>6. Brent
  <2>1. ASSUME NEW i \in DOMAIN tab.node, tab.node[i].val # Nil
        PROVE  /\ tab.node[MainPosition(tab, tab.node[i].key)].key # Nil
               /\ MainPosition(tab, tab.node[MainPosition(tab, tab.node[i].key)].key)
                    = MainPosition(tab, tab.node[i].key)
    <3>1. Main(tab, i) \in Taken(tab) /\ Main(tab, Main(tab, i)) = Main(tab, i)
      BY <1>1, <1>4, <2>1 DEF Sound, Mains
    <3> QED BY <3>1 DEF Main, Taken
  <2> QED BY <2>1 DEF Brent
<1> QED BY <1>3, <1>5, <1>6 DEF Chains

(* The structure of the hash part holds in every state: no insertion, move,    *)
(* dead key or rebuild loses an entry or closes a chain (newkey, ltable.c:399).*)
THEOREM ChainsHold ==
  Spec => []Chains
<1> QED BY Invariant, InvChains, PTL

(* A rebuild loses nothing, leaves room for the key to come, and sizes the     *)
(* array part to the largest power of two more than half in use.               *)
LEMMA InvRebuilds ==
  IInv => Rebuilds
<1> SUFFICES ASSUME IInv PROVE Rebuilds
  OBVIOUS
<1>1. PICK n \in Nat \ {0} : /\ tab \in Table(n)
                             /\ Sound(tab)
                             /\ Ahead(tab)
                             /\ \E l \in 0 .. n : n = TwoTo[l]
  BY DEF IInv, Sized
<1>2. ASSUME NEW k \in Key, ~Present(tab, k)
      PROVE  /\ Present(Rehash(tab, k), k) \/ ~Full(Rehash(tab, k), k)
             /\ Used(Rehash(tab, k)) = Used(tab)
             /\ Len(Rehash(tab, k).array) = Max(Dense((Used(tab) \cup {k}) \cap Ints) \cup {0})
  <2>1. PICK r : r = Rehash(tab, k)
    OBVIOUS
  <2>2. /\ \E s \in Nat \ {0} : /\ r \in Table(s) /\ Sound(r) /\ Ahead(r)
                                /\ \E l \in 0 .. s : s = TwoTo[l]
        /\ \A x \in Key : Get(r, x) = Get(tab, x)
        /\ Present(r, k) \/ ~Full(r, k)
        /\ Len(r.array) = Max(Dense((Used(tab) \cup {k}) \cap Ints) \cup {0})
    BY <1>1, <1>2, <2>1, RehashSound
  <2>3. Used(r) = {x \in Key : Get(r, x) # Nil}
    BY <2>2, UsedIs
  <2>4. Used(tab) = {x \in Key : Get(tab, x) # Nil}
    BY <1>1, UsedIs
  <2>5. Used(r) = Used(tab)
    BY <2>2, <2>3, <2>4
  <2> QED BY <2>1, <2>2, <2>5
<1>3. RoomForAll
  BY <1>2 DEF RoomForAll
<1>4. HalfInUse
  <2> SUFFICES ASSUME NEW k \in Key, ~Present(tab, k)
               PROVE  LET ints == (Used(tab) \cup {k}) \cap Ints
                          dense == {m \in {TwoTo[i] : i \in 0 .. Cardinality(ints)} :
                                       2 * Cardinality({j \in ints : j <= m}) > m}
                      IN  Len(Rehash(tab, k).array) = Max(dense \cup {0})
    BY DEF HalfInUse
  <2> QED BY <1>2 DEF Dense, Sizes
<1> QED BY <1>3, <1>4 DEF Rebuilds

(* Of every full table and key to come: newkey never rebuilds twice for one    *)
(* key (ltable.c:405), and the sizes are those of the comment (ltable.c:12).   *)
THEOREM RebuildsHold ==
  Spec => []Rebuilds
<1> QED BY Invariant, InvRebuilds, PTL

(* The key a walk stands at is found, though it was cleared or killed.         *)
LEMMA InvNextFinds ==
  IInv => NextFinds
<1> SUFFICES ASSUME IInv, walking PROVE FindIndex(tab, at) >= 0
  BY DEF NextFinds
<1>1. PICK n \in Nat \ {0} : tab \in Table(n) /\ Sound(tab)
  BY DEF IInv, Sized
<1>2. Stands(tab, at)
  BY DEF IInv, Walked
<1>3. FindIndex(tab, at) \in Nat
  BY <1>1, <1>2, StandsIndex
<1> QED BY <1>3

-----------------------------------------------------------------------------
(* The table implements the map. *)

(* A new table is a map without a value.                                       *)
LEMMA InitMap ==
  Init => M!Init
<1> SUFFICES ASSUME Init PROVE M!Init
  OBVIOUS
<1>1. PICK n \in Nat \ {0} : tab \in Table(n)
  BY InitInv DEF IInv, Sized
<1>2. \A k \in Key : Get(tab, k) \in Value \cup {Nil}
  BY <1>1, GetType DEF Vals
<1>3. Contents(tab) \in [Key -> Value \cup {Nil}]
  BY <1>2 DEF Contents
<1> QED BY <1>3 DEF Init, M!Init

(* An assignment to a table is one to the map.                                 *)
LEMMA AssignedMap ==
  ASSUME NEW t, NEW u, NEW k \in Key, NEW v, Assigned(t, u, k, v)
  PROVE  Contents(u) = [Contents(t) EXCEPT ![k] = v]
BY DEF Assigned, Contents

(* Every step is a step of the map, or leaves it alone.                        *)
LEMMA NextMap ==
  IInv /\ [Next]_vars => [M!Next]_(M!vars)
<1> SUFFICES ASSUME IInv, [Next]_vars PROVE [M!Next]_(M!vars)
  OBVIOUS
<1>0. /\ walking \in BOOLEAN /\ at \in Key \cup {Nil} /\ seen \subseteq Key /\ due \subseteq Key
      /\ walking => Walked(tab, at, seen, due)
  BY DEF IInv
<1>1. PICK n \in Nat \ {0} : /\ tab \in Table(n)
                             /\ Sound(tab)
                             /\ Ahead(tab)
                             /\ \E l \in 0 .. n : n = TwoTo[l]
  BY DEF IInv, Sized
<1>2. \A k \in Key : Contents(tab)[k] = Get(tab, k)
  BY DEF Contents
<1>3. ASSUME NEW k \in Key, NEW v \in Value \cup {Nil}, Assign(k, v) PROVE M!Assign(k, v)
  <2>1. /\ walking => Get(tab, k) # Nil
        /\ tab' = SetTable(tab, k, v)
        /\ due' = IF v = Nil THEN due \ {k} ELSE due
        /\ walking' = walking /\ at' = at /\ seen' = seen
    BY <1>3 DEF Assign
  <2>2. v \in Vals
    BY DEF Vals
  <2>3. Assigned(tab, tab', k, v)
    BY <1>1, <2>1, <2>2, SetTableSound
  <2>4. Contents(tab') = [Contents(tab) EXCEPT ![k] = v]
    BY <2>3, AssignedMap
  <2> QED BY <1>2, <2>1, <2>4 DEF M!Assign
<1>4. ASSUME NEW m \in 1 .. MaxArray, ResizeArray(m) PROVE UNCHANGED M!vars
  <2>1. /\ ~walking /\ m > Len(tab.array)
        /\ tab' = Resize(tab, m, IF tab.dummy THEN 0 ELSE Size(tab))
        /\ walking' = walking /\ at' = at /\ seen' = seen /\ due' = due
    BY <1>4 DEF ResizeArray
  <2>2. m \in Nat
    BY KeysAssumption
  <2>3. \A x \in Key : Get(tab', x) = Get(tab, x)
    BY <1>1, <2>1, <2>2, GrowSound
  <2>4. Contents(tab') = Contents(tab)
    BY <2>3 DEF Contents
  <2> QED BY <2>1, <2>4 DEF M!vars
<1>5. ASSUME NEW k \in Key, ClearEntry(k) PROVE M!Assign(k, Nil)
  <2>1. /\ ~InArray(tab, k) /\ NodeOf(tab, k) # None /\ Get(tab, k) # Nil
        /\ tab' = [tab EXCEPT !.node[NodeOf(tab, k)] = [@ EXCEPT !.val = Nil, !.dead = k \in Collected]]
        /\ due' = due \ {k}
        /\ walking' = walking /\ at' = at /\ seen' = seen
    BY <1>5 DEF ClearEntry
  <2>2. Assigned(tab, tab', k, Nil)
    BY <1>1, <2>1, ClearSound
  <2>3. Contents(tab') = [Contents(tab) EXCEPT ![k] = Nil]
    BY <2>2 DEF Assigned, Contents
  <2> QED BY <1>2, <2>1, <2>3 DEF M!Assign
<1>6. ASSUME KillKeys PROVE UNCHANGED M!vars
  <2>1. /\ tab' = [tab EXCEPT !.node = [i \in DOMAIN @ |->
              LET e == @[i] IN [e EXCEPT !.dead = e.dead \/ (e.val = Nil /\ e.key \in Collected)]]]
        /\ walking' = walking /\ at' = at /\ seen' = seen /\ due' = due
    BY <1>6 DEF KillKeys
  <2>2. \A x \in Key : Get(tab', x) = Get(tab, x)
    BY <1>1, <2>1, KillSound
  <2>3. Contents(tab') = Contents(tab)
    BY <2>2 DEF Contents
  <2> QED BY <2>1, <2>3 DEF M!vars
<1>7. ASSUME Begin PROVE M!Begin
  <2>1. /\ ~walking /\ walking' = TRUE /\ at' = Nil /\ seen' = {}
        /\ due' = {k \in Key : Get(tab, k) # Nil} /\ tab' = tab
    BY <1>7 DEF Begin
  <2>2. {k \in Key : Contents(tab)[k] # Nil} = {k \in Key : Get(tab, k) # Nil}
    BY <1>2
  <2>3. Contents(tab') = Contents(tab)
    BY <2>1
  <2> QED BY <2>1, <2>2, <2>3 DEF M!Begin
<1>8. ASSUME Step PROVE M!End \/ \E k \in Key : M!Step(k)
  <2>1. walking /\ tab' = tab
    BY <1>8 DEF Step
  <2>2. Walked(tab, at, seen, due)
    BY <1>0, <2>1
  <2>3. FindIndex(tab, at) \in Nat
    BY <1>1, <2>2, StandsIndex DEF Walked
  <2>4. Contents(tab') = Contents(tab)
    BY <2>1
  <2>5. PICK k : k = NextKey(tab, at)
    OBVIOUS
  <2>6. \A x \in Key : Get(tab, x) # Nil => FindIndex(tab, x) \in Nat
    <3> TAKE x \in Key
    <3>1. Len(tab.array) \in Nat
      BY <1>1, TableParts
    <3>2. Get(tab, x) # Nil => FindIndex(tab, x) \in 1 .. Len(tab.array) + n
      BY <1>1, IndexOf
    <3> QED BY <3>1, <3>2
  <2>7. CASE k = None
    <3>1. walking' = FALSE /\ at' = Nil /\ seen' = {} /\ due' = due
      BY <1>8, <2>5, <2>7 DEF Step
    <3>2. \A x \in Key : Get(tab, x) # Nil => FindIndex(tab, x) <= FindIndex(tab, at)
      BY <1>1, <2>3, <2>5, <2>7, NextKeyIs
    <3>3. due = {}
      <4> SUFFICES ASSUME NEW x \in due PROVE FALSE
        OBVIOUS
      <4>1. x \in Key /\ Get(tab, x) # Nil /\ FindIndex(tab, x) > FindIndex(tab, at)
        BY <1>0, <2>2 DEF Walked
      <4>2. FindIndex(tab, x) <= FindIndex(tab, at) /\ FindIndex(tab, x) \in Nat
        BY <2>6, <3>2, <4>1
      <4> QED BY <2>3, <4>1, <4>2
    <3>4. M!End
      BY <2>1, <2>4, <3>1, <3>3 DEF M!End
    <3> QED BY <3>4
  <2>8. CASE k # None
    <3>1. at' = k /\ seen' = seen \cup {k} /\ due' = due \ {k} /\ walking' = walking
      BY <1>8, <2>5, <2>8 DEF Step
    <3>2. /\ k \in Key /\ Get(tab, k) # Nil /\ FindIndex(tab, k) \in Nat
          /\ FindIndex(tab, k) > FindIndex(tab, at)
      BY <1>1, <2>3, <2>5, <2>8, NextKeyIs
    <3>3. k \notin seen
      <4> SUFFICES ASSUME k \in seen PROVE FALSE
        OBVIOUS
      <4>1. FindIndex(tab, k) <= FindIndex(tab, at)
        BY <2>2, <3>2 DEF Walked
      <4> QED BY <2>3, <3>2, <4>1
    <3>4. Contents(tab)[k] # Nil
      BY <1>2, <3>2
    <3>5. M!Step(k)
      BY <2>1, <2>4, <3>1, <3>3, <3>4 DEF M!Step
    <3> QED BY <3>2, <3>5
  <2> QED BY <2>7, <2>8
<1>9. CASE UNCHANGED vars
  <2>1. Contents(tab') = Contents(tab) /\ walking' = walking /\ seen' = seen /\ due' = due
    BY <1>9 DEF vars
  <2> QED BY <2>1 DEF M!vars
<1>10. CASE \E k \in Key, v \in Value \cup {Nil} : Assign(k, v)
  BY <1>3, <1>10 DEF M!Next
<1>11. CASE \E m \in 1 .. MaxArray : ResizeArray(m)
  BY <1>4, <1>11
<1>12. CASE \E k \in Key : ClearEntry(k)
  <2>1. PICK k \in Key : ClearEntry(k)
    BY <1>12
  <2>2. M!Assign(k, Nil) /\ Nil \in Value \cup {Nil}
    BY <1>5, <2>1
  <2> QED BY <2>2 DEF M!Next
<1>13. CASE KillKeys
  BY <1>6, <1>13
<1>14. CASE Walks /\ (Begin \/ Step)
  BY <1>7, <1>8, <1>14 DEF M!Next
<1> QED
  BY <1>9, <1>10, <1>11, <1>12, <1>13, <1>14 DEF Next

(* The table implements the map (LuaMap): rebuilds and the collector change    *)
(* nothing a program can see but what weak tables lose, and a walk hands out   *)
(* every lasting key exactly once (luaH_next, ltable.c:169).                   *)
THEOREM TableIsMap ==
  Spec => IsMap
<1>1. IInv /\ [Next]_vars => [M!Next]_(M!vars)
  BY NextMap
<1> QED
  BY <1>1, Invariant, InitMap, PTL DEF Spec, IsMap, M!Spec

-----------------------------------------------------------------------------
(* luaH_getn: the searches end, at a boundary. *)

(* A loop that goes from p to e[p] until it meets a member of D, and then      *)
(* answers b[p], computes a function if a measure goes down.                   *)
Loop(P, R, D, e, b, f) == f \in [P -> R] /\ \A p \in P : f[p] = IF p \in D THEN b[p] ELSE f[e[p]]

(* The function exists: its graph is the least one closed under the loop.      *)
LEMMA LoopExists ==
  ASSUME NEW P, NEW R, NEW D \in SUBSET P, NEW e \in [P -> P], NEW b \in [P -> R], NEW mu \in [P -> Nat],
         \A p \in P \ D : mu[e[p]] < mu[p]
  PROVE  \E f : Loop(P, R, D, e, b, f)
<1> DEFINE Cl(C) == /\ \A p \in D : <<p, b[p]>> \in C
                    /\ \A p \in P \ D, y \in R : <<e[p], y>> \in C => <<p, y>> \in C
           Gives(p, y) == \A C \in SUBSET (P \X R) : Cl(C) => <<p, y>> \in C
<1>1. \A p \in D : Gives(p, b[p])
  OBVIOUS
<1>2. \A p \in P \ D, y \in R : Gives(e[p], y) => Gives(p, y)
  OBVIOUS
<1>3. ASSUME NEW p \in D, NEW y \in R, Gives(p, y) PROVE y = b[p]
  <2> DEFINE C == {q \in P \X R : q[1] = p => q[2] = b[p]}
  <2>1. Cl(C)
    <3>1. \A q \in P, z \in R : <<q, z>> \in C <=> (q = p => z = b[p])
      OBVIOUS
    <3>2. \A q \in D : q \in P /\ b[q] \in R
      OBVIOUS
    <3>3. \A q \in P \ D : q # p
      OBVIOUS
    <3> HIDE DEF C
    <3> QED BY <3>1, <3>2, <3>3
  <2>2. C \in SUBSET (P \X R)
    OBVIOUS
  <2>3. <<p, y>> \in C
    <3> HIDE DEF C, Cl
    <3> QED BY <1>3, <2>1, <2>2
  <2> QED BY <2>3
<1>4. ASSUME NEW p \in P \ D, NEW y \in R, Gives(p, y) PROVE Gives(e[p], y)
  <2> SUFFICES ASSUME ~Gives(e[p], y) PROVE FALSE
    OBVIOUS
  <2> DEFINE C == {q \in P \X R : Gives(q[1], q[2]) /\ q # <<p, y>>}
  <2>1. Cl(C)
    <3>0. \A q \in P, z \in R : <<q, z>> \in C <=> (Gives(q, z) /\ ~(q = p /\ z = y))
      <4> HIDE DEF Gives
      <4> QED OBVIOUS
    <3>1. ASSUME NEW q \in D PROVE <<q, b[q]>> \in C
      <4>1. q \in P /\ b[q] \in R /\ q # p
        OBVIOUS
      <4> HIDE DEF C, Gives
      <4> QED BY <1>1, <3>0, <4>1
    <3>2. ASSUME NEW q \in P \ D, NEW z \in R, <<e[q], z>> \in C PROVE <<q, z>> \in C
      <4>1. e[q] \in P /\ q \in P
        OBVIOUS
      <4> HIDE DEF C, Gives
      <4>2. Gives(e[q], z)
        BY <3>0, <3>2, <4>1
      <4>3. Gives(q, z)
        BY <1>2, <4>2
      <4>4. ~(q = p /\ z = y)
        BY <4>2
      <4> QED BY <3>0, <4>1, <4>3, <4>4
    <3> HIDE DEF C
    <3> QED BY <3>1, <3>2
  <2>2. C \in SUBSET (P \X R)
    OBVIOUS
  <2>3. <<p, y>> \in C
    <3> HIDE DEF C, Cl
    <3> QED BY <1>4, <2>1, <2>2
  <2>4. <<p, y>> \notin C
    <3> HIDE DEF Gives
    <3> QED OBVIOUS
  <2> QED BY <2>3, <2>4
<1> HIDE DEF Gives
<1> DEFINE S == {k \in Nat : \A p \in P : mu[p] < k =>
                    \E y \in R : Gives(p, y) /\ \A z \in R : Gives(p, z) => z = y}
<1>5. 0 \in S
  <2>1. \A p \in P : mu[p] \in Nat
    OBVIOUS
  <2>2. \A p \in P : ~(mu[p] < 0)
    BY <2>1
  <2> QED BY <2>2
<1>6. ASSUME NEW k \in Nat, k \in S PROVE k + 1 \in S
  <2> SUFFICES ASSUME NEW p \in P, mu[p] < k + 1
               PROVE  \E y \in R : Gives(p, y) /\ \A z \in R : Gives(p, z) => z = y
    OBVIOUS
  <2>1. CASE p \in D
    <3>1. b[p] \in R
      OBVIOUS
    <3> QED BY <1>1, <1>3, <2>1, <3>1
  <2>2. CASE p \notin D
    <3>1. e[p] \in P /\ mu[e[p]] < mu[p] /\ mu[p] \in Nat /\ mu[e[p]] \in Nat
      BY <2>2
    <3>2. mu[e[p]] < k
      BY <3>1
    <3>3. PICK y \in R : Gives(e[p], y) /\ \A z \in R : Gives(e[p], z) => z = y
      BY <1>6, <3>1, <3>2
    <3> QED BY <1>2, <1>4, <2>2, <3>3
  <2> QED BY <2>1, <2>2
<1>7. Nat \subseteq S
  <2> HIDE DEF S
  <2> QED BY <1>5, <1>6, NatSetInduction
<1>8. ASSUME NEW p \in P
      PROVE  \E y \in R : Gives(p, y) /\ \A z \in R : Gives(p, z) => z = y
  <2>1. mu[p] + 1 \in Nat /\ mu[p] < mu[p] + 1
    OBVIOUS
  <2> QED BY <1>7, <2>1
<1> DEFINE f == [p \in P |-> CHOOSE y \in R : Gives(p, y)]
<1>9. \A p \in P : f[p] \in R /\ Gives(p, f[p]) /\ \A z \in R : Gives(p, z) => z = f[p]
  <2> TAKE p \in P
  <2>1. PICK y \in R : Gives(p, y) /\ \A z \in R : Gives(p, z) => z = y
    BY <1>8
  <2>2. f[p] = CHOOSE z \in R : Gives(p, z)
    OBVIOUS
  <2>3. f[p] \in R /\ Gives(p, f[p])
    BY <2>1, <2>2
  <2> QED BY <2>1, <2>3
<1>10. f \in [P -> R]
  <2>1. f = [p \in P |-> f[p]]
    OBVIOUS
  <2> HIDE DEF f
  <2> QED BY <1>9, <2>1
<1>11. \A p \in P : f[p] = IF p \in D THEN b[p] ELSE f[e[p]]
  <2> HIDE DEF f
  <2> TAKE p \in P
  <2>1. CASE p \in D
    BY <1>3, <1>9, <2>1
  <2>2. CASE p \notin D
    <3>1. e[p] \in P
      OBVIOUS
    <3> QED BY <1>4, <1>9, <2>2, <3>1
  <2> QED BY <2>1, <2>2
<1> QED
  <2> HIDE DEF f
  <2> QED BY <1>10, <1>11 DEF Loop

(* Binary search, step by step.                                                *)
Halves(t, f) ==
  f = [p \in Nat \X Nat |->
        IF p[2] - p[1] <= 1 THEN p[1]
        ELSE LET m == (p[1] + p[2]) \div 2
             IN  IF At(t, m) = Nil THEN f[<<p[1], m>>] ELSE f[<<m, p[2]>>]]

Halving(t, f) ==
  /\ \A i, j \in Nat : Between(t, i, j) = f[<<i, j>>]
  /\ \A i, j \in Nat : j - i <= 1 => f[<<i, j>>] = i
  /\ \A i, j \in Nat : ~(j - i <= 1) =>
       f[<<i, j>>] = IF At(t, (i + j) \div 2) = Nil THEN f[<<i, (i + j) \div 2>>]
                     ELSE f[<<(i + j) \div 2, j>>]

(* Binary search follows its steps.                                            *)
LEMMA BetweenSteps ==
  ASSUME NEW t
  PROVE  \E f : Halving(t, f)
<1> DEFINE P == Nat \X Nat
           D == {p \in P : p[2] - p[1] <= 1}
           m(p) == (p[1] + p[2]) \div 2
           e == [p \in P |-> IF At(t, m(p)) = Nil THEN <<p[1], m(p)>> ELSE <<m(p), p[2]>>]
           b == [p \in P |-> p[1]]
           mu == [p \in P |-> IF p[2] > p[1] THEN p[2] - p[1] ELSE 0]
<1>1. \A p \in P : p[1] \in Nat /\ p[2] \in Nat /\ m(p) \in Nat
  OBVIOUS
<1>2. \A p \in P : e[p] \in P
  <2> HIDE DEF m
  <2> QED BY <1>1
<1>3. e \in [P -> P] /\ b \in [P -> Nat] /\ mu \in [P -> Nat] /\ D \in SUBSET P
  <2>1. e \in [P -> P]
    <3>1. e = [p \in P |-> e[p]]
      OBVIOUS
    <3> HIDE DEF e, P
    <3> QED BY <1>2, <3>1
  <2>2. \A p \in P : (IF p[2] > p[1] THEN p[2] - p[1] ELSE 0) \in Nat
    BY <1>1
  <2> QED BY <1>1, <2>1, <2>2
<1>4. \A p \in P \ D : mu[e[p]] < mu[p]
  <2> TAKE p \in P \ D
  <2>1. p[1] \in Nat /\ p[2] \in Nat /\ ~(p[2] - p[1] <= 1)
    OBVIOUS
  <2>2. m(p) \in Nat /\ p[1] < m(p) /\ m(p) < p[2]
    BY <2>1
  <2>3. mu[p] = p[2] - p[1]
    BY <2>1
  <2>4. CASE At(t, m(p)) = Nil
    <3>1. e[p] = <<p[1], m(p)>>
      BY <2>4
    <3>2. mu[<<p[1], m(p)>>] = m(p) - p[1]
      <4> HIDE DEF m
      <4> QED BY <2>1, <2>2
    <3> HIDE DEF e, mu, m
    <3> QED BY <2>1, <2>2, <2>3, <3>1, <3>2
  <2>5. CASE At(t, m(p)) # Nil
    <3>1. e[p] = <<m(p), p[2]>>
      BY <2>5
    <3>2. mu[<<m(p), p[2]>>] = p[2] - m(p)
      <4> HIDE DEF m
      <4> QED BY <2>1, <2>2
    <3> HIDE DEF e, mu, m
    <3> QED BY <2>1, <2>2, <2>3, <3>1, <3>2
  <2> QED BY <2>4, <2>5
<1>5. PICK f \in [P -> Nat] : \A p \in P : f[p] = IF p \in D THEN b[p] ELSE f[e[p]]
  <2> HIDE DEF P, D, e, b, mu
  <2>1. PICK f : Loop(P, Nat, D, e, b, f)
    BY <1>3, <1>4, LoopExists
  <2> QED BY <2>1 DEF Loop
<1>6. Halves(t, f)
  <2>1. \A p \in P : f[p] = IF p[2] - p[1] <= 1 THEN p[1]
                            ELSE IF At(t, m(p)) = Nil THEN f[<<p[1], m(p)>>] ELSE f[<<m(p), p[2]>>]
    <3> TAKE p \in P
    <3>1. p \in D <=> p[2] - p[1] <= 1
      OBVIOUS
    <3>2. b[p] = p[1] /\ e[p] = IF At(t, m(p)) = Nil THEN <<p[1], m(p)>> ELSE <<m(p), p[2]>>
      OBVIOUS
    <3> HIDE DEF D, e, b, m
    <3> QED BY <1>5, <3>1, <3>2
  <2>2. f = [p \in P |-> f[p]]
    OBVIOUS
  <2> QED BY <2>1, <2>2 DEF Halves
<1>7. PICK g : g = CHOOSE h : Halves(t, h)
  OBVIOUS
<1>8. Halves(t, g)
  BY <1>6, <1>7
<1>9. \A i, j \in Nat : Between(t, i, j) = g[<<i, j>>]
  BY <1>7 DEF Between, Halves
<1>10. ASSUME NEW i \in Nat, NEW j \in Nat
       PROVE  g[<<i, j>>] = IF j - i <= 1 THEN i
                            ELSE IF At(t, (i + j) \div 2) = Nil THEN g[<<i, (i + j) \div 2>>]
                            ELSE g[<<(i + j) \div 2, j>>]
  <2>1. <<i, j>> \in Nat \X Nat /\ <<i, j>>[1] = i /\ <<i, j>>[2] = j
    OBVIOUS
  <2> QED BY <1>8, <2>1 DEF Halves
<1> QED BY <1>9, <1>10 DEF Halving

(* A boundary: a key with a value, or 0, before one without.                   *)
IsBoundary(t, r) == r \in Nat /\ (r = 0 \/ At(t, r) # Nil) /\ At(t, r + 1) = Nil

(* Binary search between a key with a value, or 0, and one without ends at a   *)
(* boundary.                                                                   *)
LEMMA BetweenIs ==
  ASSUME NEW t, NEW a \in Nat, NEW c \in Nat, a < c, a = 0 \/ At(t, a) # Nil, At(t, c) = Nil
  PROVE  IsBoundary(t, Between(t, a, c))
<1>0. PICK f : Halving(t, f)
  BY BetweenSteps
<1>1. /\ \A i, j \in Nat : Between(t, i, j) = f[<<i, j>>]
      /\ \A i, j \in Nat : j - i <= 1 => f[<<i, j>>] = i
      /\ \A i, j \in Nat : ~(j - i <= 1) =>
           f[<<i, j>>] = IF At(t, (i + j) \div 2) = Nil THEN f[<<i, (i + j) \div 2>>]
                         ELSE f[<<(i + j) \div 2, j>>]
  BY <1>0 DEF Halving
<1> DEFINE S == {k \in Nat : \A i, j \in Nat :
                   j - i <= k /\ i < j /\ (i = 0 \/ At(t, i) # Nil) /\ At(t, j) = Nil
                     => IsBoundary(t, f[<<i, j>>])}
<1>2. 0 \in S
  <2>1. \A i, j \in Nat : ~(j - i <= 0 /\ i < j)
    OBVIOUS
  <2> QED BY <2>1
<1>3. ASSUME NEW k \in Nat, k \in S PROVE k + 1 \in S
  <2> SUFFICES ASSUME NEW i \in Nat, NEW j \in Nat,
                      j - i <= k + 1, i < j, i = 0 \/ At(t, i) # Nil, At(t, j) = Nil
               PROVE  IsBoundary(t, f[<<i, j>>])
    OBVIOUS
  <2>1. CASE j - i <= 1
    <3>1. f[<<i, j>>] = i /\ j = i + 1
      BY <1>1, <2>1
    <3> QED BY <3>1 DEF IsBoundary
  <2>2. CASE ~(j - i <= 1)
    <3>1. PICK m \in Nat : m = (i + j) \div 2 /\ i < m /\ m < j /\ m # 0
      BY <2>2
    <3>2. f[<<i, j>>] = IF At(t, m) = Nil THEN f[<<i, m>>] ELSE f[<<m, j>>]
      BY <1>1, <2>2, <3>1
    <3>3. m - i <= k /\ j - m <= k
      BY <3>1
    <3>4. CASE At(t, m) = Nil
      BY <1>3, <3>1, <3>2, <3>3, <3>4
    <3>5. CASE At(t, m) # Nil
      BY <1>3, <3>1, <3>2, <3>3, <3>5
    <3> QED BY <3>4, <3>5
  <2> QED BY <2>1, <2>2
<1>4. Nat \subseteq S
  <2> HIDE DEF S
  <2> QED BY <1>2, <1>3, NatSetInduction
<1>5. c - a \in S /\ c - a <= c - a
  BY <1>4
<1> QED BY <1>1, <1>5

(* A table has integer keys with values up to some number only.                *)
LEMMA IntsBounded ==
  ASSUME NEW n \in Nat \ {0}, NEW t \in Table(n), Sound(t)
  PROVE  \E c \in Nat : \A i \in Nat : i > c => At(t, i) = Nil
<1>1. /\ DOMAIN t.node = 0 .. n - 1 /\ Len(t.array) \in Nat
      /\ \A i \in 0 .. n - 1 : t.node[i].key \in Key \cup {Nil}
  BY TableParts
<1> DEFINE S == {k \in Nat : k <= n => \E c \in Nat : \A i \in 0 .. k - 1 : t.node[i].key \in Nat => t.node[i].key <= c}
<1>2. 0 \in S
  <2>1. 0 \in Nat /\ \A i \in 0 .. 0 - 1 : t.node[i].key \in Nat => t.node[i].key <= 0
    OBVIOUS
  <2> QED BY <2>1
<1>3. ASSUME NEW k \in Nat, k \in S PROVE k + 1 \in S
  <2> SUFFICES ASSUME k + 1 <= n
               PROVE  \E c \in Nat : \A i \in 0 .. (k + 1) - 1 : t.node[i].key \in Nat => t.node[i].key <= c
    OBVIOUS
  <2>1. PICK c \in Nat : \A i \in 0 .. k - 1 : t.node[i].key \in Nat => t.node[i].key <= c
    BY <1>3
  <2>2. \A i \in 0 .. (k + 1) - 1 : i \in 0 .. k - 1 \/ i = k
    OBVIOUS
  <2>3. CASE t.node[k].key \in Nat /\ t.node[k].key > c
    <3>1. \A i \in 0 .. (k + 1) - 1 : t.node[i].key \in Nat => t.node[i].key <= t.node[k].key
      BY <2>1, <2>2, <2>3
    <3> QED BY <2>3, <3>1
  <2>4. CASE ~(t.node[k].key \in Nat /\ t.node[k].key > c)
    <3>1. \A i \in 0 .. (k + 1) - 1 : t.node[i].key \in Nat => t.node[i].key <= c
      BY <2>1, <2>2, <2>4
    <3> QED BY <3>1
  <2> QED BY <2>3, <2>4
<1>4. Nat \subseteq S
  <2> HIDE DEF S
  <2> QED BY <1>2, <1>3, NatSetInduction
<1>5. PICK c \in Nat : \A i \in 0 .. n - 1 : t.node[i].key \in Nat => t.node[i].key <= c
  <2>1. n \in S
    BY <1>4
  <2>2. n <= n
    OBVIOUS
  <2> QED BY <2>1, <2>2
<1>6. PICK d \in Nat : d >= c /\ d >= Len(t.array)
  <2>1. CASE c >= Len(t.array)
    BY <1>1, <2>1
  <2>2. CASE ~(c >= Len(t.array))
    BY <1>1, <2>2
  <2> QED BY <2>1, <2>2
<1>7. ASSUME NEW i \in Nat, i > d PROVE At(t, i) = Nil
  <2>1. CASE i \notin Ints
    BY <2>1 DEF At
  <2>2. CASE i \in Ints
    <3>1. i \in Key /\ ~InArray(t, i)
      BY <1>1, <1>6, <1>7, <2>2 DEF Key, InArray
    <3>2. \A p \in Taken(t) : t.node[p].key # i
      BY <1>1, <1>5, <1>6, <1>7 DEF Taken
    <3>3. Get(t, i) = Nil
      BY <3>1, <3>2, GetNone
    <3> QED BY <3>3 DEF At
  <2> QED BY <2>1, <2>2
<1> QED BY <1>7

(* unbound_search's doubling, step by step.                                    *)
Doubles(t, f) ==
  f = [p \in Nat \X Nat |-> IF At(t, p[2]) = Nil THEN p ELSE f[<<p[2], 2 * p[2]>>]]

Doubling(t, f) ==
  /\ \A j \in Nat : Unbound(t, j) = Between(t, f[<<j, j + 1>>][1], f[<<j, j + 1>>][2])
  /\ \A i, j \in Nat : f[<<i, j>>] = IF At(t, j) = Nil THEN <<i, j>> ELSE f[<<j, 2 * j>>]

(* The doubling follows its steps, in a table whose integer keys are bounded.  *)
LEMMA UnboundSteps ==
  ASSUME NEW t, NEW c \in Nat, \A i \in Nat : i > c => At(t, i) = Nil
  PROVE  \E f : Doubling(t, f)
<1>0. At(t, 0) = Nil
  <2>1. 0 \notin Ints
    BY KeysAssumption
  <2> QED BY <2>1 DEF At
<1> DEFINE P == Nat \X Nat
           D == {p \in P : At(t, p[2]) = Nil}
           e == [p \in P |-> <<p[2], 2 * p[2]>>]
           b == [p \in P |-> p]
           mu == [p \in P |-> IF p[2] <= c THEN c - p[2] + 1 ELSE 0]
<1>1. \A p \in P : p[1] \in Nat /\ p[2] \in Nat /\ 2 * p[2] \in Nat
  OBVIOUS
<1>2. e \in [P -> P] /\ b \in [P -> P] /\ mu \in [P -> Nat] /\ D \in SUBSET P
  <2>1. \A p \in P : <<p[2], 2 * p[2]>> \in P
    BY <1>1
  <2>2. \A p \in P : (IF p[2] <= c THEN c - p[2] + 1 ELSE 0) \in Nat
    BY <1>1
  <2> QED BY <2>1, <2>2
<1>3. \A p \in P \ D : mu[e[p]] < mu[p]
  <2> TAKE p \in P \ D
  <2>1. p[2] \in Nat /\ At(t, p[2]) # Nil
    OBVIOUS
  <2>2. p[2] # 0 /\ p[2] <= c
    BY <1>0, <2>1
  <2>3. e[p] = <<p[2], 2 * p[2]>> /\ <<p[2], 2 * p[2]>> \in P
    BY <1>1
  <2>4. mu[p] = c - p[2] + 1
    BY <2>2
  <2>5. mu[<<p[2], 2 * p[2]>>] = IF 2 * p[2] <= c THEN c - 2 * p[2] + 1 ELSE 0
    BY <2>3
  <2> HIDE DEF e, mu, P, D
  <2> QED BY <2>1, <2>2, <2>3, <2>4, <2>5
<1>4. PICK f \in [P -> P] : \A p \in P : f[p] = IF p \in D THEN b[p] ELSE f[e[p]]
  <2> HIDE DEF P, D, e, b, mu
  <2>1. PICK f : Loop(P, P, D, e, b, f)
    BY <1>2, <1>3, LoopExists
  <2> QED BY <2>1 DEF Loop
<1>5. Doubles(t, f)
  <2>1. \A p \in P : f[p] = IF At(t, p[2]) = Nil THEN p ELSE f[<<p[2], 2 * p[2]>>]
    BY <1>4
  <2>2. f = [p \in P |-> f[p]]
    OBVIOUS
  <2> QED BY <2>1, <2>2 DEF Doubles
<1>6. PICK g : g = CHOOSE h : Doubles(t, h)
  OBVIOUS
<1>7. Doubles(t, g)
  BY <1>5, <1>6
<1>8. \A j \in Nat : Unbound(t, j) = Between(t, g[<<j, j + 1>>][1], g[<<j, j + 1>>][2])
  BY <1>6 DEF Unbound, Doubles
<1>9. ASSUME NEW i \in Nat, NEW j \in Nat
      PROVE  g[<<i, j>>] = IF At(t, j) = Nil THEN <<i, j>> ELSE g[<<j, 2 * j>>]
  <2>1. <<i, j>> \in Nat \X Nat /\ <<i, j>>[2] = j
    OBVIOUS
  <2> QED BY <1>7, <2>1 DEF Doubles
<1> QED BY <1>8, <1>9 DEF Doubling

(* unbound_search answers a boundary.                                          *)
LEMMA UnboundIs ==
  ASSUME NEW t, NEW c \in Nat, \A i \in Nat : i > c => At(t, i) = Nil,
         NEW k \in Nat, k = 0 \/ At(t, k) # Nil
  PROVE  IsBoundary(t, Unbound(t, k))
<1>0. PICK f : Doubling(t, f)
  BY UnboundSteps
<1>1. /\ \A j \in Nat : Unbound(t, j) = Between(t, f[<<j, j + 1>>][1], f[<<j, j + 1>>][2])
      /\ \A i, j \in Nat : f[<<i, j>>] = IF At(t, j) = Nil THEN <<i, j>> ELSE f[<<j, 2 * j>>]
  BY <1>0 DEF Doubling
<1> DEFINE Good(p) == /\ p \in Nat \X Nat /\ p[1] < p[2]
                      /\ p[1] = 0 \/ At(t, p[1]) # Nil
                      /\ At(t, p[2]) = Nil
           S == {d \in Nat : \A i, j \in Nat :
                   c - j < d /\ i < j /\ (i = 0 \/ At(t, i) # Nil) => Good(f[<<i, j>>])}
<1>2. 0 \in S
  <2> SUFFICES ASSUME NEW i \in Nat, NEW j \in Nat, c - j < 0, i < j, i = 0 \/ At(t, i) # Nil
               PROVE  Good(f[<<i, j>>])
    OBVIOUS
  <2>1. At(t, j) = Nil
    <3>1. j > c
      OBVIOUS
    <3> QED BY <3>1
  <2>2. f[<<i, j>>] = <<i, j>>
    BY <1>1, <2>1
  <2> QED BY <2>1, <2>2
<1>3. ASSUME NEW d \in Nat, d \in S PROVE d + 1 \in S
  <2> SUFFICES ASSUME NEW i \in Nat, NEW j \in Nat, c - j < d + 1, i < j, i = 0 \/ At(t, i) # Nil
               PROVE  Good(f[<<i, j>>])
    OBVIOUS
  <2>1. CASE At(t, j) = Nil
    <3>1. f[<<i, j>>] = <<i, j>>
      BY <1>1, <2>1
    <3> QED BY <2>1, <3>1
  <2>2. CASE At(t, j) # Nil
    <3>1. f[<<i, j>>] = f[<<j, 2 * j>>]
      BY <1>1, <2>2
    <3>2. 2 * j \in Nat /\ c - 2 * j < d /\ j < 2 * j
      OBVIOUS
    <3>3. Good(f[<<j, 2 * j>>])
      <4> HIDE DEF Good
      <4> QED BY <1>3, <2>2, <3>2
    <3> HIDE DEF Good
    <3> QED BY <3>1, <3>3
  <2> QED BY <2>1, <2>2
<1>4. Nat \subseteq S
  <2> HIDE DEF S
  <2> QED BY <1>2, <1>3, NatSetInduction
<1>5. PICK p : p = f[<<k, k + 1>>]
  OBVIOUS
<1>6. Good(p)
  <2> HIDE DEF Good
  <2>1. c + 1 \in Nat /\ k + 1 \in Nat /\ c - (k + 1) < c + 1 /\ k < k + 1
    OBVIOUS
  <2> QED BY <1>4, <1>5, <2>1
<1>7. p[1] \in Nat /\ p[2] \in Nat /\ p[1] < p[2] /\ (p[1] = 0 \/ At(t, p[1]) # Nil) /\ At(t, p[2]) = Nil
  BY <1>6
<1>8. IsBoundary(t, Between(t, p[1], p[2]))
  BY <1>7, BetweenIs
<1> QED BY <1>1, <1>5, <1>8

(* luaH_getn answers a boundary, and next finds where it stands.               *)
LEMMA InvAnswers ==
  IInv => Answers
<1> SUFFICES ASSUME IInv PROVE Boundary
  BY InvNextFinds DEF Answers
<1>1. PICK n \in Nat \ {0} : tab \in Table(n) /\ Sound(tab)
  BY DEF IInv, Sized
<1>2. PICK j : j = Len(tab.array)
  OBVIOUS
<1>3. j \in Nat
  BY <1>1, <1>2, TableParts
<1>4. GetN(tab) = IF j > 0 /\ At(tab, j) = Nil THEN Between(tab, 0, j)
                  ELSE IF tab.dummy THEN j ELSE Unbound(tab, j)
  BY <1>2 DEF GetN
<1>5. IsBoundary(tab, GetN(tab))
  <2>1. CASE j > 0 /\ At(tab, j) = Nil
    <3>1. GetN(tab) = Between(tab, 0, j)
      BY <1>4, <2>1
    <3>2. 0 \in Nat /\ 0 < j
      BY <2>1
    <3> QED BY <1>3, <2>1, <3>1, <3>2, BetweenIs
  <2>2. CASE ~(j > 0 /\ At(tab, j) = Nil) /\ tab.dummy
    <3>1. GetN(tab) = j
      BY <1>4, <2>2
    <3>2. At(tab, j + 1) = Nil
      <4>1. CASE j + 1 \in Ints
        <5>1. j + 1 \in Key /\ ~InArray(tab, j + 1)
          BY <1>2, <1>3, <4>1 DEF Key, InArray
        <5>2. Taken(tab) = {}
          BY <1>1, <2>2 DEF Sound, Room
        <5>3. Get(tab, j + 1) = Nil
          BY <1>1, <5>1, <5>2, GetNone
        <5> QED BY <5>3 DEF At
      <4>2. CASE j + 1 \notin Ints
        BY <4>2 DEF At
      <4> QED BY <4>1, <4>2
    <3>3. j = 0 \/ At(tab, j) # Nil
      BY <1>3, <2>2
    <3> QED BY <1>3, <3>1, <3>2, <3>3 DEF IsBoundary
  <2>3. CASE ~(j > 0 /\ At(tab, j) = Nil) /\ ~tab.dummy
    <3>1. GetN(tab) = Unbound(tab, j)
      BY <1>4, <2>3
    <3>2. j = 0 \/ At(tab, j) # Nil
      BY <1>3, <2>3
    <3>3. PICK c \in Nat : \A i \in Nat : i > c => At(tab, i) = Nil
      BY <1>1, IntsBounded
    <3> QED BY <1>3, <3>1, <3>2, <3>3, UnboundIs
  <2> QED BY <2>1, <2>2, <2>3
<1> QED BY <1>5 DEF IsBoundary, Boundary

(* A table answers what is asked of it: its length is a boundary               *)
(* (ltable.c:556), and next finds the key it stands at (ltable.c:156).         *)
THEOREM AnswersHold ==
  Spec => []Answers
<1> QED BY Invariant, InvAnswers, PTL

=============================================================================
