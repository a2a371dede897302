---------------------------- MODULE LuaGCProofs ----------------------------
(* Proofs about LuaGC, for every finite heap. *)
EXTENDS LuaGC, FiniteSetTheorems, WellFoundedInduction, TLAPS

-----------------------------------------------------------------------------
(* Induction, stated over sets. *)

(* A set of numbers that is not empty has a least one. *)
LEMMA NatMin ==
  ASSUME NEW S \in SUBSET Nat, S # {}
  PROVE  \E n \in S : \A m \in S : n <= m
<1> DEFINE R == {p \in Nat \X Nat : p[1] < p[2]}
<1>1. IsWellFoundedOn(R, Nat)
  BY NatLessThanWellFounded DEF OpToRel
<1>2. PICK n \in S : \A m \in S : <<m, n>> \notin R
  <2> HIDE DEF R
  <2> QED BY <1>1, WFMin
<1>3. \A m \in S : ~(m < n)
  BY <1>2
<1> QED
  BY <1>3

(* A set with 0 and every successor has every number. *)
LEMMA NatSetInduction ==
  ASSUME NEW S, 0 \in S, \A n \in Nat : n \in S => n + 1 \in S
  PROVE  Nat \subseteq S
<1> SUFFICES ASSUME Nat \ S # {} PROVE FALSE
  OBVIOUS
<1>1. PICK n \in Nat \ S : \A m \in Nat \ S : n <= m
  BY NatMin
<1> QED
  BY <1>1, n - 1 \in Nat

(* Among subsets of a finite set one is contained in no other. *)
LEMMA LargestSubset ==
  ASSUME NEW U, IsFiniteSet(U), NEW X \in SUBSET (SUBSET U), X # {}
  PROVE  \E T \in X : \A V \in X : T \subseteq V => V = T
<1> DEFINE Y == {U \ T : T \in X}
<1>1. IsWellFoundedOn(StrictSubsetOrdering(U), SUBSET U)
  BY FS_StrictSubsetOrderingWellFounded, FS_FiniteSubsetsOfFinite
<1>2. Y \subseteq SUBSET U
  OBVIOUS
<1>3. Y # {}
  <2>1. PICK T : T \in X
    OBVIOUS
  <2>2. U \ T \in Y
    BY <2>1
  <2> QED BY <2>2
<1>4. PICK m \in Y : \A V \in Y : <<V, m>> \notin StrictSubsetOrdering(U)
  <2> HIDE DEF Y
  <2> QED BY <1>1, <1>2, <1>3, WFMin
<1>5. PICK T \in X : m = U \ T
  BY <1>4
<1>6. ASSUME NEW V \in X, T \subseteq V PROVE V = T
  <2>1. U \ V \in Y
    OBVIOUS
  <2>2. <<U \ V, U \ T>> \notin StrictSubsetOrdering(U)
    BY <2>1, <1>4, <1>5
  <2> QED
    BY <2>2, <1>6 DEF StrictSubsetOrdering
<1> QED
  BY <1>6

-----------------------------------------------------------------------------
(* The heap, and what an object refers to. *)

Colors == White \cup {"gray", "black"}
Listable == Tables \cup Closures \cup Threads
MarksType == [color : [Obj -> Colors], key : [Tables -> Values],
              gray : SUBSET Obj, again : SUBSET Obj, weak : SUBSET Obj]

HeapOK ==
  /\ alloc \subseteq Obj
  /\ key \in [Tables -> Values] /\ mode \in [Tables -> Modes]
  /\ val \in [Tables \cup Udata \cup Closures \cup Upvals -> Obj \cup {None}]
  /\ \A o \in Tables \cup Upvals : val[o] \in Values
  /\ \A o \in Udata : val[o] \in Tables \cup {None}
  /\ \A o \in Closures : val[o] \in Upvals \cup {None}
  /\ stack \in [Threads -> [Slots -> Values]]
  /\ open \in [Upvals -> (Threads \X Slots) \cup {None}]
  /\ running \in Seq(Threads) /\ Len(running) > 0 /\ running[1] = mainthread

AllRefs(o) == StrongRefs(o) \cup WeakRefs(o)
Stays(S) == \A o \in S : AllRefs(o) \subseteq S

(* An upvalue never has an upvalue as its value. *)
LEMMA UpvalValues ==
  ASSUME HeapOK, NEW u \in Upvals
  PROVE  UpvalValue(u) \in Values
BY DEF HeapOK, UpvalValue

(* What each kind of object refers to. *)
LEMMA RefsOfUpval ==
  ASSUME NEW u \in Upvals
  PROVE  StrongRefs(u) = {UpvalValue(u)} \ {None} /\ WeakRefs(u) = {}
BY KindAssumption DEF StrongRefs, WeakRefs

(* A udata refers to its environment, a closure to its upvalue. *)
LEMMA RefsOfUdata ==
  ASSUME NEW u \in Udata \cup Closures
  PROVE  StrongRefs(u) = {val[u]} \ {None} /\ WeakRefs(u) = {}
BY KindAssumption DEF StrongRefs, WeakRefs

(* A string refers to nothing. *)
LEMMA RefsOfString ==
  ASSUME NEW u \in Strings
  PROVE  StrongRefs(u) = {} /\ WeakRefs(u) = {}
BY KindAssumption DEF StrongRefs, WeakRefs

(* A thread refers to its stack and the coroutine it resumed. *)
LEMMA RefsOfThread ==
  ASSUME NEW h \in Threads
  PROVE  StrongRefs(h) = OfThread(h) \ {None} /\ WeakRefs(h) = {}
BY KindAssumption DEF StrongRefs, WeakRefs

(* A table refers to its entry, through its weak half weakly. *)
LEMMA RefsOfTable ==
  ASSUME NEW t \in Tables
  PROVE  /\ AllRefs(t) = WeakRefs(t)
         /\ StrongRefs(t) \subseteq WeakRefs(t)
         /\ WeakRefs(t) = IF val[t] = None THEN {} ELSE {key[t], val[t]} \ {None}
         /\ mode[t] = {} => StrongRefs(t) = WeakRefs(t)
BY KindAssumption DEF StrongRefs, WeakRefs, AllRefs
-----------------------------------------------------------------------------
(* Marking. *)

Marked(m) == {o \in Obj : m.color[o] \notin White}

(* A mark hits what is white, and all that is white of what it is given. *)
LEMMA HitWhite ==
  ASSUME HeapOK, NEW m \in MarksType, NEW S \in SUBSET (Obj \cup {None})
  PROVE  /\ Hit(m, S) \subseteq Obj \ Marked(m)
         /\ S \ {None} \subseteq Marked(m) \cup Hit(m, S)
<1>1. \A u \in Upvals : UpvalValue(u) \in Obj \cup {None}
  BY UpvalValues DEF Values
<1>2. \A u \in Udata : val[u] \in Obj \cup {None}
  BY DEF HeapOK, Obj
<1> QED
  BY <1>1, <1>2 DEF Hit, WhiteOf, Marked

(* A hit upvalue has passed the mark to its value, a udata to its environment. *)
LEMMA HitPasses ==
  ASSUME HeapOK, NEW m \in MarksType, NEW S \in SUBSET (Obj \cup {None})
  PROVE  /\ \A u \in Hit(m, S) \cap Upvals : UpvalValue(u) \in {None} \cup Marked(m) \cup Hit(m, S)
         /\ \A u \in Hit(m, S) \cap Udata : val[u] \in {None} \cup Marked(m) \cup Hit(m, S)
<1> DEFINE one == WhiteOf(m, S)
           two == one \cup WhiteOf(m, {UpvalValue(u) : u \in one \cap Upvals})
           env == WhiteOf(m, {val[u] : u \in two \cap Udata})
<1>1. Hit(m, S) = two \cup env
  BY DEF Hit
<1>2. \A u \in Upvals : UpvalValue(u) \in Obj \cup {None} /\ UpvalValue(u) \notin Upvals
  BY UpvalValues, ObjAssumption, KindAssumption DEF Values, Obj
<1>3. \A u \in Udata : val[u] \in Tables \cup {None}
  BY DEF HeapOK
<1>4. \A u \in two \cap Upvals : u \in one
  BY <1>2 DEF WhiteOf
<1>5. \A u \in env : u \in Tables
  BY <1>3 DEF WhiteOf
<1>6. \A u \in Hit(m, S) \cap Upvals : u \in one
  BY <1>1, <1>4, <1>5, KindAssumption
<1>7. \A u \in Hit(m, S) \cap Udata : u \in two
  BY <1>1, <1>5, KindAssumption
<1>8. \A o \in Obj : o # None /\ (o \in Marked(m) \/ m.color[o] \in White)
  BY ObjAssumption DEF Marked
<1>9. ASSUME NEW u \in one, u \in Upvals PROVE UpvalValue(u) \in {None} \cup Marked(m) \cup two
  BY <1>2, <1>8, <1>9 DEF WhiteOf
<1>10. ASSUME NEW u \in two, u \in Udata PROVE val[u] \in {None} \cup Marked(m) \cup env
  <2>1. val[u] = None \/ val[u] \in Obj
    BY <1>3, <1>10 DEF Obj
  <2> QED
    BY <2>1, <1>8, <1>10 DEF WhiteOf
<1> HIDE DEF one, two, env
<1>11. \A u \in Hit(m, S) \cap Upvals : UpvalValue(u) \in {None} \cup Marked(m) \cup Hit(m, S)
  BY <1>1, <1>6, <1>9
<1>12. \A u \in Hit(m, S) \cap Udata : val[u] \in {None} \cup Marked(m) \cup Hit(m, S)
  BY <1>1, <1>7, <1>10
<1> QED
  BY <1>11, <1>12

(* Marks stay among objects that refer to nothing else. *)
LEMMA HitStays ==
  ASSUME HeapOK, NEW m \in MarksType, NEW A \in SUBSET Obj, Stays(A), NEW S \in SUBSET (A \cup {None})
  PROVE  Hit(m, S) \subseteq A
<1> DEFINE one == WhiteOf(m, S)
           two == one \cup WhiteOf(m, {UpvalValue(u) : u \in one \cap Upvals})
           env == WhiteOf(m, {val[u] : u \in two \cap Udata})
<1>1. Hit(m, S) = two \cup env
  BY DEF Hit
<1>2. one \subseteq A
  BY DEF WhiteOf
<1>3. \A u \in A \cap Upvals : UpvalValue(u) \in A \cup {None}
  BY RefsOfUpval DEF Stays, AllRefs
<1>4. \A u \in A \cap Udata : val[u] \in A \cup {None}
  BY RefsOfUdata DEF Stays, AllRefs
<1>5. two \subseteq A
  BY <1>2, <1>3 DEF WhiteOf
<1>6. env \subseteq A
  <2> HIDE DEF two
  <2> QED BY <1>5, <1>4 DEF WhiteOf
<1> QED
  BY <1>1, <1>5, <1>6

AtOnce(o) == o \in Udata \/ (o \in Upvals /\ open[o] = None)

(* What marking does to the record: colours of what is hit, the list gray. *)
LEMMA MarkAllSets ==
  ASSUME HeapOK, NEW m \in MarksType, NEW S \in SUBSET (Obj \cup {None})
  PROVE  LET r == MarkAll(m, S)
         IN  /\ r \in MarksType /\ r.key = m.key /\ r.again = m.again /\ r.weak = m.weak
             /\ r.gray = m.gray \cup (Hit(m, S) \cap Listable)
             /\ \A o \in Obj : r.color[o] = IF o \notin Hit(m, S) THEN m.color[o]
                                            ELSE IF AtOnce(o) THEN "black" ELSE "gray"
             /\ Marked(r) = Marked(m) \cup Hit(m, S)
<1> DEFINE r == MarkAll(m, S)
           hit == Hit(m, S)
           colors == [o \in Obj |-> IF o \notin hit THEN m.color[o]
                         ELSE IF o \in Udata \cup {u \in Upvals : open[u] = None}
                         THEN "black" ELSE "gray"]
<1>1. r = [m EXCEPT !.color = colors, !.gray = @ \cup (hit \cap Listable)]
  BY DEF MarkAll, Listable
<1>2. hit \subseteq Obj \ Marked(m)
  BY HitWhite
<1>3. colors \in [Obj -> Colors]
  BY DEF Colors, MarksType
<1> HIDE DEF r, hit, colors
<1>4. /\ r \in MarksType /\ r.key = m.key /\ r.again = m.again /\ r.weak = m.weak
      /\ r.gray = m.gray \cup (hit \cap Listable) /\ r.color = colors
  BY <1>1, <1>2, <1>3 DEF MarksType
<1>5. \A o \in Obj : r.color[o] = IF o \notin hit THEN m.color[o] ELSE IF AtOnce(o) THEN "black" ELSE "gray"
  BY <1>4 DEF colors, AtOnce
<1>6. Marked(r) = Marked(m) \cup hit
  BY <1>5, <1>2 DEF Marked, White
<1> QED
  BY <1>4, <1>5, <1>6 DEF r, hit

-----------------------------------------------------------------------------
(* The collector's books while it marks. *)

Listed(m) == m.gray \cup m.again \cup m.weak

(* What is listed is gray, on one list only; what is gray and not listed is a *)
(* string or an open upvalue. *)
Books(m) ==
  /\ Listed(m) \subseteq alloc \cap Listable
  /\ m.weak \subseteq Tables
  /\ m.gray \cap m.again = {} /\ m.gray \cap m.weak = {} /\ m.again \cap m.weak = {}
  /\ \A o \in alloc : m.color[o] = "gray" => o \in Listed(m) \cup Strings \cup Upvals
  /\ \A o \in Listed(m) : m.color[o] = "gray"
  /\ \A h \in alloc \cap Threads : m.color[h] # "black"
  /\ \A u \in alloc \cap Upvals : m.color[u] = "gray" => open[u] # None
  /\ \A u \in Upvals : open[u] # None => m.color[u] # "black"

\* No key is lost but that of an entry without a value.
Keys(m) == \A t \in Tables : m.key[t] = key[t] \/ (val[t] = None /\ m.key[t] = None)

(* What is marked and neither listed nor in P has passed its mark on. *)
Done(m, P) == \A o \in (alloc \cap Marked(m)) \ (m.gray \cup P) : StrongRefs(o) \subseteq Marked(m)

(* What is black and not in X refers to nothing white, weakly either. *)
Tri(m, X) == \A o \in alloc \ X : m.color[o] = "black" => AllRefs(o) \subseteq Marked(m)

Good(m) == m \in MarksType /\ Books(m) /\ Keys(m)

(* Marking keeps the books. *)
LEMMA MarkAllBooks ==
  ASSUME HeapOK, Stays(alloc), NEW m, Good(m), NEW S \in SUBSET (alloc \cup {None})
  PROVE  Good(MarkAll(m, S))
<1> DEFINE r == MarkAll(m, S)
           hit == Hit(m, S)
<1>1. m \in MarksType /\ S \subseteq Obj \cup {None} /\ alloc \subseteq Obj
  BY DEF Good, HeapOK
<1>2. /\ r \in MarksType /\ r.key = m.key /\ r.again = m.again /\ r.weak = m.weak
      /\ r.gray = m.gray \cup (hit \cap Listable)
      /\ \A o \in Obj : r.color[o] = IF o \notin hit THEN m.color[o] ELSE IF AtOnce(o) THEN "black" ELSE "gray"
  BY <1>1, MarkAllSets
<1>3. hit \subseteq alloc /\ \A o \in hit : m.color[o] \in White
  BY <1>1, HitStays, HitWhite DEF Marked
<1>4. \A o \in Listed(m) : o \notin hit
  BY <1>3 DEF Good, Books, White
<1> HIDE DEF r, hit
<1>5. \A o \in Listable : ~AtOnce(o)
  BY KindAssumption DEF Listable, AtOnce
<1>6. Listed(r) = Listed(m) \cup (hit \cap Listable)
  BY <1>2 DEF Listed
<1>7. Listed(r) \subseteq alloc \cap Listable /\ r.weak \subseteq Tables
  BY <1>2, <1>3, <1>6 DEF Good, Books
<1>8. r.gray \cap r.again = {} /\ r.gray \cap r.weak = {} /\ r.again \cap r.weak = {}
  BY <1>2, <1>4 DEF Good, Books, Listed
<1>9. ASSUME NEW o \in alloc, r.color[o] = "gray" PROVE o \in Listed(r) \cup Strings \cup Upvals
  <2>1. CASE o \in hit
    <3>1. ~AtOnce(o) /\ o \in Obj
      BY <1>1, <1>2, <1>9, <2>1
    <3>2. o \in Listable \cup Strings \cup Upvals
      BY <3>1 DEF AtOnce, Obj, Listable
    <3> QED BY <3>2, <1>6, <2>1
  <2>2. CASE o \notin hit
    BY <2>2, <1>1, <1>2, <1>6, <1>9 DEF Good, Books
  <2> QED BY <2>1, <2>2
<1>10. \A o \in Listed(r) : r.color[o] = "gray"
  BY <1>1, <1>2, <1>4, <1>5, <1>6, <1>7 DEF Good, Books
<1>11. \A h \in alloc \cap Threads : r.color[h] # "black"
  BY <1>1, <1>2, <1>5 DEF Good, Books, Listable
<1>12. \A u \in alloc \cap Upvals : r.color[u] = "gray" => open[u] # None
  BY <1>1, <1>2 DEF Good, Books, AtOnce
<1>13. Keys(r)
  BY <1>2 DEF Good, Keys
<1>14. \A u \in Upvals : open[u] # None => r.color[u] # "black"
  <2>1. \A u \in Upvals : u \in Obj /\ u \notin Udata
    BY KindAssumption DEF Obj
  <2> QED BY <2>1, <1>2 DEF Good, Books, AtOnce
<1> QED
  BY <1>2, <1>7, <1>8, <1>9, <1>10, <1>11, <1>12, <1>13, <1>14 DEF Good, Books, r

(* Marking neither unmarks nor leaves black objects with white references. *)
LEMMA MarkAllKeeps ==
  ASSUME HeapOK, Stays(alloc), NEW m, Good(m), NEW S \in SUBSET (alloc \cup {None}), NEW P, NEW X
  PROVE  /\ Done(m, P) => Done(MarkAll(m, S), P)
         /\ Tri(m, X) => Tri(MarkAll(m, S), X)
<1> DEFINE r == MarkAll(m, S)
           hit == Hit(m, S)
<1>1. m \in MarksType /\ S \subseteq Obj \cup {None} /\ alloc \subseteq Obj
  BY DEF Good, HeapOK
<1>2. /\ r.gray = m.gray \cup (hit \cap Listable)
      /\ \A o \in Obj : r.color[o] = IF o \notin hit THEN m.color[o] ELSE IF AtOnce(o) THEN "black" ELSE "gray"
      /\ Marked(r) = Marked(m) \cup hit
  BY <1>1, MarkAllSets
<1>3. /\ hit \subseteq Obj
      /\ \A u \in hit \cap Upvals : UpvalValue(u) \in {None} \cup Marked(r)
      /\ \A u \in hit \cap Udata : val[u] \in {None} \cup Marked(r)
  BY <1>1, <1>2, HitPasses, HitWhite
<1>4. ASSUME NEW o \in hit, o \notin Listable PROVE AllRefs(o) \subseteq Marked(r)
  <2>1. CASE o \in Upvals
    BY <2>1, <1>3, <1>4, RefsOfUpval DEF AllRefs
  <2>2. CASE o \in Udata
    BY <2>2, <1>3, <1>4, RefsOfUdata DEF AllRefs
  <2>3. CASE o \in Strings
    BY <2>3, RefsOfString DEF AllRefs
  <2> QED BY <1>3, <1>4, <2>1, <2>2, <2>3 DEF Obj, Listable
<1> HIDE DEF r, hit
<1>5. ASSUME Done(m, P), NEW o \in (alloc \cap Marked(r)) \ (r.gray \cup P) PROVE StrongRefs(o) \subseteq Marked(r)
  <2>1. CASE o \in hit
    <3>1. o \notin Listable
      BY <2>1, <1>2, <1>5
    <3> QED BY <3>1, <2>1, <1>4 DEF AllRefs
  <2>2. CASE o \notin hit
    <3>1. o \in (alloc \cap Marked(m)) \ (m.gray \cup P)
      BY <2>2, <1>2, <1>5
    <3> QED BY <3>1, <1>2, <1>5 DEF Done
  <2> QED BY <2>1, <2>2
<1>6. ASSUME Tri(m, X), NEW o \in alloc \ X, r.color[o] = "black" PROVE AllRefs(o) \subseteq Marked(r)
  <2>1. CASE o \in hit
    <3>1. AtOnce(o)
      BY <2>1, <1>1, <1>2, <1>6
    <3>2. o \notin Listable
      BY <3>1, KindAssumption DEF AtOnce, Listable
    <3> QED BY <3>2, <2>1, <1>4
  <2>2. CASE o \notin hit
    <3>1. m.color[o] = "black"
      BY <2>2, <1>1, <1>2, <1>6
    <3> QED BY <3>1, <1>2, <1>6 DEF Tri
  <2> QED BY <2>1, <2>2
<1>7. Done(m, P) => Done(r, P)
  BY <1>5 DEF Done
<1>8. Tri(m, X) => Tri(r, X)
  BY <1>6 DEF Tri
<1> QED
  BY <1>7, <1>8 DEF r

(* propagatemark marks what its object refers to strongly. *)
LEMMA PassedRefs ==
  ASSUME HeapOK, Stays(alloc), NEW o \in alloc \cap Listable
  PROVE  Passed(o) \ {None} = StrongRefs(o) /\ Passed(o) \subseteq alloc \cup {None}
<1>1. Passed(o) \ {None} = StrongRefs(o)
  <2>1. CASE o \in Threads
    BY <2>1, RefsOfThread DEF Passed
  <2>2. CASE o \in Closures
    BY <2>2, RefsOfUdata, KindAssumption DEF Passed
  <2>3. CASE o \in Tables
    BY <2>3, KindAssumption DEF Passed, StrongRefs
  <2> QED BY <2>1, <2>2, <2>3 DEF Listable
<1> QED
  BY <1>1 DEF Stays, AllRefs

\* The books as Traverse leaves them, before what it passes on.
Left(m, o) ==
  LET n == [m EXCEPT !.gray = @ \ {o}, !.key = KeyLeft(m, o)]
  IN  IF o \in Threads THEN [n EXCEPT !.again = @ \cup {o}]
      ELSE IF o \in Tables /\ mode[o] # {} THEN [n EXCEPT !.weak = @ \cup {o}]
      ELSE [n EXCEPT !.color[o] = "black"]

(* propagatemark: the object leaves the list gray, then its references are *)
(* marked.                                                                 *)
LEMMA TraverseIs ==
  ASSUME NEW m, NEW o
  PROVE  Traverse(m, o) = MarkAll(Left(m, o), Passed(o))
BY DEF Traverse, Left

Blackens(o) == o \notin Threads /\ ~(o \in Tables /\ mode[o] # {})

(* What leaving the list gray does to the record. *)
LEMMA LeftSets ==
  ASSUME HeapOK, NEW m, Good(m), NEW o \in m.gray
  PROVE  LET n == Left(m, o)
         IN  /\ n \in MarksType /\ Keys(n) /\ n.gray = m.gray \ {o}
             /\ n.again = IF o \in Threads THEN m.again \cup {o} ELSE m.again
             /\ n.weak = IF o \in Tables /\ mode[o] # {} THEN m.weak \cup {o} ELSE m.weak
             /\ \A p \in Obj : n.color[p] = IF p = o /\ Blackens(o) THEN "black" ELSE m.color[p]
<1>1. m \in MarksType /\ o \in Obj /\ Keys(m) /\ (o \in Tables => o \notin Threads)
  BY KindAssumption DEF Good, MarksType
<1>2. KeyLeft(m, o) \in [Tables -> Values] /\ \A t \in Tables :
        KeyLeft(m, o)[t] = key[t] \/ (val[t] = None /\ KeyLeft(m, o)[t] = None)
  BY <1>1 DEF KeyLeft, MarksType, Keys, Values
<1> HIDE DEF KeyLeft
<1>3. CASE o \in Threads
  BY <1>1, <1>2, <1>3 DEF Left, MarksType, Keys, Blackens
<1>4. CASE o \in Tables /\ mode[o] # {}
  BY <1>1, <1>2, <1>4 DEF Left, MarksType, Keys, Blackens
<1>5. CASE o \notin Threads /\ ~(o \in Tables /\ mode[o] # {})
  <2> DEFINE n == [m EXCEPT !.gray = @ \ {o}, !.key = KeyLeft(m, o), !.color = [@ EXCEPT ![o] = "black"]]
  <2>1. Left(m, o) = n
    BY <1>1, <1>5 DEF Left, MarksType
  <2>2. n \in MarksType /\ n.gray = m.gray \ {o} /\ n.again = m.again /\ n.weak = m.weak
        /\ n.key = KeyLeft(m, o) /\ n.color = [m.color EXCEPT ![o] = "black"]
    BY <1>1, <1>2 DEF MarksType, Colors
  <2>3. \A p \in Obj : n.color[p] = IF p = o THEN "black" ELSE m.color[p]
    BY <2>2, <1>1 DEF MarksType
  <2> HIDE DEF n
  <2> QED BY <2>1, <2>2, <2>3, <1>2, <1>5 DEF Keys, Blackens
<1> QED
  BY <1>1, <1>3, <1>4, <1>5

(* An object that leaves the list gray keeps the books. *)
LEMMA LeftBooks ==
  ASSUME HeapOK, NEW m, Good(m), NEW o \in m.gray, NEW P, NEW X
  PROVE  LET n == Left(m, o)
         IN  /\ Good(n) /\ Marked(n) = Marked(m)
             /\ Done(m, P) => Done(n, P \cup {o})
             /\ Tri(m, X) => Tri(n, X \cup {o})
<1> DEFINE n == Left(m, o)
<1>1. /\ n \in MarksType /\ Keys(n) /\ n.gray = m.gray \ {o}
      /\ n.again = IF o \in Threads THEN m.again \cup {o} ELSE m.again
      /\ n.weak = IF o \in Tables /\ mode[o] # {} THEN m.weak \cup {o} ELSE m.weak
      /\ \A p \in Obj : n.color[p] = IF p = o /\ Blackens(o) THEN "black" ELSE m.color[p]
  BY LeftSets
<1>2. /\ o \in alloc \cap Listable /\ m.color[o] = "gray" /\ o \notin m.again /\ o \notin m.weak
      /\ alloc \subseteq Obj /\ o \in Obj
  BY DEF Good, Books, Listed, HeapOK
<1>3. o \in Tables => o \notin Threads
  BY KindAssumption
<1> HIDE DEF n
<1>4. Marked(n) = Marked(m)
  BY <1>1, <1>2 DEF Marked, White
<1>5. Listed(n) \subseteq Listed(m) /\ (~Blackens(o) => o \in Listed(n))
      /\ \A p \in Listed(m) : p # o => p \in Listed(n)
  BY <1>1, <1>2 DEF Listed, Blackens
<1>6. n.gray \cap n.again = {} /\ n.gray \cap n.weak = {} /\ n.again \cap n.weak = {}
  BY <1>1, <1>2, <1>3 DEF Good, Books
<1>7. Blackens(o) => o \notin Listed(n)
  BY <1>1, <1>2 DEF Listed, Blackens
<1>8. Books(n)
  <2>1. Listed(n) \subseteq alloc \cap Listable /\ n.weak \subseteq Tables
    BY <1>1, <1>5 DEF Good, Books
  <2>2. \A p \in alloc : n.color[p] = "gray" => p \in Listed(n) \cup Strings \cup Upvals
    BY <1>1, <1>2, <1>5 DEF Good, Books
  <2>3. \A p \in Listed(n) : n.color[p] = "gray"
    BY <1>1, <1>2, <1>5, <1>7, <2>1 DEF Good, Books
  <2>4. \A h \in alloc \cap Threads : n.color[h] # "black"
    BY <1>1, <1>2 DEF Good, Books, Blackens
  <2>5. \A u \in alloc \cap Upvals : n.color[u] = "gray" => open[u] # None
    BY <1>1, <1>2 DEF Good, Books
  <2>6. \A u \in Upvals : u \in Obj /\ u # o
    BY <1>2, KindAssumption DEF Obj, Listable
  <2>7. \A u \in Upvals : open[u] # None => n.color[u] # "black"
    BY <1>1, <2>6 DEF Good, Books
  <2> QED BY <1>6, <2>1, <2>2, <2>3, <2>4, <2>5, <2>7 DEF Books
<1>9. Done(m, P) => Done(n, P \cup {o})
  BY <1>1, <1>4 DEF Done
<1>10. Tri(m, X) => Tri(n, X \cup {o})
  BY <1>1, <1>2, <1>4 DEF Tri
<1> QED
  BY <1>1, <1>4, <1>8, <1>9, <1>10 DEF Good, n

(* Marking goes on from m to r: nothing marked is forgotten, or off its list, *)
(* no white changed, and no weak table blackened. *)
Ext(m, r) ==
  /\ Marked(m) \subseteq Marked(r)
  /\ \A o \in Obj : r.color[o] \in White => r.color[o] = m.color[o]
  /\ m.again \subseteq r.again /\ r.again \subseteq m.again \cup Threads
  /\ m.weak \subseteq r.weak
  /\ \A t \in Tables : mode[t] # {} /\ r.color[t] = "black" => m.color[t] = "black"

\* What is to be traversed still, or may be.
Todo(m) == {p \in Listable : p \in m.gray \/ p \notin Marked(m)}

(* Marking only adds to what is marked. *)
LEMMA MarkAllExt ==
  ASSUME HeapOK, NEW m \in MarksType, NEW S \in SUBSET (Obj \cup {None})
  PROVE  Ext(m, MarkAll(m, S)) /\ Todo(MarkAll(m, S)) \subseteq Todo(m) /\ S \ {None} \subseteq Marked(MarkAll(m, S))
<1> DEFINE r == MarkAll(m, S)
<1>1. /\ r.again = m.again /\ r.weak = m.weak
      /\ r.gray = m.gray \cup (Hit(m, S) \cap Listable)
      /\ \A o \in Obj : r.color[o] = IF o \notin Hit(m, S) THEN m.color[o] ELSE IF AtOnce(o) THEN "black" ELSE "gray"
      /\ Marked(r) = Marked(m) \cup Hit(m, S)
  BY MarkAllSets
<1>2. Hit(m, S) \subseteq Obj \ Marked(m) /\ S \ {None} \subseteq Marked(m) \cup Hit(m, S)
  BY HitWhite
<1>3. \A t \in Tables : t \in Obj /\ ~AtOnce(t)
  BY KindAssumption DEF AtOnce, Obj
<1> HIDE DEF r
<1>4. Ext(m, r)
  BY <1>1, <1>3 DEF Ext, White
<1>5. Todo(r) \subseteq Todo(m)
  BY <1>1, <1>2 DEF Todo
<1> QED
  BY <1>1, <1>2, <1>4, <1>5 DEF r

(* Adding to what is marked, twice. *)
LEMMA ExtTransitive ==
  ASSUME NEW m, NEW n, NEW r, Ext(m, n), Ext(n, r)
  PROVE  Ext(m, r)
BY DEF Ext

(* One propagatemark keeps the books and the colours, and there is less to *)
(* do.                                                                     *)
LEMMA TraverseKeeps ==
  ASSUME HeapOK, Stays(alloc), NEW m, Good(m), NEW o \in m.gray, NEW P, NEW X
  PROVE  LET r == Traverse(m, o)
         IN  /\ Good(r) /\ Ext(m, r) /\ o \in Todo(m) /\ Todo(r) \subseteq Todo(m) \ {o}
             /\ Done(m, P) => Done(r, P)
             /\ Tri(m, X) => Tri(r, X)
<1> DEFINE n == Left(m, o)
           r == MarkAll(n, Passed(o))
<1>1. Traverse(m, o) = r
  BY TraverseIs
<1>2. /\ o \in alloc \cap Listable /\ m.color[o] = "gray" /\ o \notin m.again /\ o \notin m.weak
      /\ alloc \subseteq Obj /\ o \in Obj
  BY DEF Good, Books, Listed, HeapOK
<1>3. /\ n \in MarksType /\ Keys(n) /\ n.gray = m.gray \ {o}
      /\ n.again = IF o \in Threads THEN m.again \cup {o} ELSE m.again
      /\ n.weak = IF o \in Tables /\ mode[o] # {} THEN m.weak \cup {o} ELSE m.weak
      /\ \A p \in Obj : n.color[p] = IF p = o /\ Blackens(o) THEN "black" ELSE m.color[p]
  BY LeftSets
<1>4. Good(n) /\ Marked(n) = Marked(m) /\ (Done(m, P) => Done(n, P \cup {o})) /\ (Tri(m, X) => Tri(n, X \cup {o}))
  BY LeftBooks
<1>5. Passed(o) \ {None} = StrongRefs(o) /\ Passed(o) \subseteq alloc \cup {None} /\ Passed(o) \subseteq Obj \cup {None}
  BY <1>2, PassedRefs
<1> HIDE DEF n
<1>6. Good(r) /\ (Done(n, P \cup {o}) => Done(r, P \cup {o})) /\ (Tri(n, X \cup {o}) => Tri(r, X \cup {o}))
  BY <1>4, <1>5, MarkAllBooks, MarkAllKeeps
<1>7. Ext(n, r) /\ Todo(r) \subseteq Todo(n) /\ StrongRefs(o) \subseteq Marked(r)
  BY <1>3, <1>5, MarkAllExt
<1>8. /\ r.gray = n.gray \cup (Hit(n, Passed(o)) \cap Listable)
      /\ \A p \in Obj : r.color[p] = IF p \notin Hit(n, Passed(o)) THEN n.color[p] ELSE IF AtOnce(p) THEN "black" ELSE "gray"
  BY <1>3, <1>5, MarkAllSets
<1>9. o \notin Hit(n, Passed(o))
  <2>1. o \in Marked(m)
    BY <1>2 DEF Marked, White
  <2> QED BY <2>1, <1>3, <1>4, <1>5, HitWhite
<1> HIDE DEF r
<1>10. Ext(m, n)
  <2>1. \A t \in Tables : mode[t] # {} /\ n.color[t] = "black" => m.color[t] = "black"
    BY <1>3 DEF Blackens, Obj
  <2>2. \A p \in Obj : n.color[p] \in White => n.color[p] = m.color[p]
    BY <1>3 DEF White
  <2> QED BY <2>1, <2>2, <1>3, <1>4 DEF Ext
<1>11. Ext(m, r)
  BY <1>7, <1>10, ExtTransitive
<1>12. o \in Todo(m) /\ Todo(r) \subseteq Todo(m) \ {o}
  <2>1. o \in Todo(m)
    BY <1>2 DEF Todo
  <2>2. Todo(n) \subseteq Todo(m)
    BY <1>3, <1>4 DEF Todo
  <2>3. o \in Marked(r) /\ o \notin r.gray
    <3>1. o \in Marked(m)
      BY <1>2 DEF Marked, White
    <3> QED BY <3>1, <1>3, <1>8, <1>9, <1>11 DEF Ext
  <2> QED BY <2>1, <2>2, <2>3, <1>7 DEF Todo
<1>13. Done(m, P) => Done(r, P)
  <2> SUFFICES ASSUME Done(r, P \cup {o}) PROVE Done(r, P)
    BY <1>4, <1>6
  <2> QED BY <1>7 DEF Done
<1>14. Tri(m, X) => Tri(r, X)
  <2> SUFFICES ASSUME Tri(r, X \cup {o}) PROVE Tri(r, X)
    BY <1>4, <1>6
  <2>1. ASSUME r.color[o] = "black" PROVE AllRefs(o) \subseteq Marked(r)
    <3>1. Blackens(o)
      BY <1>2, <1>3, <1>8, <1>9, <2>1
    <3>2. CASE o \in Tables
      <4>1. AllRefs(o) = StrongRefs(o)
        BY <3>1, <3>2, RefsOfTable DEF Blackens
      <4> QED BY <4>1, <1>7
    <3>3. CASE o \in Closures
      BY <3>3, <1>7, RefsOfUdata DEF AllRefs
    <3> QED BY <1>2, <3>1, <3>2, <3>3 DEF Blackens, Listable
  <2> QED BY <2>1 DEF Tri
<1> QED
  BY <1>1, <1>6, <1>11, <1>12, <1>13, <1>14

(* The recursive function of propagateall exists, for any number of steps. *)
LEMMA StepsExist ==
  ASSUME NEW m, NEW k \in Nat
  PROVE  \E f : f = [n \in 0 .. k |-> IF n = 0 THEN m ELSE PropagateOne(f[n - 1])]
<1> DEFINE Is(f, j) == f = [n \in 0 .. j |-> IF n = 0 THEN m ELSE PropagateOne(f[n - 1])]
           S == {j \in Nat : \E f : Is(f, j)}
<1>1. 0 \in S
  <2> DEFINE f == [n \in 0 .. 0 |-> m]
  <2>1. Is(f, 0)
    OBVIOUS
  <2> QED BY <2>1
<1>2. ASSUME NEW j \in Nat, j \in S PROVE j + 1 \in S
  <2>1. PICK f : Is(f, j)
    BY <1>2
  <2> DEFINE g == [n \in 0 .. j + 1 |-> IF n = 0 THEN m ELSE PropagateOne(f[n - 1])]
  <2>2. \A n \in 0 .. j : f[n] = IF n = 0 THEN m ELSE PropagateOne(f[n - 1])
    BY <2>1
  <2>3. \A n \in 0 .. j + 1 : n # 0 => n - 1 \in 0 .. j
    OBVIOUS
  <2>4. \A n \in 0 .. j : n \in 0 .. j + 1
    OBVIOUS
  <2>5. \A n \in 0 .. j : g[n] = f[n]
    BY <2>2, <2>4
  <2>6. Is(g, j + 1)
    <3> SUFFICES g = [n \in 0 .. j + 1 |-> IF n = 0 THEN m ELSE PropagateOne(g[n - 1])]
      OBVIOUS
    <3> QED BY <2>3, <2>5
  <2>7. j + 1 \in Nat
    OBVIOUS
  <2> HIDE DEF g, Is
  <2> QED BY <2>6, <2>7
<1> HIDE DEF S
<1>3. Nat \subseteq S
  BY <1>1, <1>2, NatSetInduction
<1> QED
  BY <1>3 DEF S

(* The value of propagateall, step by step. *)
LEMMA PropagateSteps ==
  ASSUME NEW m
  PROVE  \E f : /\ f[0] = m /\ PropagateAll(m) = f[Cardinality(Obj)]
               /\ \A n \in 1 .. Cardinality(Obj) : f[n] = PropagateOne(f[n - 1])
<1> DEFINE K == Cardinality(Obj)
           step == CHOOSE f : f = [n \in 0 .. K |-> IF n = 0 THEN m ELSE PropagateOne(f[n - 1])]
<1>1. K \in Nat
  BY FS_CardinalityType, KindAssumption
<1>2. step = [n \in 0 .. K |-> IF n = 0 THEN m ELSE PropagateOne(step[n - 1])]
  BY <1>1, StepsExist
<1>3. PropagateAll(m) = step[K]
  BY DEF PropagateAll
<1> HIDE DEF step, K
<1>4. step[0] = m /\ \A n \in 1 .. K : step[n] = PropagateOne(step[n - 1])
  BY <1>1, <1>2
<1> QED
  BY <1>3, <1>4 DEF K

(* One step of propagateall keeps the books and the colours, and there is *)
(* less to do.                                                            *)
LEMMA PropagateOneKeeps ==
  ASSUME HeapOK, Stays(alloc), NEW m, Good(m), m.gray # {}, NEW P, NEW X
  PROVE  LET r == PropagateOne(m)
         IN  /\ Good(r) /\ Ext(m, r)
             /\ Cardinality(Todo(r)) < Cardinality(Todo(m))
             /\ Done(m, P) => Done(r, P)
             /\ Tri(m, X) => Tri(r, X)
<1>1. PICK o \in m.gray : PropagateOne(m) = Traverse(m, o)
  BY DEF PropagateOne
<1>2. LET r == Traverse(m, o)
      IN  /\ Good(r) /\ Ext(m, r) /\ o \in Todo(m) /\ Todo(r) \subseteq Todo(m) \ {o}
          /\ Done(m, P) => Done(r, P)
          /\ Tri(m, X) => Tri(r, X)
  BY TraverseKeeps
<1> DEFINE A == Todo(m)
           B == Todo(Traverse(m, o))
<1>3. IsFiniteSet(A)
  <2>1. A \subseteq Obj
    BY DEF Todo, Listable, Obj
  <2> QED BY <2>1, FS_Subset, KindAssumption
<1>4. B \in SUBSET (A \ {o}) /\ o \in A
  BY <1>2
<1> HIDE DEF A, B
<1>5. IsFiniteSet(A \ {o}) /\ Cardinality(A \ {o}) = Cardinality(A) - 1
  BY <1>3, <1>4, FS_RemoveElement
<1>6. Cardinality(B) <= Cardinality(A \ {o})
  BY <1>4, <1>5, FS_Subset
<1>7. Cardinality(A) \in Nat /\ Cardinality(B) \in Nat
  BY <1>3, <1>4, <1>5, FS_CardinalityType, FS_Subset
<1>8. Cardinality(B) < Cardinality(A)
  BY <1>5, <1>6, <1>7
<1> QED
  BY <1>1, <1>2, <1>8 DEF A, B

(* propagateall leaves nothing listed, and all it marked has passed its mark on. *)
LEMMA PropagateAllKeeps ==
  ASSUME HeapOK, Stays(alloc), NEW m, Good(m), NEW P, NEW X, Done(m, P), Tri(m, X)
  PROVE  LET r == PropagateAll(m)
         IN  Good(r) /\ Ext(m, r) /\ Done(r, P) /\ Tri(r, X) /\ r.gray = {}
<1> DEFINE K == Cardinality(Obj)
<1>1. K \in Nat /\ IsFiniteSet(Obj)
  BY FS_CardinalityType, KindAssumption
<1>2. PICK f : f[0] = m /\ PropagateAll(m) = f[K] /\ \A n \in 1 .. K : f[n] = PropagateOne(f[n - 1])
  BY PropagateSteps
<1> DEFINE So(n) == /\ Good(f[n]) /\ Ext(m, f[n]) /\ Done(f[n], P) /\ Tri(f[n], X)
                    /\ f[n].gray = {} \/ Cardinality(Todo(f[n])) <= K - n
           S == {n \in Nat : n <= K => So(n)}
<1>3. \A r : Cardinality(Todo(r)) \in Nat /\ Cardinality(Todo(r)) <= K
  <2> TAKE r
  <2>1. Todo(r) \in SUBSET Obj
    BY DEF Todo, Listable, Obj
  <2> QED BY <2>1, <1>1, FS_Subset, FS_CardinalityType
<1>4. \A r : r.gray # {} /\ Good(r) => Cardinality(Todo(r)) > 0
  <2> SUFFICES ASSUME NEW r, r.gray # {}, Good(r) PROVE Cardinality(Todo(r)) # 0
    BY <1>3
  <2>1. Todo(r) # {}
    BY DEF Good, Books, Listed, Todo
  <2>2. Todo(r) \in SUBSET Obj
    BY DEF Todo, Listable, Obj
  <2> QED BY <2>1, <2>2, <1>1, FS_Subset, FS_EmptySet
<1> HIDE DEF K
<1>5. 0 \in S
  BY <1>1, <1>2, <1>3 DEF Ext
<1>6. ASSUME NEW n \in Nat, n \in S PROVE n + 1 \in S
  <2> SUFFICES ASSUME n + 1 <= K PROVE So(n + 1)
    OBVIOUS
  <2>1. n <= K /\ n + 1 \in 1 .. K /\ (n + 1) - 1 = n
    BY <1>1
  <2>2. f[n + 1] = PropagateOne(f[n])
    BY <1>2, <2>1
  <2>3. So(n)
    BY <1>6, <2>1
  <2> HIDE DEF S
  <2>4. CASE f[n].gray = {}
    <3>1. f[n + 1] = f[n]
      BY <2>2, <2>4 DEF PropagateOne
    <3> QED BY <3>1, <2>3, <2>4
  <2>5. CASE f[n].gray # {}
    <3> DEFINE r == f[n + 1]
    <3>1. /\ Good(r) /\ Ext(f[n], r) /\ Cardinality(Todo(r)) < Cardinality(Todo(f[n]))
          /\ Done(r, P) /\ Tri(r, X)
      BY <2>2, <2>3, <2>5, PropagateOneKeeps
    <3>2. Ext(m, r)
      BY <2>3, <3>1, ExtTransitive
    <3>3. Cardinality(Todo(r)) <= K - (n + 1)
      BY <1>1, <1>3, <2>3, <2>5, <3>1
    <3> QED BY <3>1, <3>2, <3>3
  <2> QED BY <2>4, <2>5
<1> HIDE DEF S
<1>7. K \in S
  BY <1>1, <1>5, <1>6, NatSetInduction
<1>8. So(K)
  BY <1>1, <1>7 DEF S
<1>9. f[K].gray = {}
  BY <1>1, <1>3, <1>4, <1>8
<1> QED
  BY <1>2, <1>8, <1>9
-----------------------------------------------------------------------------
(* What the program can come at. *)

Closed(C) == \A o \in C : StrongRefs(o) \subseteq C
More(T) == T \cup UNION {StrongRefs(o) : o \in T}
Least(T) == {o \in Obj : \A C \in SUBSET Obj : T \subseteq C /\ Closed(C) => o \in C}

(* References are objects. *)
LEMMA RefsAreObjects ==
  ASSUME HeapOK, NEW o \in Obj
  PROVE  AllRefs(o) \subseteq Obj /\ StrongRefs(o) \subseteq Obj
<1>1. CASE o \in Tables
  <2>1. val[o] \in Obj \cup {None} /\ key[o] \in Obj \cup {None}
    BY <1>1 DEF HeapOK, Values
  <2>2. WeakRefs(o) \subseteq Obj
    BY <1>1, <2>1, RefsOfTable
  <2> QED BY <1>1, <2>2, RefsOfTable
<1>2. CASE o \in Udata \cup Closures
  BY <1>2, RefsOfUdata DEF AllRefs, HeapOK, Obj
<1>3. CASE o \in Upvals
  BY <1>3, RefsOfUpval, UpvalValues DEF AllRefs, Values
<1>4. CASE o \in Strings
  BY <1>4, RefsOfString DEF AllRefs
<1>5. CASE o \in Threads
  <2>1. \A i \in 2 .. Len(running) : running[i] \in Obj
    BY DEF HeapOK, Obj
  <2>2. OfThread(o) \subseteq Obj \cup {None}
    BY <1>5, <2>1 DEF OfThread, Resumed, HeapOK, Values
  <2> QED BY <1>5, <2>2, RefsOfThread DEF AllRefs
<1> QED
  BY <1>1, <1>2, <1>3, <1>4, <1>5 DEF Obj, AllRefs

(* The recursive function of Reach exists. *)
LEMMA GrowExists ==
  ASSUME HeapOK
  PROVE  \E f : f = [T \in SUBSET Obj |-> IF More(T) = T THEN T ELSE f[More(T)]]
<1> DEFINE g == [T \in SUBSET Obj |-> Least(T)]
<1>1. ASSUME NEW T \in SUBSET Obj PROVE More(T) \in SUBSET Obj
  BY RefsAreObjects DEF More
<1>2. ASSUME NEW T \in SUBSET Obj PROVE Least(T) = IF More(T) = T THEN T ELSE Least(More(T))
  <2>1. CASE More(T) = T
    <3>1. Closed(T)
      BY <2>1 DEF More, Closed
    <3> QED BY <2>1, <3>1 DEF Least
  <2>2. \A C \in SUBSET Obj : Closed(C) => (T \subseteq C <=> More(T) \subseteq C)
    BY DEF More, Closed
  <2>3. Least(T) = Least(More(T))
    BY <2>2 DEF Least
  <2> QED BY <2>1, <2>3
<1>3. g = [T \in SUBSET Obj |-> IF More(T) = T THEN T ELSE g[More(T)]]
  BY <1>1, <1>2
<1> QED
  BY <1>3

(* Reach is the least set that has S and all its objects refer to strongly. *)
LEMMA ReachLeast ==
  ASSUME HeapOK, NEW S \in SUBSET Obj
  PROVE  /\ S \subseteq Reach(S) /\ Closed(Reach(S)) /\ Reach(S) \subseteq Obj
         /\ \A C \in SUBSET Obj : S \subseteq C /\ Closed(C) => Reach(S) \subseteq C
<1> DEFINE f == CHOOSE g : g = [T \in SUBSET Obj |-> IF More(T) = T THEN T ELSE g[More(T)]]
<1>1. Reach(S) = f[S]
  BY DEF Reach, More
<1>2. f = [T \in SUBSET Obj |-> IF More(T) = T THEN T ELSE f[More(T)]]
  BY GrowExists
<1> HIDE DEF f
<1> DEFINE Fine(T) == /\ T \subseteq f[T] /\ Closed(f[T]) /\ f[T] \subseteq Obj
                      /\ \A C \in SUBSET Obj : T \subseteq C /\ Closed(C) => f[T] \subseteq C
           Bad == {T \in SUBSET Obj : ~Fine(T)}
<1>3. Bad = {}
  <2> SUFFICES ASSUME Bad # {} PROVE FALSE
    OBVIOUS
  <2>1. PICK T \in Bad : \A V \in Bad : T \subseteq V => V = T
    <3>1. Bad \in SUBSET (SUBSET Obj)
      OBVIOUS
    <3> HIDE DEF Bad
    <3> QED BY <3>1, LargestSubset, KindAssumption
  <2>2. T \in SUBSET Obj /\ ~Fine(T)
    BY <2>1
  <2>3. f[T] = IF More(T) = T THEN T ELSE f[More(T)]
    BY <1>2, <2>2
  <2>4. T \subseteq More(T) /\ More(T) \in SUBSET Obj
    BY <2>2, RefsAreObjects DEF More
  <2>5. CASE More(T) = T
    <3>1. Closed(T)
      BY <2>5 DEF More, Closed
    <3> QED BY <2>2, <2>3, <2>5, <3>1
  <2>6. CASE More(T) # T
    <3>1. Fine(More(T))
      BY <2>1, <2>4, <2>6
    <3>2. \A C \in SUBSET Obj : T \subseteq C /\ Closed(C) => More(T) \subseteq C
      BY DEF More, Closed
    <3> QED BY <2>2, <2>3, <2>4, <2>6, <3>1, <3>2
  <2> QED BY <2>5, <2>6
<1>4. Fine(S)
  BY <1>3
<1> QED
  BY <1>1, <1>4
-----------------------------------------------------------------------------
(* The end of the marking: the steps of Atomic. *)

M1 == PropagateAll(RemarkUpvals(Marks))
M2 == PropagateAll(MarkAll([M1 EXCEPT !.gray = M1.weak, !.weak = {}], {L}))
M3 == PropagateAll(RegrayAgain(M2))
Tmu == tmudata \cup (Lost(M3) \cap GcUdata)
M4 == PropagateAll(MarkTmu(M3, Tmu))

(* The heap as Atomic finds it. *)
Ready ==
  /\ HeapOK /\ Stays(alloc) /\ Good(Marks) /\ Tri(Marks, tmudata) /\ gray = {}
  /\ tmudata \subseteq alloc \cap Udata /\ Roots \subseteq alloc /\ currentwhite \in White
  /\ {registry, mainthread} \subseteq Marked(Marks)
  /\ \A o \in alloc : color[o] \in White => color[o] = currentwhite

(* L is one of the threads that have resumed one another. *)
LEMMA RunningThread ==
  ASSUME HeapOK
  PROVE  L \in Threads /\ L \in Roots
BY DEF HeapOK, L, Roots

(* With the open upvalues remarked, what is marked and on no list has passed *)
(* its mark on, but for the udata that wait for their finalizer. *)
LEMMA AtomicOne ==
  ASSUME Ready
  PROVE  /\ Good(M1) /\ Ext(Marks, M1) /\ Tri(M1, tmudata) /\ M1.gray = {}
         /\ Done(M1, grayagain \cup weak \cup tmudata)
<1> DEFINE P == grayagain \cup weak \cup tmudata
           G == {w \in alloc \cap Upvals : open[w] # None /\ Marks.color[w] = "gray"}
           S == {UpvalValue(u) : u \in G}
           r == MarkAll(Marks, S)
<1>1. HeapOK /\ Stays(alloc) /\ Good(Marks) /\ Marks \in MarksType /\ alloc \subseteq Obj /\ Tri(Marks, tmudata)
  BY DEF Ready, Good, HeapOK
<1>2. /\ Marks.color = color /\ Marks.gray = gray /\ Marks.again = grayagain /\ Marks.weak = weak
      /\ gray = {}
  BY DEF Marks, Ready
<1>3. \A u \in alloc \cap Upvals : StrongRefs(u) = {UpvalValue(u)} \ {None} /\ StrongRefs(u) \subseteq alloc
  BY <1>1, RefsOfUpval DEF Stays, AllRefs
<1>4. S \in SUBSET (alloc \cup {None})
  BY <1>3
<1>5. RemarkUpvals(Marks) = r
  BY DEF RemarkUpvals
<1> HIDE DEF S, r
<1>6. Done(Marks, P \cup G)
  <2> SUFFICES ASSUME NEW o \in (alloc \cap Marked(Marks)) \ (Marks.gray \cup (P \cup G))
               PROVE  StrongRefs(o) \subseteq Marked(Marks)
    BY DEF Done
  <2>1. CASE Marks.color[o] = "black"
    BY <1>1, <2>1 DEF Tri, AllRefs
  <2>2. CASE Marks.color[o] = "gray"
    <3>1. o \in Listed(Marks) \cup Strings \cup Upvals
      BY <1>1, <2>2 DEF Good, Books
    <3>2. o \notin Listed(Marks)
      BY <1>2 DEF Listed
    <3>3. o \notin Upvals
      BY <1>1, <2>2 DEF Good, Books
    <3> QED BY <3>1, <3>2, <3>3, RefsOfString
  <2> QED BY <1>1, <2>1, <2>2 DEF Marked, MarksType, Colors
<1>7. Good(r) /\ Done(r, P \cup G) /\ Tri(r, tmudata)
  BY <1>1, <1>4, <1>6, MarkAllBooks, MarkAllKeeps DEF r
<1>8. Ext(Marks, r) /\ S \ {None} \subseteq Marked(r)
  BY <1>1, <1>4, MarkAllExt DEF r
<1>9. Done(r, P)
  <2>1. \A u \in G : StrongRefs(u) \subseteq Marked(r)
    BY <1>3, <1>8 DEF S
  <2> QED BY <2>1, <1>7 DEF Done
<1>10. Good(M1) /\ Ext(r, M1) /\ Done(M1, P) /\ Tri(M1, tmudata) /\ M1.gray = {}
  BY <1>1, <1>5, <1>7, <1>9, PropagateAllKeeps DEF M1
<1> QED
  BY <1>8, <1>10, ExtTransitive

(* The weak tables and the running thread. *)
LEMMA AtomicTwo ==
  ASSUME Ready
  PROVE  /\ Good(M2) /\ Tri(M2, tmudata) /\ M2.gray = {}
         /\ Done(M2, grayagain \cup tmudata) /\ grayagain \subseteq M2.again
         /\ Marked(Marks) \subseteq Marked(M2)
         /\ \A o \in Obj : M2.color[o] \in White => M2.color[o] = color[o]
<1> DEFINE n == [M1 EXCEPT !.gray = M1.weak, !.weak = {}]
           r == MarkAll(n, {L})
           P == grayagain \cup tmudata
<1>1. HeapOK /\ Stays(alloc) /\ alloc \subseteq Obj /\ {L} \in SUBSET (alloc \cup {None})
  BY RunningThread DEF Ready, HeapOK
<1>2. /\ Good(M1) /\ Ext(Marks, M1) /\ Tri(M1, tmudata) /\ M1.gray = {}
      /\ Done(M1, grayagain \cup weak \cup tmudata)
  BY AtomicOne
<1>3. /\ n \in MarksType /\ n.color = M1.color /\ n.key = M1.key /\ n.gray = M1.weak
      /\ n.again = M1.again /\ n.weak = {}
  BY <1>2 DEF Good, MarksType
<1>4. M2 = PropagateAll(r)
  BY DEF M2
<1> HIDE DEF n
<1>5. Good(n) /\ Marked(n) = Marked(M1)
  <2>1. Listed(n) = Listed(M1) /\ M1.weak \cap M1.again = {}
    BY <1>2, <1>3 DEF Listed, Good, Books
  <2>2. Books(n)
    BY <1>2, <1>3, <2>1 DEF Good, Books
  <2>3. Keys(n)
    BY <1>2, <1>3 DEF Good, Keys
  <2> QED BY <1>3, <2>2, <2>3 DEF Good, Marked
<1>6. /\ grayagain \subseteq M1.again /\ weak \subseteq M1.weak /\ Marked(Marks) \subseteq Marked(M1)
      /\ \A o \in Obj : M1.color[o] \in White => M1.color[o] = color[o]
  BY <1>2 DEF Ext, Marks
<1>7. Done(n, P) /\ Tri(n, tmudata)
  BY <1>2, <1>3, <1>5, <1>6 DEF Done, Tri
<1>8. Good(r) /\ Done(r, P) /\ Tri(r, tmudata)
  BY <1>1, <1>5, <1>7, MarkAllBooks, MarkAllKeeps
<1>9. Ext(n, r)
  BY <1>1, <1>3, MarkAllExt
<1> HIDE DEF r
<1>10. Good(M2) /\ Ext(r, M2) /\ Done(M2, P) /\ Tri(M2, tmudata) /\ M2.gray = {}
  BY <1>1, <1>4, <1>8, PropagateAllKeeps
<1>11. Ext(n, M2)
  BY <1>9, <1>10, ExtTransitive
<1>12. /\ grayagain \subseteq M2.again /\ Marked(Marks) \subseteq Marked(M2)
       /\ \A o \in Obj : M2.color[o] \in White => M2.color[o] = color[o]
  BY <1>3, <1>5, <1>6, <1>11 DEF Ext
<1> QED
  BY <1>10, <1>12

(* What was touched since: only udata that wait may not have passed their *)
(* mark on, and only threads are listed to be traversed again. *)
LEMMA AtomicThree ==
  ASSUME Ready
  PROVE  /\ Good(M3) /\ Tri(M3, tmudata) /\ M3.gray = {} /\ M3.again \subseteq Threads
         /\ Done(M3, tmudata) /\ Marked(Marks) \subseteq Marked(M3)
         /\ \A o \in Obj : M3.color[o] \in White => M3.color[o] = color[o]
<1> DEFINE n == RegrayAgain(M2)
<1>1. HeapOK /\ Stays(alloc)
  BY DEF Ready
<1>2. /\ Good(M2) /\ Tri(M2, tmudata) /\ M2.gray = {}
      /\ Done(M2, grayagain \cup tmudata) /\ grayagain \subseteq M2.again
      /\ Marked(Marks) \subseteq Marked(M2)
      /\ \A o \in Obj : M2.color[o] \in White => M2.color[o] = color[o]
  BY AtomicTwo
<1>3. /\ n \in MarksType /\ n.color = M2.color /\ n.key = M2.key /\ n.gray = M2.again
      /\ n.again = {} /\ n.weak = M2.weak
  BY <1>2 DEF Good, MarksType, RegrayAgain
<1>4. M3 = PropagateAll(n)
  BY DEF M3
<1> HIDE DEF n
<1>5. Good(n) /\ Marked(n) = Marked(M2)
  <2>1. Listed(n) = Listed(M2) /\ M2.again \cap M2.weak = {}
    BY <1>2, <1>3 DEF Listed, Good, Books
  <2>2. Books(n)
    BY <1>2, <1>3, <2>1 DEF Good, Books
  <2>3. Keys(n)
    BY <1>2, <1>3 DEF Good, Keys
  <2> QED BY <1>3, <2>2, <2>3 DEF Good, Marked
<1>6. Done(n, tmudata) /\ Tri(n, tmudata)
  BY <1>2, <1>3, <1>5 DEF Done, Tri
<1>7. Good(M3) /\ Ext(n, M3) /\ Done(M3, tmudata) /\ Tri(M3, tmudata) /\ M3.gray = {}
  BY <1>1, <1>4, <1>5, <1>6, PropagateAllKeeps
<1>8. /\ M3.again \subseteq Threads /\ Marked(Marks) \subseteq Marked(M3)
      /\ \A o \in Obj : M3.color[o] \in White => M3.color[o] = color[o]
  BY <1>2, <1>3, <1>5, <1>7 DEF Ext
<1> QED
  BY <1>7, <1>8

(* marktmu: nothing marked is white again for it, and no exception is left. *)
LEMMA MarkTmuKeeps ==
  ASSUME HeapOK, Stays(alloc), currentwhite \in White, NEW m, Good(m), m.gray = {},
         NEW X, Done(m, X), Tri(m, X), NEW T \in SUBSET (alloc \cap Udata), X \subseteq T
  PROVE  LET r == MarkTmu(m, T)
         IN  /\ Good(r) /\ Done(r, {}) /\ Tri(r, {})
             /\ Marked(m) \subseteq Marked(r) /\ T \subseteq Marked(r)
             /\ r.again = m.again /\ r.weak = m.weak
             /\ \A t \in Tables : r.color[t] = "black" => m.color[t] = "black"
             /\ \A o \in Obj : r.color[o] \in White => r.color[o] = m.color[o]
<1> DEFINE n == [m EXCEPT !.color = [o \in Obj |-> IF o \in T THEN currentwhite ELSE @[o]]]
           r == MarkAll(n, T)
<1>1. T \subseteq Obj /\ alloc \subseteq Obj /\ T \in SUBSET (alloc \cup {None}) /\ T \in SUBSET (Obj \cup {None})
  BY DEF HeapOK
<1>2. /\ n \in MarksType /\ n.key = m.key /\ n.gray = {} /\ n.again = m.again /\ n.weak = m.weak
      /\ \A o \in Obj : n.color[o] = IF o \in T THEN currentwhite ELSE m.color[o]
  BY DEF Good, MarksType, Colors
<1>3. MarkTmu(m, T) = r
  BY DEF MarkTmu
<1> HIDE DEF n
<1>4. \A o \in Listed(m) \cup Upvals \cup Tables \cup Threads : o \notin T
  BY KindAssumption DEF Good, Books, Listable
<1>5. Good(n)
  <2>1. Listed(n) = Listed(m) /\ \A o \in Upvals : o \in Obj
    BY <1>2 DEF Listed, Obj
  <2>2. Books(n)
    <3>1. /\ Listed(n) \subseteq alloc \cap Listable /\ n.weak \subseteq Tables
          /\ n.gray \cap n.again = {} /\ n.gray \cap n.weak = {} /\ n.again \cap n.weak = {}
      BY <1>2, <2>1 DEF Good, Books
    <3>2. \A o \in alloc : n.color[o] = "gray" => o \in Listed(n) \cup Strings \cup Upvals
      BY <1>1, <1>2, <2>1 DEF Good, Books, White
    <3>3. \A o \in Listed(n) : n.color[o] = "gray"
      BY <1>1, <1>2, <1>4, <2>1 DEF Good, Books
    <3>4. \A h \in alloc \cap Threads : n.color[h] # "black"
      BY <1>1, <1>2, <1>4 DEF Good, Books
    <3>5. \A u \in alloc \cap Upvals : n.color[u] = "gray" => open[u] # None
      BY <1>1, <1>2, <1>4 DEF Good, Books
    <3>6. \A u \in Upvals : open[u] # None => n.color[u] # "black"
      BY <1>2, <1>4, <2>1 DEF Good, Books
    <3> QED BY <3>1, <3>2, <3>3, <3>4, <3>5, <3>6 DEF Books
  <2>3. Keys(n)
    BY <1>2 DEF Good, Keys
  <2> QED BY <1>2, <2>2, <2>3 DEF Good
<1>6. Good(r)
  BY <1>1, <1>5, MarkAllBooks
<1>7. /\ r.again = m.again /\ r.weak = m.weak /\ r.gray = Hit(n, T) \cap Listable
      /\ \A o \in Obj : r.color[o] = IF o \notin Hit(n, T) THEN n.color[o] ELSE IF AtOnce(o) THEN "black" ELSE "gray"
      /\ Marked(r) = Marked(n) \cup Hit(n, T)
  BY <1>1, <1>2, MarkAllSets
<1>8. Hit(n, T) \subseteq Obj \ Marked(n) /\ T \subseteq Marked(n) \cup Hit(n, T)
  BY <1>1, <1>2, HitWhite, ObjAssumption
<1>9. T \subseteq Hit(n, T) /\ T \subseteq Marked(r) /\ Marked(m) \subseteq Marked(r)
  BY <1>1, <1>2, <1>7, <1>8 DEF Marked
<1>10. /\ \A u \in Hit(n, T) \cap Upvals : UpvalValue(u) \in {None} \cup Marked(r)
       /\ \A u \in Hit(n, T) \cap Udata : val[u] \in {None} \cup Marked(r)
  BY <1>1, <1>2, <1>7, HitPasses
<1>11. \A t \in Tables : t \in Obj /\ ~AtOnce(t)
  BY KindAssumption DEF AtOnce, Obj
<1> HIDE DEF r
<1>12. ASSUME NEW o \in Hit(n, T), o \notin Listable PROVE AllRefs(o) \subseteq Marked(r)
  <2>1. CASE o \in Upvals
    BY <2>1, <1>10, <1>12, RefsOfUpval DEF AllRefs
  <2>2. CASE o \in Udata
    BY <2>2, <1>10, <1>12, RefsOfUdata DEF AllRefs
  <2>3. CASE o \in Strings
    BY <2>3, RefsOfString DEF AllRefs
  <2> QED BY <1>8, <1>12, <2>1, <2>2, <2>3 DEF Obj, Listable
<1>13. Done(r, {})
  <2> SUFFICES ASSUME NEW o \in (alloc \cap Marked(r)) \ r.gray PROVE StrongRefs(o) \subseteq Marked(r)
    BY DEF Done
  <2>1. CASE o \in Hit(n, T)
    <3>1. o \notin Listable
      BY <2>1, <1>7
    <3> QED BY <3>1, <2>1, <1>12 DEF AllRefs
  <2>2. CASE o \notin Hit(n, T)
    <3>1. o \notin T /\ o \in Marked(m)
      BY <2>2, <1>1, <1>2, <1>7, <1>9 DEF Marked
    <3> QED BY <3>1, <1>9 DEF Done
  <2> QED BY <2>1, <2>2
<1>14. Tri(r, {})
  <2> SUFFICES ASSUME NEW o \in alloc, r.color[o] = "black" PROVE AllRefs(o) \subseteq Marked(r)
    BY DEF Tri
  <2>1. CASE o \in Hit(n, T)
    <3>1. AtOnce(o)
      BY <2>1, <1>1, <1>7
    <3>2. o \notin Listable
      BY <3>1, KindAssumption DEF AtOnce, Listable
    <3> QED BY <3>2, <2>1, <1>12
  <2>2. CASE o \notin Hit(n, T)
    <3>1. o \notin T /\ m.color[o] = "black"
      BY <2>2, <1>1, <1>2, <1>7, <1>9
    <3> QED BY <3>1, <1>9 DEF Tri
  <2> QED BY <2>1, <2>2
<1>15. \A t \in Tables : r.color[t] = "black" => m.color[t] = "black"
  BY <1>2, <1>4, <1>7, <1>11
<1>16. \A o \in Obj : r.color[o] \in White => r.color[o] = m.color[o]
  BY <1>2, <1>7, <1>9 DEF White
<1> QED
  BY <1>3, <1>6, <1>7, <1>9, <1>13, <1>14, <1>15, <1>16 DEF r

(* A set of marked objects that have passed their mark on has the roots, if *)
(* the main thread and the registry are in it: every running thread is      *)
(* referred to by the one that has resumed it.                              *)
LEMMA RootsFollow ==
  ASSUME HeapOK, NEW C, registry \in C, mainthread \in C,
         \A h \in Roots \cap C : StrongRefs(h) \subseteq C
  PROVE  Roots \subseteq C
<1> DEFINE Bad == {i \in DOMAIN running : running[i] \notin C}
<1>1. running \in Seq(Threads) /\ running[1] = mainthread /\ DOMAIN running = 1 .. Len(running) /\ Len(running) \in Nat
  BY DEF HeapOK
<1>2. Bad = {}
  <2> SUFFICES ASSUME Bad # {} PROVE FALSE
    OBVIOUS
  <2>1. Bad \in SUBSET Nat
    BY <1>1
  <2>2. PICK i \in Bad : \A j \in Bad : i <= j
    <3> HIDE DEF Bad
    <3> QED BY <2>1, NatMin
  <2>3. i \in 2 .. Len(running)
    BY <1>1, <2>2
  <2>4. running[i - 1] \in C /\ running[i - 1] \in Threads /\ running[i - 1] \in Roots
    BY <1>1, <2>2, <2>3 DEF Roots
  <2>5. running[i] \in OfThread(running[i - 1])
    BY <2>3 DEF OfThread, Resumed
  <2>6. running[i] # None
    <3>1. running[i] \in Threads
      BY <1>1, <2>3
    <3> QED BY <3>1, ObjAssumption DEF Obj
  <2>7. running[i] \in StrongRefs(running[i - 1])
    BY <2>4, <2>5, <2>6, RefsOfThread
  <2> QED BY <2>2, <2>4, <2>7
<1> QED
  BY <1>1, <1>2 DEF Roots

(* With the udata to be finalized marked, all that is marked has passed its *)
(* mark on.                                                                 *)
LEMMA AtomicFour ==
  ASSUME Ready
  PROVE  /\ Tmu \subseteq alloc \cap Udata
         /\ Good(M4) /\ Tri(M4, {}) /\ Done(M4, {}) /\ M4.gray = {} /\ M4.again \subseteq Threads
         /\ Roots \cup Tmu \subseteq Marked(M4)
         /\ \A o \in alloc : M4.color[o] \in White => M4.color[o] = currentwhite
         /\ \A t \in Tables : mode[t] # {} /\ M4.color[t] = "black" => M3.color[t] = "black"
<1> DEFINE n == MarkTmu(M3, Tmu)
<1>1. HeapOK /\ Stays(alloc) /\ currentwhite \in White /\ tmudata \subseteq alloc \cap Udata /\ alloc \subseteq Obj
  BY DEF Ready, HeapOK
<1>2. /\ Good(M3) /\ Tri(M3, tmudata) /\ M3.gray = {} /\ M3.again \subseteq Threads
      /\ Done(M3, tmudata) /\ Marked(Marks) \subseteq Marked(M3)
      /\ \A o \in Obj : M3.color[o] \in White => M3.color[o] = color[o]
  BY AtomicThree
<1>3. Tmu \subseteq alloc \cap Udata /\ tmudata \subseteq Tmu
  BY <1>1 DEF Tmu, Lost
<1>4. /\ Good(n) /\ Done(n, {}) /\ Tri(n, {})
      /\ Marked(M3) \subseteq Marked(n) /\ Tmu \subseteq Marked(n)
      /\ n.again = M3.again /\ n.weak = M3.weak
      /\ \A t \in Tables : n.color[t] = "black" => M3.color[t] = "black"
      /\ \A o \in Obj : n.color[o] \in White => n.color[o] = M3.color[o]
  BY <1>1, <1>2, <1>3, MarkTmuKeeps
<1>5. M4 = PropagateAll(n)
  BY DEF M4
<1> HIDE DEF n
<1>6. Good(M4) /\ Ext(n, M4) /\ Done(M4, {}) /\ Tri(M4, {}) /\ M4.gray = {}
  BY <1>1, <1>4, <1>5, PropagateAllKeeps
<1>7. {registry, mainthread} \subseteq Marked(M4) /\ Tmu \subseteq Marked(M4)
  BY <1>2, <1>4, <1>6 DEF Ready, Ext
<1>8. Roots \subseteq Marked(M4)
  BY <1>1, <1>6, <1>7, RootsFollow DEF Ready, Done
<1>9. \A o \in alloc : M4.color[o] \in White => M4.color[o] = currentwhite
  BY <1>1, <1>2, <1>4, <1>6 DEF Ready, Ext
<1>10. M4.again \subseteq Threads
  BY <1>2, <1>4, <1>6 DEF Ext
<1>11. \A t \in Tables : mode[t] # {} /\ M4.color[t] = "black" => M3.color[t] = "black"
  BY <1>4, <1>6 DEF Ext
<1> QED
  BY <1>3, <1>6, <1>7, <1>8, <1>9, <1>10, <1>11
-----------------------------------------------------------------------------
(* The inductive invariant. *)

Kinds ==
  /\ HeapOK /\ Marks \in MarksType
  /\ gcstate \in {"pause", "propagate", "sweepstring", "sweep", "finalize"}
  /\ currentwhite \in White
  /\ unswept \subseteq Obj /\ tmudata \subseteq Udata /\ finalized \subseteq Udata

Live == {o \in alloc : ~IsDead(o)}
Sweeping == gcstate \in {"sweepstring", "sweep"}

\* What the program can come at is not dead.
RootsLive == Roots \cup tmudata \subseteq Live

\* A closure has its upvalue; open upvalues and their threads exist, and open
\* upvalues are never black, udata never gray.
Made ==
  /\ \A c \in alloc \cap Closures : val[c] # None
  /\ \A u \in Upvals : open[u] # None => u \in alloc /\ open[u][1] \in alloc /\ color[u] # "black"
  /\ \A u \in alloc \cap Udata : color[u] # "gray"

\* An object is made empty.
Fresh ==
  /\ \A t \in Tables \ alloc : val[t] = None
  /\ \A h \in Threads \ alloc : \A s \in Slots : stack[h][s] = None

\* What the sweep has to meet: open upvalues are met with their thread.
ToSweep ==
  /\ unswept \subseteq alloc \ tmudata
  /\ \A u \in unswept \cap Upvals : open[u] = None
  /\ ~Sweeping => unswept = {} /\ Live = alloc
  /\ gcstate # "propagate" =>
       \A o \in alloc \ tmudata : color[o] # currentwhite =>
         o \in unswept \/ (o \in Upvals /\ open[o] # None /\ open[o][1] \in unswept)

\* The lists, and while marking what is on them and what is not.
Lists ==
  /\ Listed(Marks) \subseteq Live
  /\ gcstate # "propagate" => gray = {}
  /\ gcstate = "propagate" =>
       Books(Marks) /\ Tri(Marks, tmudata) /\ {registry, mainthread} \subseteq Marked(Marks)

IInv == Kinds /\ Stays(Live) /\ RootsLive /\ Made /\ Fresh /\ ToSweep /\ Lists

Inv == closing = "no" => IInv

(* The initial state. *)
LEMMA InitInv ==
  ASSUME Init
  PROVE  Inv
<1>1. HeapOK
  BY ObjAssumption DEF Init, HeapOK, Obj, Values
<1>2. Kinds
  BY <1>1 DEF Init, Kinds, Marks, MarksType, Colors, White, Values
<1>3. Live = {registry, mainthread} /\ registry \in Tables /\ mainthread \in Threads
  BY ObjAssumption DEF Init, Live, IsDead, otherwhite, Other, Obj
<1>4. Stays(Live)
  <2>1. AllRefs(registry) = {}
    BY <1>3, RefsOfTable DEF Init
  <2>2. AllRefs(mainthread) = {}
    <3>1. OfThread(mainthread) \subseteq {None}
      BY <1>3 DEF Init, OfThread, Resumed
    <3> QED BY <3>1, <1>3, RefsOfThread DEF AllRefs
  <2> QED BY <1>3, <2>1, <2>2 DEF Stays
<1>5. RootsLive
  BY <1>3 DEF RootsLive, Roots, Init
<1>6. Made /\ Fresh
  BY KindAssumption, ObjAssumption DEF Made, Fresh, Init, Obj
<1>7. ToSweep
  <2>1. \A o \in alloc : color[o] = currentwhite
    BY <1>3 DEF Init, Obj
  <2>2. unswept = {} /\ tmudata = {} /\ alloc = Live
    BY <1>3 DEF Init
  <2> QED BY <2>1, <2>2 DEF ToSweep
<1>8. Lists
  BY DEF Lists, Init, Listed, Marks
<1> QED
  BY <1>2, <1>4, <1>5, <1>6, <1>7, <1>8 DEF Inv, IInv

(* While marking nothing is dead. *)
LEMMA WhileMarking ==
  ASSUME IInv, gcstate = "propagate"
  PROVE  /\ HeapOK /\ Live = alloc /\ Stays(alloc) /\ Good(Marks) /\ Tri(Marks, tmudata) /\ unswept = {}
         /\ Roots \cup tmudata \subseteq alloc /\ {registry, mainthread} \subseteq Marked(Marks)
         /\ \A o \in alloc : color[o] \in White => color[o] = currentwhite
<1>1. Live = alloc /\ unswept = {}
  BY DEF IInv, ToSweep, Sweeping
<1>2. Keys(Marks)
  BY DEF Keys, Marks
<1>3. Good(Marks)
  BY <1>2 DEF IInv, Kinds, Lists, Good
<1>4. \A o \in alloc : color[o] \in White => color[o] = currentwhite
  BY <1>1 DEF IInv, Kinds, Live, IsDead, otherwhite, Other, White
<1> QED
  BY <1>1, <1>3, <1>4 DEF IInv, Kinds, Lists, RootsLive

(* What an object refers to after a step that leaves what it holds alone but *)
(* for stores of X into stacks, and resumes none but X.                      *)
LEMMA RefsAfter ==
  ASSUME HeapOK, NEW o \in Obj, NEW X,
         o \in Tables => key'[o] = key[o] \/ val[o] = None,
         o \notin Threads \cup Strings => val'[o] = val[o],
         o \in Upvals => open'[o] = open[o],
         \A h \in Threads, s \in Slots : stack'[h][s] = stack[h][s] \/ stack'[h][s] \in X,
         o \in Threads => Resumed(o)' \subseteq Resumed(o) \cup X
  PROVE  /\ AllRefs(o)' \subseteq AllRefs(o) \cup X
         /\ o \notin Threads /\ (o \in Upvals => open[o] = None) => AllRefs(o)' = AllRefs(o)
<1>1. CASE o \in Tables
  <2>1. o \notin Threads \cup Strings \cup Upvals
    BY <1>1, KindAssumption
  <2>2. AllRefs(o)' = (IF val'[o] = None THEN {} ELSE {key'[o], val'[o]} \ {None})
    BY <1>1 DEF AllRefs, StrongRefs, WeakRefs
  <2>3. AllRefs(o) = (IF val[o] = None THEN {} ELSE {key[o], val[o]} \ {None})
    BY <1>1, RefsOfTable
  <2> QED BY <1>1, <2>1, <2>2, <2>3
<1>2. CASE o \in Udata \cup Closures
  <2>1. o \notin Tables \cup Threads \cup Strings \cup Upvals
    BY <1>2, KindAssumption
  <2>2. AllRefs(o)' = {val'[o]} \ {None}
    BY <1>2, <2>1 DEF AllRefs, StrongRefs, WeakRefs
  <2>3. AllRefs(o) = {val[o]} \ {None}
    BY <1>2, RefsOfUdata DEF AllRefs
  <2> QED BY <1>2, <2>1, <2>2, <2>3
<1>3. CASE o \in Upvals
  <2>1. o \notin Tables \cup Threads \cup Strings \cup Udata \cup Closures
    BY <1>3, KindAssumption
  <2>2. AllRefs(o)' = {UpvalValue(o)'} \ {None}
    BY <1>3, <2>1 DEF AllRefs, StrongRefs, WeakRefs
  <2>3. AllRefs(o) = {UpvalValue(o)} \ {None}
    BY <1>3, RefsOfUpval DEF AllRefs
  <2>4. UpvalValue(o)' = UpvalValue(o) \/ (open[o] # None /\ UpvalValue(o)' \in X)
    <3>1. open[o] # None => open[o][1] \in Threads /\ open[o][2] \in Slots
      BY <1>3 DEF HeapOK
    <3> QED BY <1>3, <2>1, <3>1 DEF UpvalValue
  <2>5. CASE UpvalValue(o)' = UpvalValue(o)
    BY <2>2, <2>3, <2>5
  <2>6. CASE open[o] # None /\ UpvalValue(o)' \in X
    BY <1>3, <2>2, <2>3, <2>6
  <2> QED BY <2>4, <2>5, <2>6
<1>4. CASE o \in Threads
  <2>1. o \notin Tables \cup Upvals \cup Strings \cup Udata \cup Closures
    BY <1>4, KindAssumption
  <2>2. AllRefs(o)' = OfThread(o)' \ {None}
    BY <1>4, <2>1 DEF AllRefs, StrongRefs, WeakRefs
  <2>3. AllRefs(o) = OfThread(o) \ {None}
    BY <1>4, RefsOfThread DEF AllRefs
  <2>4. OfThread(o)' \subseteq OfThread(o) \cup X
    <3>1. OfThread(o)' = {stack'[o][s] : s \in Slots} \cup Resumed(o)'
      BY DEF OfThread
    <3>2. OfThread(o) = {stack[o][s] : s \in Slots} \cup Resumed(o)
      BY DEF OfThread
    <3> QED BY <1>4, <3>1, <3>2
  <2> QED BY <1>4, <2>2, <2>3, <2>4
<1>5. CASE o \in Strings
  <2>1. AllRefs(o)' = {}
    BY <1>5, KindAssumption DEF AllRefs, StrongRefs, WeakRefs
  <2>2. AllRefs(o) = {}
    BY <1>5, RefsOfString DEF AllRefs
  <2> QED BY <2>1, <2>2
<1> QED
  BY <1>1, <1>2, <1>3, <1>4, <1>5 DEF Obj

(* The end of the marking: what is white from here on is dead, and nothing *)
(* live refers to it.                                                      *)
LEMMA AtomicKeeps ==
  ASSUME IInv, Atomic
  PROVE  IInv'
<1> DEFINE cut == Cleared([color |-> M4.color, key |-> M4.key, weak |-> M4.weak, finalized |-> finalized \cup Lost(M3)])
           strings == ({key[t] : t \in M4.weak} \cup {val[t] : t \in M4.weak}) \cap Strings
<1>1. gcstate = "propagate" /\ gray = {}
  BY DEF Atomic
<1>2. Ready
  BY <1>1, WhileMarking DEF Ready, IInv, Kinds
<1>3. /\ color' = [o \in Obj |-> IF o \in strings THEN "gray" ELSE M4.color[o]]
      /\ key' = [t \in Tables |-> IF t \in cut THEN None ELSE M4.key[t]]
      /\ val' = [o \in DOMAIN val |-> IF o \in cut THEN None ELSE val[o]]
      /\ gray' = M4.gray /\ grayagain' = M4.again /\ weak' = M4.weak
      /\ tmudata' = Tmu /\ finalized' = finalized \cup Lost(M3)
      /\ currentwhite' = otherwhite /\ gcstate' = "sweepstring"
      /\ unswept' = {o \in alloc \ Tmu : o \in Upvals => open[o] = None}
      /\ UNCHANGED <<alloc, open, mode, stack, running>>
  BY DEF Atomic, M1, M2, M3, M4, Tmu, SetMarks, Flipped, CollectorOnly
<1>4. /\ Tmu \subseteq alloc \cap Udata
      /\ Good(M4) /\ Tri(M4, {}) /\ Done(M4, {}) /\ M4.gray = {} /\ M4.again \subseteq Threads
      /\ Roots \cup Tmu \subseteq Marked(M4)
      /\ \A o \in alloc : M4.color[o] \in White => M4.color[o] = currentwhite
  BY <1>2, AtomicFour
<1>5. HeapOK /\ Stays(alloc) /\ alloc \subseteq Obj /\ Made /\ Fresh /\ Kinds /\ Roots \subseteq alloc
  BY <1>2 DEF IInv, Kinds, HeapOK, Ready
<1>6. cut \subseteq M4.weak /\ M4.weak \subseteq Tables /\ M4.weak \subseteq alloc
  BY <1>4 DEF Cleared, Good, Books, Listed
<1>7. \A t \in M4.weak : val[t] # None /\ t \notin cut =>
        /\ ~IsCleared([color |-> M4.color, key |-> M4.key, weak |-> M4.weak, finalized |-> finalized \cup Lost(M3)], M4.key[t], TRUE)
        /\ ~IsCleared([color |-> M4.color, key |-> M4.key, weak |-> M4.weak, finalized |-> finalized \cup Lost(M3)], val[t], FALSE)
  BY DEF Cleared
<1>8. \A o \in Obj : IsCleared([color |-> M4.color, key |-> M4.key, weak |-> M4.weak, finalized |-> finalized \cup Lost(M3)], o, TRUE)
                       \/ o \in Strings \/ o \in Marked(M4)
  BY ObjAssumption DEF IsCleared, Marked
<1>9. \A o \in Obj : IsCleared([color |-> M4.color, key |-> M4.key, weak |-> M4.weak, finalized |-> finalized \cup Lost(M3)], o, FALSE)
                       \/ o \in Strings \/ o \in Marked(M4)
  BY ObjAssumption DEF IsCleared, Marked
<1> HIDE DEF cut
<1>10. M4 \in MarksType /\ Keys(M4)
  BY <1>4 DEF Good
<1>11. HeapOK'
  <2>1. key' \in [Tables -> Values]
    BY <1>3, <1>10 DEF MarksType, Values
  <2>2. /\ val' \in [Tables \cup Udata \cup Closures \cup Upvals -> Obj \cup {None}]
        /\ \A o \in Tables \cup Upvals : val'[o] \in Values
        /\ \A o \in Udata : val'[o] \in Tables \cup {None}
        /\ \A o \in Closures : val'[o] \in Upvals \cup {None}
    BY <1>3, <1>5 DEF HeapOK, Values
  <2> QED BY <1>3, <1>5, <2>1, <2>2 DEF HeapOK
<1>12. \A o \in Obj : color'[o] = IF o \in strings THEN "gray" ELSE M4.color[o]
  BY <1>3
<1>13. Kinds'
  <2>1. color' \in [Obj -> Colors]
    BY <1>3, <1>10 DEF MarksType, Colors
  <2>2. Marks' \in MarksType
    BY <1>3, <1>10, <1>11, <2>1 DEF MarksType, Marks, HeapOK
  <2>3. currentwhite' \in White
    BY <1>3, <1>5 DEF Kinds, otherwhite, Other, White
  <2>4. unswept' \subseteq Obj /\ tmudata' \subseteq Udata /\ finalized' \subseteq Udata
    BY <1>3, <1>4, <1>5 DEF Kinds, Lost
  <2> QED BY <1>3, <1>11, <2>2, <2>3, <2>4 DEF Kinds
<1>14. Live' = alloc \cap (Marked(M4) \cup strings)
  <2>1. otherwhite' = currentwhite
    BY <1>3, <1>5 DEF Kinds, otherwhite, Other, White
  <2>2. \A o \in alloc : color'[o] # currentwhite <=> o \in Marked(M4) \cup strings
    BY <1>4, <1>5, <1>12 DEF Marked, Kinds, White
  <2> QED BY <1>3, <2>1, <2>2 DEF Live, IsDead
<1>15. Stays(Live)'
  <2> SUFFICES ASSUME NEW o \in alloc, o \in Marked(M4) \cup strings PROVE AllRefs(o)' \subseteq Live'
    BY <1>14 DEF Stays
  <2>0. o \in Obj /\ AllRefs(o) \subseteq alloc
    BY <1>5 DEF Stays
  <2>1. CASE o \in Tables
    <3>1. o \in Marked(M4)
      BY <2>1, KindAssumption
    <3>2. AllRefs(o)' = (IF val'[o] = None THEN {} ELSE {key'[o], val'[o]} \ {None})
      BY <2>1 DEF AllRefs, StrongRefs, WeakRefs
    <3>3. AllRefs(o) = (IF val[o] = None THEN {} ELSE {key[o], val[o]} \ {None})
      BY <2>1, RefsOfTable
    <3>4. CASE val'[o] # None
      <4>1. o \notin cut /\ val'[o] = val[o] /\ val[o] # None /\ key'[o] = M4.key[o] /\ M4.key[o] = key[o]
        BY <1>3, <1>5, <1>10, <2>1, <3>4 DEF HeapOK, Keys
      <4>2. AllRefs(o)' = AllRefs(o)
        BY <3>2, <3>3, <4>1
      <4>3. CASE o \in M4.weak
        <5>1. \A p \in AllRefs(o) : p \in Strings \/ p \in Marked(M4)
          BY <1>7, <1>8, <1>9, <2>0, <3>3, <4>1, <4>3, <1>5
        <5>2. \A p \in AllRefs(o) \cap Strings : p \in strings
          BY <3>3, <4>1, <4>3
        <5> QED BY <1>14, <2>0, <4>2, <5>1, <5>2
      <4>4. CASE o \notin M4.weak
        <5>1. M4.color[o] # "gray"
          BY <1>4, <2>1, <4>4, KindAssumption DEF Good, Books, Listed
        <5>2. M4.color[o] = "black"
          BY <1>10, <2>0, <3>1, <5>1 DEF Marked, MarksType, Colors
        <5>3. AllRefs(o) \subseteq Marked(M4)
          BY <1>4, <5>2 DEF Tri
        <5> QED BY <1>14, <2>0, <4>2, <5>3
      <4> QED BY <4>3, <4>4
    <3> QED BY <3>2, <3>4
  <2>2. CASE o \notin Tables
    <3>1. o \notin Strings \cup Threads => val'[o] = val[o]
      <4>1. o \notin cut
        BY <1>6, <2>2
      <4> QED BY <1>3, <1>5, <2>0, <4>1 DEF HeapOK, Obj
    <3>2. Resumed(o)' = Resumed(o)
      BY <1>3 DEF Resumed
    <3>3. AllRefs(o)' \subseteq AllRefs(o) \cup {}
      BY <1>3, <1>5, <2>0, <2>2, <3>1, <3>2, RefsAfter
    <3>4. AllRefs(o) \subseteq Marked(M4)
      <4>1. WeakRefs(o) = {}
        BY <2>2 DEF WeakRefs
      <4>2. CASE o \in Strings
        BY <4>2, RefsOfString DEF AllRefs
      <4>3. CASE o \notin Strings
        BY <1>4, <4>1, <4>3 DEF Done, AllRefs
      <4> QED BY <4>2, <4>3
    <3> QED BY <1>14, <2>0, <3>3, <3>4
  <2> QED BY <2>1, <2>2
<1>16. RootsLive'
  <2>1. Roots' = Roots
    BY <1>3 DEF Roots
  <2> QED BY <1>3, <1>4, <1>5, <1>14, <2>1 DEF RootsLive
<1>17. Made'
  <2>1. \A c \in alloc \cap Closures : val'[c] = val[c]
    BY <1>3, <1>5, <1>6, KindAssumption DEF HeapOK
  <2>2. \A u \in Upvals : open[u] # None => color'[u] # "black"
    <3>1. \A u \in Upvals : u \in Obj
      BY DEF Obj
    <3> QED BY <1>4, <1>12, <3>1 DEF Good, Books
  <2>3. \A u \in alloc \cap Udata : color'[u] # "gray"
    BY <1>4, <1>5, <1>12, KindAssumption DEF Good, Books, Listable
  <2> QED BY <1>3, <1>5, <2>1, <2>2, <2>3 DEF Made
<1>18. Fresh'
  BY <1>3, <1>5 DEF Fresh, HeapOK
<1>19. ToSweep'
  <2>1. \A h \in Threads : h \notin Tmu /\ h \notin Upvals
    BY <1>4, KindAssumption
  <2>2. \A u \in Upvals : open[u] # None => open[u][1] \in alloc /\ open[u][1] \in Threads
    BY <1>5 DEF Made, HeapOK
  <2> QED BY <1>3, <2>1, <2>2 DEF ToSweep, Sweeping
<1>20. Lists'
  <2>1. Listed(Marks)' = Listed(M4)
    BY <1>3 DEF Listed, Marks
  <2>2. Listed(M4) \subseteq alloc /\ Listed(M4) \subseteq Marked(M4)
    BY <1>4, <1>5 DEF Good, Books, Marked, White
  <2> QED BY <1>3, <1>4, <1>14, <2>1, <2>2 DEF Lists
<1> QED
  BY <1>13, <1>15, <1>16, <1>17, <1>18, <1>19, <1>20 DEF IInv

(* A step that changes colours and lists only: what lives lives on. *)
LEMMA MarkingStep ==
  ASSUME IInv, NEW r, r \in MarksType, Keys(r),
         color' = r.color, key' = r.key, gray' = r.gray, grayagain' = r.again, weak' = r.weak,
         UNCHANGED <<alloc, val, open, mode, stack, running, currentwhite, tmudata, finalized>>
  PROVE  /\ HeapOK' /\ Marks' = r /\ Marks' \in MarksType /\ Roots' = Roots
         /\ \A o \in Obj : AllRefs(o)' \subseteq AllRefs(o)
<1>1. HeapOK'
  BY DEF HeapOK, IInv, Kinds, MarksType
<1>2. Marks' = r
  BY DEF Marks, MarksType
<1>3. \A o \in Obj : AllRefs(o)' \subseteq AllRefs(o)
  <2> SUFFICES ASSUME NEW o \in Obj PROVE AllRefs(o)' \subseteq AllRefs(o) \cup {}
    OBVIOUS
  <2>1. o \in Tables => key'[o] = key[o] \/ val[o] = None
    BY DEF Keys
  <2>2. Resumed(o)' = Resumed(o)
    BY DEF Resumed
  <2>3. HeapOK
    BY DEF IInv, Kinds
  <2> QED BY <2>1, <2>2, <2>3, RefsAfter
<1> QED
  BY <1>1, <1>2, <1>3 DEF Roots

(* A cycle begins: nothing is black but udata that wait for their finalizer. *)
LEMMA MarkRootKeeps ==
  ASSUME IInv, MarkRoot
  PROVE  IInv'
<1> DEFINE m == [Marks EXCEPT !.gray = {}, !.again = {}, !.weak = {}]
           S == {mainthread, registry}
           r == MarkAll(m, S)
<1>1. gcstate \in {"pause", "finalize"}
  BY DEF MarkRoot
<1>2. /\ color' = r.color /\ key' = r.key /\ gray' = r.gray /\ grayagain' = r.again /\ weak' = r.weak
      /\ gcstate' = "propagate"
      /\ UNCHANGED <<alloc, val, open, mode, stack, running, currentwhite, unswept, tmudata, finalized>>
  BY DEF MarkRoot, SetMarks, CollectorOnly
<1>3. HeapOK /\ Live = alloc /\ Stays(alloc) /\ unswept = {} /\ Made /\ alloc \subseteq Obj
      /\ \A o \in alloc \ tmudata : color[o] = currentwhite
  BY <1>1 DEF IInv, ToSweep, Sweeping, Kinds, HeapOK
<1>4. currentwhite \in White /\ Marks \in MarksType /\ tmudata \subseteq Udata
  BY DEF IInv, Kinds
<1>5. /\ m \in MarksType /\ m.color = color /\ m.key = key /\ m.gray = {} /\ m.again = {} /\ m.weak = {}
  BY <1>4 DEF MarksType, Marks
<1> HIDE DEF m
<1>6. Good(m)
  <2>1. Listed(m) = {}
    BY <1>5 DEF Listed
  <2>2. \A o \in alloc \ Udata : color[o] \in White
    BY <1>3, <1>4
  <2>3. \A o \in alloc : color[o] = "gray" => o \in Strings \cup Upvals
    BY <1>3, <2>2 DEF Made, White
  <2>4. /\ \A h \in alloc \cap Threads : color[h] # "black"
        /\ \A u \in alloc \cap Upvals : color[u] # "gray"
    BY <2>2, KindAssumption DEF White
  <2>5. Books(m)
    BY <1>3, <1>5, <2>1, <2>3, <2>4 DEF Books, Made
  <2> QED BY <1>5, <2>5 DEF Good, Keys
<1>7. Tri(m, tmudata)
  BY <1>3, <1>4, <1>5 DEF Tri, White
<1>8. S \in SUBSET (alloc \cup {None}) /\ S \in SUBSET (Obj \cup {None}) /\ None \notin S
  BY <1>3, ObjAssumption DEF IInv, RootsLive, Roots, Obj
<1>9. Good(r) /\ Tri(r, tmudata)
  BY <1>3, <1>6, <1>7, <1>8, MarkAllBooks, MarkAllKeeps
<1>10. Ext(m, r) /\ S \subseteq Marked(r)
  BY <1>3, <1>5, <1>8, MarkAllExt
<1> HIDE DEF r
<1>11. /\ HeapOK' /\ Marks' = r /\ Marks' \in MarksType /\ Roots' = Roots
       /\ \A o \in Obj : AllRefs(o)' \subseteq AllRefs(o)
  BY <1>2, <1>9, MarkingStep DEF Good
<1>12. Live' = alloc
  <2>1. \A o \in alloc : color'[o] # otherwhite
    <3> TAKE o \in alloc
    <3>1. color[o] # otherwhite
      BY <1>3 DEF Live, IsDead
    <3>2. color'[o] \in White => color'[o] = color[o]
      BY <1>2, <1>3, <1>5, <1>10 DEF Ext
    <3>3. otherwhite \in White
      BY <1>4 DEF otherwhite, Other, White
    <3> QED BY <3>1, <3>2, <3>3
  <2>2. otherwhite' = otherwhite
    BY <1>2 DEF otherwhite
  <2> QED BY <1>2, <2>1, <2>2 DEF Live, IsDead
<1>13. Kinds'
  BY <1>2, <1>11 DEF IInv, Kinds
<1>14. Stays(Live)' /\ RootsLive'
  BY <1>2, <1>3, <1>11, <1>12 DEF Stays, IInv, RootsLive
<1>15. Made'
  BY <1>2, <1>3, <1>9, KindAssumption DEF Made, Good, Books, Listable
<1>16. Fresh'
  BY <1>2 DEF IInv, Fresh
<1>17. ToSweep'
  BY <1>2, <1>3, <1>12 DEF ToSweep, Sweeping
<1>18. Lists'
  <2>1. Books(Marks)' /\ Tri(Marks, tmudata)' /\ Listed(Marks)' \subseteq alloc
    <3>1. Listed(Marks)' = Listed(r)
      BY <1>11 DEF Listed
    <3>2. Books(Marks)'
      BY <1>2, <1>9, <1>11, <3>1 DEF Good, Books
    <3>3. Tri(Marks, tmudata)'
      BY <1>2, <1>3, <1>9, <1>11 DEF Tri, Marked
    <3> QED BY <1>9, <3>1, <3>2, <3>3 DEF Good, Books
  <2>2. {registry, mainthread} \subseteq Marked(Marks)'
    BY <1>10, <1>11 DEF Marked
  <2> QED BY <1>2, <1>12, <2>1, <2>2 DEF Lists
<1> QED
  BY <1>13, <1>14, <1>15, <1>16, <1>17, <1>18 DEF IInv

(* One step of marking. *)
LEMMA PropagateMarkKeeps ==
  ASSUME IInv, NEW o \in gray, PropagateMark(o)
  PROVE  IInv'
<1> DEFINE r == Traverse(Marks, o)
<1>1. gcstate = "propagate"
  BY DEF PropagateMark
<1>2. /\ color' = r.color /\ key' = r.key /\ gray' = r.gray /\ grayagain' = r.again /\ weak' = r.weak
      /\ gcstate' = "propagate"
      /\ UNCHANGED <<alloc, val, open, mode, stack, running, currentwhite, unswept, tmudata, finalized>>
  BY DEF PropagateMark, SetMarks, CollectorOnly
<1>3. /\ HeapOK /\ Live = alloc /\ Stays(alloc) /\ Good(Marks) /\ Tri(Marks, tmudata) /\ unswept = {}
      /\ {registry, mainthread} \subseteq Marked(Marks) /\ o \in Marks.gray /\ alloc \subseteq Obj /\ Made
  BY <1>1, WhileMarking DEF IInv, Marks, HeapOK
<1>4. Good(r) /\ Ext(Marks, r) /\ Tri(r, tmudata)
  BY <1>3, TraverseKeeps
<1> HIDE DEF r
<1>5. /\ HeapOK' /\ Marks' = r /\ Marks' \in MarksType /\ Roots' = Roots
      /\ \A p \in Obj : AllRefs(p)' \subseteq AllRefs(p)
  BY <1>2, <1>4, MarkingStep DEF Good
<1>6. Live' = alloc
  <2>1. \A p \in alloc : color'[p] # otherwhite
    <3> TAKE p \in alloc
    <3>1. color[p] # otherwhite
      BY <1>3 DEF Live, IsDead
    <3>2. color'[p] \in White => color'[p] = color[p]
      BY <1>2, <1>3, <1>4 DEF Ext, Marks
    <3>3. otherwhite \in White
      BY DEF IInv, Kinds, otherwhite, Other, White
    <3> QED BY <3>1, <3>2, <3>3
  <2>2. otherwhite' = otherwhite
    BY <1>2 DEF otherwhite
  <2> QED BY <1>2, <2>1, <2>2 DEF Live, IsDead
<1>7. Kinds'
  BY <1>2, <1>5 DEF IInv, Kinds
<1>8. Stays(Live)' /\ RootsLive'
  BY <1>2, <1>3, <1>5, <1>6 DEF Stays, IInv, RootsLive
<1>9. Made'
  BY <1>2, <1>3, <1>4, KindAssumption DEF Made, Good, Books, Listable
<1>10. Fresh'
  BY <1>2 DEF IInv, Fresh
<1>11. ToSweep'
  BY <1>2, <1>3, <1>6 DEF ToSweep, Sweeping
<1>12. Lists'
  <2>1. Listed(Marks)' = Listed(r)
    BY <1>5 DEF Listed
  <2>2. Books(Marks)'
    BY <1>2, <1>4, <1>5, <2>1 DEF Good, Books
  <2>3. Tri(Marks, tmudata)'
    BY <1>2, <1>3, <1>4, <1>5 DEF Tri, Marked
  <2>4. {registry, mainthread} \subseteq Marked(Marks)'
    BY <1>3, <1>4, <1>5 DEF Marked, Ext
  <2> QED BY <1>2, <1>4, <1>6, <2>1, <2>2, <2>3, <2>4 DEF Lists, Good, Books
<1> QED
  BY <1>7, <1>8, <1>9, <1>10, <1>11, <1>12 DEF IInv

(* One object is swept: dead, it is freed, and nothing live referred to it. *)
LEMMA SweepKeeps ==
  ASSUME IInv, NEW o \in unswept, Sweep(o)
  PROVE  IInv'
<1> DEFINE ups  == {u \in alloc \cap Upvals : o \in Threads /\ open[u] # None /\ open[u][1] = o}
           free == {p \in ups \cup {o} : IsDead(p)}
           shut == IF o \in free THEN ups \ free ELSE {}
<1>1. /\ gcstate' \in {"sweepstring", "sweep"} /\ unswept' = unswept \ {o} /\ alloc' = alloc \ free
      /\ color' = [p \in Obj |-> IF p \in free THEN "w0" ELSE IF p \in ups \cup {o} THEN currentwhite
                                 ELSE color[p]]
      /\ val' = [p \in DOMAIN val |-> IF p \in shut THEN UpvalValue(p) ELSE IF p \in free THEN None ELSE val[p]]
      /\ key' = [t \in Tables |-> IF t \in free THEN None ELSE key[t]]
      /\ mode' = [t \in Tables |-> IF t \in free THEN {} ELSE mode[t]]
      /\ stack' = [h \in Threads |-> IF h \in free THEN [s \in Slots |-> None] ELSE stack[h]]
      /\ open' = [u \in Upvals |-> IF u \in shut \cup free THEN None ELSE open[u]]
      /\ finalized' = finalized \ free
      /\ UNCHANGED <<running, gray, grayagain, weak, currentwhite, tmudata>>
  BY DEF Sweep, lists
<1>2. /\ Kinds /\ HeapOK /\ Made /\ Fresh /\ ToSweep /\ alloc \subseteq Obj /\ o \in alloc /\ o \notin tmudata
      /\ Stays(Live) /\ Roots \cup tmudata \subseteq Live /\ Listed(Marks) \subseteq Live
      /\ unswept \subseteq Obj /\ currentwhite \in White
  BY DEF IInv, Kinds, HeapOK, ToSweep, RootsLive, Lists
<1>3. gcstate \in {"sweepstring", "sweep"}
  BY DEF IInv, ToSweep, Sweeping
<1>4. /\ ups \subseteq alloc \cap Upvals /\ \A u \in ups : open[u] # None /\ open[u][1] = o /\ o \in Threads
      /\ o \in Threads => \A u \in alloc \cap Upvals : open[u] # None /\ open[u][1] = o => u \in ups
  OBVIOUS
<1>5. /\ free \subseteq ups \cup {o} /\ \A p \in free : IsDead(p)
      /\ \A p \in ups \cup {o} : IsDead(p) => p \in free
  OBVIOUS
<1>6. /\ shut \subseteq ups /\ shut \cap free = {} /\ (shut # {} => o \in free)
      /\ o \in free => ups \subseteq shut \cup free
  OBVIOUS
<1> HIDE DEF ups, free, shut
<1>7. \A u \in Upvals : u \notin Tables \cup Udata \cup Closures \cup Threads \cup Strings
  BY KindAssumption
<1>8. HeapOK'
  <2>1. DOMAIN val = Tables \cup Udata \cup Closures \cup Upvals
    BY <1>2 DEF HeapOK
  <2>2. \A p \in shut : UpvalValue(p) \in Values /\ p \in Upvals
    BY <1>2, <1>4, <1>6, UpvalValues
  <2>3. /\ val' \in [Tables \cup Udata \cup Closures \cup Upvals -> Obj \cup {None}]
        /\ \A p \in Tables \cup Upvals : val'[p] \in Values
        /\ \A p \in Udata : val'[p] \in Tables \cup {None}
        /\ \A p \in Closures : val'[p] \in Upvals \cup {None}
    BY <1>1, <1>2, <1>7, <2>1, <2>2 DEF HeapOK, Values
  <2>4. key' \in [Tables -> Values] /\ mode' \in [Tables -> Modes]
    BY <1>1, <1>2, ObjAssumption DEF HeapOK, Values
  <2>5. stack' \in [Threads -> [Slots -> Values]] /\ open' \in [Upvals -> (Threads \X Slots) \cup {None}]
    BY <1>1, <1>2 DEF HeapOK, Values
  <2> QED BY <1>1, <1>2, <2>3, <2>4, <2>5 DEF HeapOK
<1>9. Kinds'
  <2>1. color' \in [Obj -> Colors]
    BY <1>1, <1>2 DEF Kinds, Marks, MarksType, Colors, White
  <2>2. Marks' \in MarksType
    BY <1>1, <1>2, <1>8, <2>1 DEF Kinds, Marks, MarksType, HeapOK
  <2> QED BY <1>1, <1>2, <1>8, <2>2 DEF Kinds
<1>10. Live' = Live
  <2>1. otherwhite' = otherwhite /\ currentwhite # otherwhite
    BY <1>1, <1>2 DEF otherwhite, Other, White
  <2>2. \A p \in alloc \ free : color'[p] = otherwhite <=> color[p] = otherwhite
    BY <1>1, <1>2, <1>5, <2>1 DEF IsDead
  <2> QED BY <1>1, <1>5, <2>1, <2>2 DEF Live, IsDead
<1>11. \A p \in Live : p \in alloc /\ p \notin free /\ p \in Obj
  BY <1>2, <1>5 DEF Live
<1>12. Stays(Live)'
  <2> SUFFICES ASSUME NEW p \in Live PROVE AllRefs(p)' \subseteq Live
    BY <1>10 DEF Stays
  <2>0. AllRefs(p) \subseteq Live
    BY <1>2 DEF Stays
  <2>1. CASE p \in shut
    <3>1. p \in Upvals /\ open'[p] = None /\ val'[p] = UpvalValue(p)
      BY <1>1, <1>2, <1>4, <1>6, <2>1 DEF HeapOK
    <3>2. AllRefs(p)' = {val'[p]} \ {None}
      BY <3>1, <1>7 DEF AllRefs, StrongRefs, WeakRefs, UpvalValue
    <3>3. AllRefs(p) = {UpvalValue(p)} \ {None}
      BY <3>1, RefsOfUpval DEF AllRefs
    <3> QED BY <2>0, <3>1, <3>2, <3>3
  <2>2. CASE p \notin shut
    <3>1. p \notin free /\ p \in Obj
      BY <1>11
    <3>2. p \in Tables => key'[p] = key[p]
      BY <1>1, <3>1
    <3>3. p \notin Threads \cup Strings => val'[p] = val[p]
      BY <1>1, <1>2, <2>2, <3>1 DEF HeapOK, Obj
    <3>4. p \in Upvals => open'[p] = open[p]
      BY <1>1, <2>2, <3>1
    <3>5. \A h \in Threads, s \in Slots : stack'[h][s] = stack[h][s] \/ stack'[h][s] \in {None}
      BY <1>1
    <3>6. Resumed(p)' \subseteq Resumed(p) \cup {None}
      BY <1>1 DEF Resumed
    <3>7. AllRefs(p)' \subseteq AllRefs(p) \cup {None}
      BY <1>2, <3>1, <3>2, <3>3, <3>4, <3>5, <3>6, RefsAfter
    <3>8. None \notin AllRefs(p)'
      BY DEF AllRefs, StrongRefs, WeakRefs
    <3> QED BY <2>0, <3>7, <3>8
  <2> QED BY <2>1, <2>2
<1>13. RootsLive'
  BY <1>1, <1>2, <1>10 DEF RootsLive, Roots
<1>14. Made'
  <2>1. \A c \in alloc' \cap Closures : val'[c] # None
    <3> TAKE c \in alloc' \cap Closures
    <3>1. c \notin shut
      BY <1>4, <1>6, <1>7
    <3> QED BY <1>1, <1>2, <3>1 DEF Made, HeapOK
  <2>2. ASSUME NEW u \in Upvals, open'[u] # None
        PROVE  u \in alloc' /\ open'[u][1] \in alloc' /\ color'[u] # "black"
    <3>1. u \notin shut \cup free /\ open'[u] = open[u] /\ u \in Obj
      BY <1>1, <2>2 DEF Obj
    <3>2. u \in alloc /\ open[u][1] \in alloc /\ color[u] # "black" /\ open[u][1] \in Threads
      BY <1>2, <2>2, <3>1 DEF Made, HeapOK
    <3>3. open[u][1] \notin free
      <4> SUFFICES ASSUME open[u][1] \in free PROVE FALSE
        OBVIOUS
      <4>1. open[u][1] = o
        BY <1>4, <1>5, <1>7, <3>2
      <4> QED BY <1>4, <1>6, <2>2, <3>1, <3>2, <4>1
    <3>4. color'[u] # "black"
      BY <1>1, <1>2, <3>1, <3>2 DEF White
    <3> QED BY <1>1, <3>1, <3>2, <3>3, <3>4
  <2>3. \A u \in alloc' \cap Udata : color'[u] # "gray"
    BY <1>1, <1>2 DEF Made, White
  <2> QED BY <2>1, <2>2, <2>3 DEF Made
<1>15. Fresh'
  <2>1. ASSUME NEW t \in Tables \ alloc' PROVE val'[t] = None
    <3>1. t \in DOMAIN val /\ t \notin shut
      BY <1>2, <1>4, <1>6, <1>7 DEF HeapOK
    <3> QED BY <1>1, <1>2, <3>1 DEF Fresh
  <2>2. \A h \in Threads \ alloc' : \A s \in Slots : stack'[h][s] = None
    BY <1>1, <1>2 DEF Fresh
  <2> QED BY <2>1, <2>2 DEF Fresh
<1>16. ToSweep'
  <2>1. unswept' \subseteq alloc' \ tmudata'
    <3>1. \A u \in ups : u \notin unswept
      BY <1>2, <1>4 DEF ToSweep
    <3> QED BY <1>1, <1>2, <1>5, <3>1 DEF ToSweep
  <2>2. \A u \in unswept' \cap Upvals : open'[u] = None
    BY <1>1, <1>2 DEF ToSweep
  <2>3. ASSUME NEW p \in alloc' \ tmudata', color'[p] # currentwhite'
        PROVE  p \in unswept' \/ (p \in Upvals /\ open'[p] # None /\ open'[p][1] \in unswept')
    <3>1. p \in alloc \ tmudata /\ p \notin free /\ p \notin ups \cup {o} /\ color[p] # currentwhite
      BY <1>1, <1>2, <2>3
    <3>2. CASE p \in unswept
      BY <1>1, <3>1, <3>2
    <3>3. CASE p \in Upvals /\ open[p] # None /\ open[p][1] \in unswept
      <4>1. open[p][1] \in Threads
        BY <1>2, <3>3 DEF HeapOK
      <4>2. open[p][1] # o /\ p \notin shut \cup free
        BY <1>4, <1>6, <3>1, <3>3, <4>1
      <4> QED BY <1>1, <3>3, <4>2
    <3> QED BY <1>2, <1>3, <3>1, <3>2, <3>3 DEF ToSweep
  <2> QED BY <1>1, <2>1, <2>2, <2>3 DEF ToSweep, Sweeping
<1>17. Lists'
  <2>1. Listed(Marks)' = Listed(Marks)
    BY <1>1 DEF Listed, Marks
  <2> QED BY <1>1, <1>2, <1>3, <1>10, <2>1 DEF Lists, IInv
<1> QED
  BY <1>9, <1>10, <1>12, <1>13, <1>14, <1>15, <1>16, <1>17 DEF IInv

(* A step that leaves the heap and the colours alone. *)
LEMMA SameHeap ==
  ASSUME IInv, UNCHANGED <<alloc, color, key, val, mode, stack, open, running, currentwhite, tmudata, finalized>>
  PROVE  HeapOK' /\ Stays(Live)' /\ RootsLive' /\ Made' /\ Fresh' /\ Live' = Live
<1>1. Live' = Live
  BY DEF Live, IsDead, otherwhite
<1>2. \A o \in Obj : AllRefs(o)' = AllRefs(o)
  BY DEF AllRefs, StrongRefs, WeakRefs, UpvalValue, OfThread, Resumed
<1>3. Live \subseteq Obj
  BY DEF IInv, Kinds, HeapOK, Live
<1>4. Stays(Live)'
  BY <1>1, <1>2, <1>3 DEF IInv, Stays
<1>5. RootsLive'
  BY <1>1 DEF IInv, RootsLive, Roots
<1> QED
  BY <1>1, <1>4, <1>5 DEF IInv, Kinds, HeapOK, Made, Fresh

(* The sweep has met every object: none is dead. *)
LEMMA SweepEndKeeps ==
  ASSUME IInv, SweepEnd
  PROVE  IInv'
<1>1. /\ gcstate = "sweep" /\ unswept = {} /\ gcstate' = "finalize"
      /\ UNCHANGED <<alloc, color, key, val, mode, stack, open, running, gray, grayagain, weak,
                     currentwhite, unswept, tmudata, finalized>>
  BY DEF SweepEnd, CollectorOnly, lists
<1>2. HeapOK' /\ Stays(Live)' /\ RootsLive' /\ Made' /\ Fresh' /\ Live' = Live
  BY <1>1, SameHeap
<1>3. Live = alloc
  <2>1. \A o \in alloc \ tmudata : color[o] = currentwhite
    BY <1>1 DEF IInv, ToSweep
  <2>2. currentwhite # otherwhite
    BY DEF IInv, Kinds, otherwhite, Other, White
  <2>3. tmudata \subseteq Live
    BY DEF IInv, RootsLive
  <2> QED BY <2>1, <2>2, <2>3 DEF Live, IsDead
<1>4. Kinds'
  BY <1>1, <1>2 DEF IInv, Kinds, Marks
<1>5. ToSweep'
  BY <1>1, <1>2, <1>3 DEF IInv, ToSweep, Sweeping
<1>6. Lists'
  BY <1>1, <1>2 DEF IInv, Lists, Listed, Marks
<1> QED
  BY <1>2, <1>4, <1>5, <1>6 DEF IInv

(* A cycle ends. *)
LEMMA PauseKeeps ==
  ASSUME IInv, Pause
  PROVE  IInv'
<1>1. /\ gcstate = "finalize" /\ gcstate' = "pause"
      /\ UNCHANGED <<alloc, color, key, val, mode, stack, open, running, gray, grayagain, weak,
                     currentwhite, unswept, tmudata, finalized>>
  BY DEF Pause, CollectorOnly, lists
<1>2. HeapOK' /\ Stays(Live)' /\ RootsLive' /\ Made' /\ Fresh' /\ Live' = Live
  BY <1>1, SameHeap
<1>3. Kinds'
  BY <1>1, <1>2 DEF IInv, Kinds, Marks
<1>4. ToSweep'
  BY <1>1, <1>2 DEF IInv, ToSweep, Sweeping
<1>5. Lists'
  BY <1>1, <1>2 DEF IInv, Lists, Listed, Marks
<1> QED
  BY <1>2, <1>3, <1>4, <1>5 DEF IInv

(* luaC_fullgc throws the cycle under way away. *)
LEMMA FullGCKeeps ==
  ASSUME IInv, FullGC
  PROVE  IInv'
<1>1. UNCHANGED <<alloc, color, key, val, mode, stack, open, running, currentwhite, tmudata, finalized>>
  BY DEF FullGC, heap
<1>2. HeapOK' /\ Stays(Live)' /\ RootsLive' /\ Made' /\ Fresh' /\ Live' = Live
  BY <1>1, SameHeap
<1>3. HeapOK /\ Made /\ Kinds /\ ToSweep /\ tmudata \subseteq Udata /\ alloc \subseteq Obj
  BY DEF IInv, Kinds, HeapOK
<1>4. CASE gcstate \in {"pause", "propagate"}
  <2>1. /\ gray' = {} /\ grayagain' = {} /\ weak' = {} /\ gcstate' = "sweepstring"
        /\ unswept' = {o \in alloc \ tmudata : o \in Upvals => open[o] = None}
    BY <1>4 DEF FullGC
  <2>2. Kinds'
    BY <1>1, <1>2, <1>3, <2>1 DEF Kinds, Marks, MarksType
  <2>3. ToSweep'
    <3>1. \A u \in Upvals : open[u] # None => open[u][1] \in alloc \ tmudata /\ open[u][1] \notin Upvals
      BY <1>3, KindAssumption DEF Made, HeapOK
    <3> QED BY <1>1, <2>1, <3>1 DEF ToSweep, Sweeping
  <2>4. Lists'
    BY <2>1 DEF Lists, Listed, Marks
  <2> QED BY <1>2, <2>2, <2>3, <2>4 DEF IInv
<1>5. CASE gcstate \notin {"pause", "propagate"}
  <2>1. UNCHANGED <<gray, grayagain, weak, unswept, gcstate>>
    BY <1>5 DEF FullGC, lists
  <2>2. Kinds'
    BY <1>1, <1>2, <1>3, <2>1 DEF Kinds, Marks
  <2>3. ToSweep'
    BY <1>1, <1>2, <1>3, <2>1 DEF ToSweep, Sweeping
  <2>4. Lists'
    BY <1>2, <1>5, <2>1 DEF IInv, Lists, Listed, Marks
  <2> QED BY <1>2, <2>2, <2>3, <2>4 DEF IInv
<1> QED
  BY <1>4, <1>5

-----------------------------------------------------------------------------
(* The program's steps. *)

(* The running coroutine and the registry are objects that live. *)
LEMMA LThread ==
  ASSUME IInv
  PROVE  /\ L \in Threads \cap Live /\ registry \in Live \cap Tables /\ mainthread \in Live \cap Threads
         /\ L \in alloc /\ Live \subseteq alloc /\ alloc \subseteq Obj /\ HeapOK /\ \A o \in Obj : o # None
BY RunningThread, ObjAssumption DEF IInv, Kinds, HeapOK, RootsLive, Live, Roots

(* What is on the stack or one access away is not dead. *)
LEMMA OnStackLive ==
  ASSUME IInv
  PROVE  OnStack \subseteq Live /\ OnStack \subseteq Values
<1>1. \A s \in Slots : stack[L][s] \in OfThread(L)
  BY DEF OfThread
<1>2. OfThread(L) \ {None} \subseteq Live
  BY LThread, RefsOfThread DEF IInv, Stays, AllRefs
<1>3. \A s \in Slots : stack[L][s] \in Values
  BY LThread DEF HeapOK
<1> QED
  BY <1>1, <1>2, <1>3 DEF OnStack

(* What one access brings to the stack is not dead. *)
LEMMA InReachLive ==
  ASSUME IInv
  PROVE  InReach \subseteq Live \cup {None} /\ InReach \subseteq Values
<1>1. /\ HeapOK /\ Stays(Live) /\ OnStack \subseteq Live /\ L \in Threads \cap Live /\ registry \in Live \cap Tables
      /\ Live \subseteq alloc /\ alloc \subseteq Obj /\ Made
  BY LThread, OnStackLive DEF IInv
<1>2. \A o \in Obj \ Upvals : o \in Values
  BY DEF Values
<1>3. registry \in Values /\ L \in Values /\ None \in Values
  BY <1>1, KindAssumption DEF Values, Obj
<1>4. ASSUME NEW t \in (OnStack \cap Tables) \cup {registry}, val[t] # None
      PROVE  {key[t], val[t]} \subseteq Values \cap (Live \cup {None})
  <2>1. t \in Live \cap Tables
    BY <1>1
  <2>2. {key[t], val[t]} \subseteq Live \cup {None}
    BY <1>1, <1>4, <2>1, RefsOfTable DEF Stays
  <2>3. {key[t], val[t]} \subseteq Values
    BY <1>1, <2>1 DEF HeapOK
  <2> QED BY <2>2, <2>3
<1>5. ASSUME NEW u \in OnStack \cap Udata
      PROVE  val[u] \in Values \cap (Live \cup {None})
  <2>1. val[u] \in Live \cup {None}
    BY <1>1, RefsOfUdata DEF Stays, AllRefs
  <2>2. val[u] \in Values
    BY <1>1, KindAssumption DEF HeapOK, Values, Obj
  <2> QED BY <2>1, <2>2
<1>6. ASSUME NEW c \in OnStack \cap Closures
      PROVE  UpvalValue(val[c]) \in Values \cap (Live \cup {None})
  <2>1. val[c] \in Live \cap Upvals
    <3>1. val[c] \in Upvals /\ val[c] # None
      BY <1>1 DEF Made, HeapOK
    <3> QED BY <1>1, <3>1, RefsOfUdata DEF Stays, AllRefs
  <2>2. UpvalValue(val[c]) \in Live \cup {None}
    BY <1>1, <2>1, RefsOfUpval DEF Stays, AllRefs
  <2> QED BY <1>1, <2>1, <2>2, UpvalValues
<1> QED
  BY <1>1, <1>3, <1>4, <1>5, <1>6 DEF InReach

(* A step that only stores what lives in stacks, resumes it, or changes a mode. *)
LEMMA StackStep ==
  ASSUME IInv, NEW X \in SUBSET (Live \cup {None}),
         UNCHANGED <<alloc, color, key, val, open, gray, grayagain, weak, gcstate, currentwhite,
                     unswept, tmudata, finalized>>,
         mode' \in [Tables -> Modes], stack' \in [Threads -> [Slots -> Values]],
         \A h \in Threads, s \in Slots : stack'[h][s] = stack[h][s] \/ (h \in alloc /\ stack'[h][s] \in X),
         running' \in Seq(Threads), Len(running') > 0, running'[1] = mainthread,
         \A h \in Threads : Resumed(h)' \subseteq Resumed(h) \cup X,
         Roots' \subseteq Live
  PROVE  IInv'
<1>1. HeapOK /\ Kinds /\ Live \subseteq alloc /\ alloc \subseteq Obj /\ Made /\ Stays(Live) /\ ToSweep /\ Fresh /\ Lists
  BY LThread DEF IInv
<1>2. HeapOK' /\ Kinds'
  BY <1>1 DEF HeapOK, Kinds, Marks
<1>3. Live' = Live
  BY DEF Live, IsDead, otherwhite
<1>4. \A o \in Obj : /\ AllRefs(o)' \subseteq AllRefs(o) \cup X
                     /\ o \notin Threads /\ (o \in Upvals => open[o] = None) => AllRefs(o)' = AllRefs(o)
  <2> TAKE o \in Obj
  <2>1. \A h \in Threads, s \in Slots : stack'[h][s] = stack[h][s] \/ stack'[h][s] \in X
    OBVIOUS
  <2> QED BY <1>1, <2>1, RefsAfter
<1>5. Stays(Live)'
  <2>1. \A o \in Live : AllRefs(o)' \subseteq Live \cup {None}
    BY <1>1, <1>4 DEF Stays
  <2>2. \A o \in Live : None \notin AllRefs(o)'
    BY DEF AllRefs, StrongRefs, WeakRefs
  <2> QED BY <1>3, <2>1, <2>2 DEF Stays
<1>6. RootsLive'
  BY <1>3 DEF IInv, RootsLive
<1>7. Made' /\ Fresh'
  BY <1>1 DEF Made, Fresh
<1>8. ToSweep'
  BY <1>1, <1>3 DEF ToSweep, Sweeping
<1>9. Lists'
  <2>1. Marks' = Marks /\ Listed(Marks)' = Listed(Marks)
    BY DEF Marks, Listed
  <2>2. Books(Marks)' <=> Books(Marks)
    BY <2>1 DEF Books, Listed
  <2>3. Tri(Marks, tmudata) /\ Books(Marks) => Tri(Marks, tmudata)'
    <3> SUFFICES ASSUME Tri(Marks, tmudata), Books(Marks), NEW o \in alloc \ tmudata, color[o] = "black"
                 PROVE  AllRefs(o)' \subseteq Marked(Marks)
      BY <2>1 DEF Tri, Marked, Marks
    <3>1. o \notin Threads /\ (o \in Upvals => open[o] = None)
      BY <1>1 DEF Books, Marks, Made
    <3> QED BY <1>1, <1>4, <3>1 DEF Tri, Marks
  <2>4. Marked(Marks)' = Marked(Marks)
    BY <2>1 DEF Marked
  <2> QED BY <1>1, <1>3, <2>1, <2>2, <2>3, <2>4 DEF Lists
<1> QED
  BY <1>2, <1>5, <1>6, <1>7, <1>8, <1>9 DEF IInv

(* A load. *)
LEMMA LoadKeeps ==
  ASSUME IInv, NEW s \in Slots, NEW o \in Values, Load(s, o)
  PROVE  IInv'
<1>1. /\ o \in InReach /\ stack' = [stack EXCEPT ![L][s] = o]
      /\ UNCHANGED <<alloc, color, key, val, mode, open, running, gray, grayagain, weak, gcstate, currentwhite,
                     unswept, tmudata, finalized>>
  BY DEF Load, lists, MutatorOnly
<1>2. {o} \in SUBSET (Live \cup {None})
  BY <1>1, InReachLive
<1>3. (\A h \in Threads : Resumed(h)' = Resumed(h)) /\ Roots' = Roots
  BY <1>1 DEF Resumed, Roots
<1>4. stack' \in [Threads -> [Slots -> Values]] /\ mode' \in [Tables -> Modes]
  BY <1>1, LThread DEF HeapOK
<1>5. \A h \in Threads, t \in Slots : stack'[h][t] = stack[h][t] \/ (h \in alloc /\ stack'[h][t] \in {o})
  BY <1>1, LThread DEF HeapOK
<1>6. running' \in Seq(Threads) /\ Len(running') > 0 /\ running'[1] = mainthread /\ Roots' \subseteq Live
  BY <1>1, <1>3, LThread DEF IInv, RootsLive, HeapOK
<1>7. \A h \in Threads : Resumed(h)' \subseteq Resumed(h) \cup {o}
  BY <1>3
<1> QED
  BY <1>1, <1>2, <1>4, <1>5, <1>6, <1>7, StackStep

(* A table is made weak, or strong: it referred to its entry before. *)
LEMMA SetModeKeeps ==
  ASSUME IInv, NEW t \in Tables, NEW md \in Modes, SetMode(t, md)
  PROVE  IInv'
<1>1. /\ mode' = [mode EXCEPT ![t] = md]
      /\ UNCHANGED <<alloc, color, key, val, stack, open, running, gray, grayagain, weak, gcstate, currentwhite,
                     unswept, tmudata, finalized>>
  BY DEF SetMode, lists, MutatorOnly
<1>2. (\A h \in Threads : Resumed(h)' = Resumed(h)) /\ Roots' = Roots
  BY <1>1 DEF Resumed, Roots
<1>3. mode' \in [Tables -> Modes]
  BY <1>1, LThread DEF HeapOK
<1>4. {} \in SUBSET (Live \cup {None})
  OBVIOUS
<1> QED
  BY <1>1, <1>2, <1>3, <1>4, StackStep, LThread DEF IInv, RootsLive, HeapOK

(* A coroutine is resumed: from then on who resumed it refers to it. *)
LEMMA ResumeKeeps ==
  ASSUME IInv, NEW h \in Threads, Resume(h)
  PROVE  IInv'
<1>1. /\ h \in OnStack /\ running' = Append(running, h)
      /\ UNCHANGED <<alloc, color, key, val, mode, stack, open, gray, grayagain, weak, gcstate, currentwhite,
                     unswept, tmudata, finalized>>
  BY DEF Resume, lists, MutatorOnly
<1>2. running \in Seq(Threads) /\ Len(running) \in Nat /\ Len(running) > 0 /\ running[1] = mainthread
  BY LThread DEF HeapOK
<1>3. running' \in Seq(Threads) /\ Len(running') = Len(running) + 1 /\ running'[1] = mainthread
      /\ \A i \in 1 .. Len(running) + 1 : running'[i] = IF i <= Len(running) THEN running[i] ELSE h
  BY <1>1, <1>2
<1>4. {h} \in SUBSET (Live \cup {None}) /\ h \in Live
  BY <1>1, OnStackLive
<1>5. \A g \in Threads : Resumed(g)' \subseteq Resumed(g) \cup {h}
  <2> SUFFICES ASSUME NEW g \in Threads, NEW i \in 2 .. Len(running) + 1, running'[i - 1] = g
               PROVE  running'[i] \in Resumed(g) \cup {h}
    BY <1>3 DEF Resumed
  <2>1. i \in Nat /\ i <= Len(running) + 1 /\ i - 1 \in 1 .. Len(running)
    BY <1>2
  <2>2. running[i - 1] = g
    BY <1>2, <1>3, <2>1
  <2>3. CASE i <= Len(running)
    <3>1. running'[i] = running[i] /\ i \in 2 .. Len(running)
      BY <1>2, <1>3, <2>1, <2>3
    <3> QED BY <2>2, <3>1 DEF Resumed
  <2>4. CASE ~(i <= Len(running))
    BY <1>2, <1>3, <2>1, <2>4
  <2> QED BY <2>3, <2>4
<1>6. Roots' \subseteq Roots \cup {h}
  BY <1>2, <1>3 DEF Roots
<1>7. Roots' \subseteq Live
  BY <1>4, <1>6 DEF IInv, RootsLive
<1>8. stack' \in [Threads -> [Slots -> Values]] /\ mode' \in [Tables -> Modes] /\ stack' = stack
  BY <1>1, LThread DEF HeapOK
<1>9. Len(running') > 0
  BY <1>2, <1>3
<1> QED
  BY <1>1, <1>3, <1>4, <1>5, <1>7, <1>8, <1>9, StackStep

(* The running coroutine yields to who resumed it. *)
LEMMA YieldKeeps ==
  ASSUME IInv, Yield
  PROVE  IInv'
<1>1. /\ Len(running) > 1 /\ running' = SubSeq(running, 1, Len(running) - 1)
      /\ UNCHANGED <<alloc, color, key, val, mode, stack, open, gray, grayagain, weak, gcstate, currentwhite,
                     unswept, tmudata, finalized>>
  BY DEF Yield, lists, MutatorOnly
<1>2. running \in Seq(Threads) /\ Len(running) \in Nat /\ running[1] = mainthread
  BY LThread DEF HeapOK
<1>3. /\ running' \in Seq(Threads) /\ Len(running') = Len(running) - 1 /\ running'[1] = mainthread
      /\ \A i \in 1 .. Len(running) - 1 : running'[i] = running[i]
  BY <1>1, <1>2
<1>4. \A g \in Threads : Resumed(g)' \subseteq Resumed(g) \cup {}
  <2> SUFFICES ASSUME NEW g \in Threads, NEW i \in 2 .. Len(running) - 1, running'[i - 1] = g
               PROVE  running'[i] \in Resumed(g)
    BY <1>3 DEF Resumed
  <2>1. i \in Nat /\ i - 1 \in 1 .. Len(running) - 1 /\ i \in 1 .. Len(running) - 1 /\ i \in 2 .. Len(running)
    BY <1>2
  <2>2. running[i - 1] = g /\ running'[i] = running[i]
    BY <1>3, <2>1
  <2> QED BY <2>1, <2>2 DEF Resumed
<1>5. Roots' \subseteq Roots
  BY <1>1, <1>2, <1>3 DEF Roots
<1>6. Roots' \subseteq Live /\ {} \in SUBSET (Live \cup {None})
  BY <1>5 DEF IInv, RootsLive
<1>7. stack' \in [Threads -> [Slots -> Values]] /\ mode' \in [Tables -> Modes] /\ stack' = stack
  BY <1>1, LThread DEF HeapOK
<1>8. Len(running') > 0
  BY <1>1, <1>2, <1>3
<1> QED
  BY <1>1, <1>3, <1>4, <1>6, <1>7, <1>8, StackStep

(* A step that makes the objects of N, or makes them white again, as they   *)
(* refer to what lives only; while marking N is new.                        *)
LEMMA GrowStep ==
  ASSUME IInv, HeapOK', NEW N \in SUBSET Obj, NEW X \in SUBSET (Live \cup N \cup {None}),
         alloc' = alloc \cup N,
         color' \in [Obj -> Colors],
         \A o \in Obj : color'[o] = IF o \in N THEN currentwhite ELSE color[o],
         UNCHANGED <<key, mode, running, gray, grayagain, weak, gcstate, currentwhite, unswept>>,
         finalized' \subseteq Udata,
         tmudata' \subseteq tmudata, tmudata \ tmudata' \subseteq N,
         gcstate = "propagate" => N \cap alloc = {} /\ tmudata' = tmudata,
         \A o \in Obj \ N : o \notin Threads \cup Strings => val'[o] = val[o],
         \A u \in Upvals \ N : open'[u] = open[u],
         \A h \in Threads, s \in Slots : stack'[h][s] = stack[h][s] \/ (h \in alloc /\ stack'[h][s] \in X),
         \A o \in N : AllRefs(o)' \subseteq Live \cup N,
         \A c \in N \cap Closures : val'[c] # None,
         \A u \in N \cap Upvals : open'[u] # None => open'[u][1] \in alloc /\ u \notin unswept
  PROVE  IInv'
<1>1. /\ HeapOK /\ Kinds /\ Live \subseteq alloc /\ alloc \subseteq Obj /\ Made /\ Stays(Live) /\ ToSweep /\ Fresh /\ Lists
      /\ RootsLive /\ currentwhite \in White /\ color \in [Obj -> Colors]
  BY LThread DEF IInv, Kinds, Marks, MarksType
<1>2. Kinds'
  <2>1. Marks' \in MarksType
    BY <1>1 DEF Kinds, HeapOK, Marks, MarksType
  <2> QED BY <1>1, <2>1 DEF Kinds
<1>3. otherwhite' = otherwhite /\ currentwhite # otherwhite
  BY <1>1 DEF otherwhite, Other, White
<1>4. Live' = Live \cup N
  BY <1>1, <1>3 DEF Live, IsDead
<1>5. \A o \in Obj \ N : /\ AllRefs(o)' \subseteq AllRefs(o) \cup X
                         /\ o \notin Threads /\ (o \in Upvals => open[o] = None) => AllRefs(o)' = AllRefs(o)
  <2> TAKE o \in Obj \ N
  <2>1. \A h \in Threads, s \in Slots : stack'[h][s] = stack[h][s] \/ stack'[h][s] \in X
    OBVIOUS
  <2>2. Resumed(o)' = Resumed(o)
    BY DEF Resumed
  <2> QED BY <1>1, <2>1, <2>2, RefsAfter
<1>6. Stays(Live)'
  <2>1. \A o \in Live \ N : AllRefs(o)' \subseteq Live \cup N \cup {None}
    BY <1>1, <1>5 DEF Stays
  <2>2. \A o \in Live : None \notin AllRefs(o)'
    BY DEF AllRefs, StrongRefs, WeakRefs
  <2> QED BY <1>4, <2>1, <2>2 DEF Stays
<1>7. RootsLive'
  BY <1>1, <1>4 DEF RootsLive, Roots
<1>8. Made'
  <2>1. \A c \in alloc' \cap Closures : val'[c] # None
    <3> TAKE c \in alloc' \cap Closures
    <3>1. CASE c \in N
      BY <3>1
    <3>2. CASE c \notin N
      <4>1. c \notin Threads \cup Strings /\ c \in alloc
        BY <3>2, KindAssumption
      <4> QED BY <1>1, <3>2, <4>1 DEF Made
    <3> QED BY <3>1, <3>2
  <2>2. ASSUME NEW u \in Upvals, open'[u] # None
        PROVE  u \in alloc' /\ open'[u][1] \in alloc' /\ color'[u] # "black"
    <3>1. u \in Obj
      BY DEF Obj
    <3>2. CASE u \in N
      BY <1>1, <2>2, <3>1, <3>2 DEF White
    <3>3. CASE u \notin N
      BY <1>1, <2>2, <3>1, <3>3 DEF Made
    <3> QED BY <3>2, <3>3
  <2>3. \A u \in alloc' \cap Udata : color'[u] # "gray"
    BY <1>1 DEF Made, White
  <2> QED BY <2>1, <2>2, <2>3 DEF Made
<1>9. Fresh'
  <2>1. ASSUME NEW t \in Tables \ alloc' PROVE val'[t] = None
    <3>1. t \notin N /\ t \notin Threads \cup Strings /\ t \in Obj
      BY KindAssumption DEF Obj
    <3> QED BY <1>1, <3>1 DEF Fresh
  <2>2. \A h \in Threads \ alloc' : \A s \in Slots : stack'[h][s] = None
    BY <1>1 DEF Fresh
  <2> QED BY <2>1, <2>2 DEF Fresh
<1>10. ToSweep'
  <2>1. unswept' \subseteq alloc' \ tmudata'
    BY <1>1 DEF ToSweep
  <2>2. \A u \in unswept' \cap Upvals : open'[u] = None
    BY <1>1 DEF ToSweep
  <2>3. ~Sweeping' => unswept' = {} /\ Live' = alloc'
    BY <1>1, <1>4 DEF ToSweep, Sweeping
  <2>4. ASSUME gcstate' # "propagate", NEW o \in alloc' \ tmudata', color'[o] # currentwhite'
        PROVE  o \in unswept' \/ (o \in Upvals /\ open'[o] # None /\ open'[o][1] \in unswept')
    <3>1. o \notin N /\ o \in alloc \ tmudata /\ color[o] # currentwhite /\ o \in Obj
      BY <1>1, <2>4
    <3>2. o \in unswept \/ (o \in Upvals /\ open[o] # None /\ open[o][1] \in unswept)
      BY <1>1, <2>4, <3>1 DEF ToSweep
    <3> QED BY <3>1, <3>2
  <2> QED BY <2>1, <2>2, <2>3, <2>4 DEF ToSweep
<1>11. Lists'
  <2>1. Listed(Marks)' = Listed(Marks) /\ Marks'.color = color'
    BY DEF Marks, Listed
  <2>2. ASSUME gcstate = "propagate"
        PROVE  Books(Marks)' /\ Tri(Marks, tmudata)' /\ {registry, mainthread} \subseteq Marked(Marks)'
    <3>1. N \cap alloc = {} /\ Live = alloc /\ tmudata' = tmudata
      BY <1>1, <2>2 DEF ToSweep, Sweeping
    <3>2. /\ Marked(Marks) = {o \in Obj : color[o] \notin White}
          /\ Marked(Marks)' = {o \in Obj : color'[o] \notin White}
      BY DEF Marked, Marks
    <3>3. alloc \cap Marked(Marks) \subseteq Marked(Marks)'
      BY <1>1, <3>1, <3>2
    <3>4. Books(Marks)'
      <4>0. Books(Marks) /\ Marks.color = color
        BY <1>1, <2>2 DEF Lists, Marks
      <4>1. /\ Listed(Marks)' \subseteq alloc' \cap Listable /\ weak' \subseteq Tables
            /\ gray' \cap grayagain' = {} /\ gray' \cap weak' = {} /\ grayagain' \cap weak' = {}
        BY <2>1, <4>0 DEF Books, Marks
      <4>2. \A o \in alloc' : color'[o] = "gray" => o \in Listed(Marks) \cup Strings \cup Upvals
        BY <1>1, <4>0 DEF Books, White
      <4>3. \A o \in Listed(Marks) : color'[o] = "gray"
        <5>1. Listed(Marks) \subseteq alloc
          BY <4>0 DEF Books
        <5> QED BY <1>1, <3>1, <4>0, <5>1 DEF Books
      <4>4. \A h \in alloc' \cap Threads : color'[h] # "black"
        BY <1>1, <4>0 DEF Books, White
      <4>5. \A u \in alloc' \cap Upvals : color'[u] = "gray" => open'[u] # None
        BY <1>1, <4>0 DEF Books, White
      <4>6. \A u \in Upvals : open'[u] # None => color'[u] # "black"
        BY <1>8 DEF Made
      <4> QED BY <2>1, <4>1, <4>2, <4>3, <4>4, <4>5, <4>6 DEF Books, Marks
    <3>5. Tri(Marks, tmudata)'
      <4> SUFFICES ASSUME NEW o \in alloc' \ tmudata', color'[o] = "black"
                   PROVE  AllRefs(o)' \subseteq Marked(Marks)'
        BY <2>1 DEF Tri
      <4>1. o \notin N /\ o \in alloc \ tmudata /\ color[o] = "black" /\ o \in Obj
        BY <1>1, <3>1 DEF White
      <4>2. o \notin Threads /\ (o \in Upvals => open[o] = None)
        BY <1>1, <2>2, <4>1 DEF Lists, Books, Marks, Made
      <4>3. AllRefs(o)' = AllRefs(o)
        BY <1>5, <4>1, <4>2
      <4>4. AllRefs(o) \subseteq Marked(Marks) /\ AllRefs(o) \subseteq alloc
        BY <1>1, <2>2, <3>1, <4>1 DEF Lists, Tri, Marks, Stays
      <4> QED BY <3>3, <4>3, <4>4
    <3>6. {registry, mainthread} \subseteq Marked(Marks)'
      BY <1>1, <2>2, <3>1, <3>3, LThread DEF Lists
    <3> QED BY <3>4, <3>5, <3>6
  <2> QED BY <1>1, <1>4, <2>1, <2>2 DEF Lists
<1> QED
  BY <1>2, <1>6, <1>7, <1>8, <1>9, <1>10, <1>11 DEF IInv

(* A finalizer is called with its udata, white again. *)
LEMMA GCTMKeeps ==
  ASSUME IInv, closing = "no", NEW u \in tmudata, NEW s \in Slots, GCTM(u, s)
  PROVE  IInv'
<1>1. /\ gcstate = "finalize" /\ tmudata' = tmudata \ {u}
      /\ color' = [color EXCEPT ![u] = currentwhite] /\ stack' = [stack EXCEPT ![L][s] = u]
      /\ UNCHANGED <<alloc, key, val, mode, open, running, gcstate, currentwhite, gray, grayagain, weak, unswept,
                     finalized>>
  BY DEF GCTM, lists
<1>2. u \in Live /\ u \in Udata /\ u \in Obj /\ u \in Values
  BY LThread, KindAssumption DEF IInv, RootsLive, Kinds, Obj, Values
<1>3. color \in [Obj -> Colors] /\ currentwhite \in White /\ finalized \subseteq Udata
  BY DEF IInv, Kinds, Marks, MarksType
<1>4. HeapOK'
  BY <1>1, <1>2, LThread DEF HeapOK
<1>5. color' \in [Obj -> Colors] /\ \A o \in Obj : color'[o] = IF o \in {u} THEN currentwhite ELSE color[o]
  BY <1>1, <1>3 DEF Colors
<1>6. \A h \in Threads, t \in Slots : stack'[h][t] = stack[h][t] \/ (h \in alloc /\ stack'[h][t] \in {u})
  BY <1>1, LThread DEF HeapOK
<1>7. AllRefs(u)' = AllRefs(u)
  <2>1. u \notin Threads \cup Upvals \cup Tables
    BY <1>2, KindAssumption
  <2> QED BY <1>1, <2>1 DEF AllRefs, StrongRefs, WeakRefs
<1>8. AllRefs(u)' \subseteq Live \cup {u}
  BY <1>2, <1>7 DEF IInv, Stays
<1>9. \A c \in {u} \cap (Closures \cup Upvals) : FALSE
  BY <1>2, KindAssumption
<1>10. {u} \in SUBSET Obj /\ {u} \in SUBSET (Live \cup {u} \cup {None}) /\ alloc' = alloc \cup {u}
  BY <1>1, <1>2, LThread
<1> QED
  BY <1>1, <1>3, <1>4, <1>5, <1>6, <1>8, <1>9, <1>10, GrowStep

(* A table, a udata or a thread is made. *)
LEMMA NewKeeps ==
  ASSUME IInv, NEW s \in Slots, NEW o \in Values, New(s, o)
  PROVE  IInv'
<1>1. /\ o \in (Tables \cup Udata \cup Threads) \ alloc /\ alloc' = alloc \cup {o}
      /\ color' = [color EXCEPT ![o] = currentwhite] /\ stack' = [stack EXCEPT ![L][s] = o]
      /\ UNCHANGED <<key, mode, open, running, gcstate, currentwhite, gray, grayagain, weak, unswept, tmudata,
                     finalized>>
  BY DEF New, lists, MutatorOnly
<1>2. /\ o \notin Udata => val' = val
      /\ o \in Udata => \E e \in (OnStack \cap Tables) \cup {registry} : val' = [val EXCEPT ![o] = e]
  BY DEF New
<1>3. color \in [Obj -> Colors] /\ currentwhite \in White /\ finalized \subseteq Udata /\ Fresh /\ Made
      /\ OnStack \subseteq Live /\ o \in Obj
  BY <1>1, OnStackLive DEF IInv, Kinds, Marks, MarksType, Obj
<1>4. /\ val' \in [Tables \cup Udata \cup Closures \cup Upvals -> Obj \cup {None}]
      /\ \A p \in DOMAIN val : p # o => val'[p] = val[p]
      /\ o \in Udata => val'[o] \in Tables \cap Live
      /\ o \notin Udata => val'[o] = val[o]
  <2>1. CASE o \notin Udata
    BY <1>2, <2>1, LThread DEF HeapOK
  <2>2. CASE o \in Udata
    <3>1. PICK e \in (OnStack \cap Tables) \cup {registry} : val' = [val EXCEPT ![o] = e]
      BY <1>2, <2>2
    <3>2. e \in Tables \cap Live /\ e \in Obj
      BY <1>3, LThread DEF Obj
    <3> QED BY <2>2, <3>1, <3>2, LThread DEF HeapOK
  <2> QED BY <2>1, <2>2
<1>5. HeapOK'
  <2>1. stack' \in [Threads -> [Slots -> Values]]
    BY <1>1, LThread DEF HeapOK
  <2>2. \A p \in Tables \cup Upvals \cup Closures : p # o \/ o \notin Udata
    BY KindAssumption
  <2>3. /\ \A p \in Tables \cup Upvals : val'[p] \in Values
        /\ \A p \in Udata : val'[p] \in Tables \cup {None}
        /\ \A p \in Closures : val'[p] \in Upvals \cup {None}
    BY <1>3, <1>4, <2>2, LThread DEF HeapOK
  <2> QED BY <1>1, <1>3, <1>4, <2>1, <2>3, LThread DEF HeapOK
<1>6. color' \in [Obj -> Colors] /\ \A p \in Obj : color'[p] = IF p \in {o} THEN currentwhite ELSE color[p]
  BY <1>1, <1>3 DEF Colors
<1>7. \A h \in Threads, t \in Slots : stack'[h][t] = stack[h][t] \/ (h \in alloc /\ stack'[h][t] \in {o})
  BY <1>1, LThread DEF HeapOK
<1>8. AllRefs(o)' \subseteq Live
  <2>1. CASE o \in Tables
    <3>1. val'[o] = None
      BY <1>1, <1>3, <1>4, <2>1, KindAssumption DEF Fresh
    <3> QED BY <2>1, <3>1 DEF AllRefs, StrongRefs, WeakRefs
  <2>2. CASE o \in Udata
    <3>1. o \notin Tables \cup Upvals \cup Threads
      BY <2>2, KindAssumption
    <3> QED BY <1>4, <2>2, <3>1 DEF AllRefs, StrongRefs, WeakRefs
  <2>3. CASE o \in Threads
    <3>1. o \notin Tables \cup Udata \cup Closures \cup Upvals
      BY <2>3, KindAssumption
    <3>2. \A t \in Slots : stack'[o][t] = None
      BY <1>1, <1>3, <2>3, LThread DEF Fresh, HeapOK
    <3>3. Resumed(o)' = {}
      <4>1. \A i \in 1 .. Len(running) : running[i] # o
        BY <1>1, LThread DEF IInv, RootsLive, Roots, HeapOK
      <4>2. \A j \in 2 .. Len(running) : j - 1 \in 1 .. Len(running)
        BY LThread DEF HeapOK
      <4> QED BY <1>1, <4>1, <4>2 DEF Resumed
    <3> QED BY <2>3, <3>1, <3>2, <3>3 DEF AllRefs, StrongRefs, WeakRefs, OfThread
  <2> QED BY <1>1, <2>1, <2>2, <2>3
<1>9. \A c \in {o} \cap (Closures \cup Upvals) : FALSE
  BY <1>1, KindAssumption
<1>10. {o} \in SUBSET Obj /\ {o} \in SUBSET (Live \cup {o} \cup {None}) /\ {o} \cap alloc = {}
  BY <1>1, <1>3
<1>11. \A p \in Obj \ {o} : p \notin Threads \cup Strings => val'[p] = val[p]
  BY <1>4, LThread DEF HeapOK, Obj
<1> QED
  BY <1>1, <1>3, <1>5, <1>6, <1>7, <1>8, <1>9, <1>10, <1>11, GrowStep

(* A string is made, shared or brought back. *)
LEMMA NewStringKeeps ==
  ASSUME IInv, NEW s \in Slots, NEW o \in Values, NewString(s, o)
  PROVE  IInv'
<1> DEFINE N == IF o \notin alloc \/ IsDead(o) THEN {o} ELSE {}
<1>1. /\ o \in Strings /\ alloc' = alloc \cup {o}
      /\ color' = [color EXCEPT ![o] = IF o \notin alloc \/ IsDead(o) THEN currentwhite ELSE @]
      /\ stack' = [stack EXCEPT ![L][s] = o]
      /\ UNCHANGED <<key, val, mode, open, running, gcstate, currentwhite, gray, grayagain, weak, unswept, tmudata,
                     finalized>>
  BY DEF NewString, lists, MutatorOnly
<1>2. color \in [Obj -> Colors] /\ currentwhite \in White /\ finalized \subseteq Udata /\ o \in Obj
  BY <1>1 DEF IInv, Kinds, Marks, MarksType, Obj
<1>3. N \in SUBSET Obj /\ alloc' = alloc \cup N /\ o \in Live \cup N
  BY <1>1, <1>2 DEF Live
<1>4. color' \in [Obj -> Colors] /\ \A p \in Obj : color'[p] = IF p \in N THEN currentwhite ELSE color[p]
  BY <1>1, <1>2 DEF Colors
<1>5. gcstate = "propagate" => N \cap alloc = {}
  BY WhileMarking DEF Live
<1>6. HeapOK'
  BY <1>1, <1>2, LThread DEF HeapOK
<1>7. \A h \in Threads, t \in Slots : stack'[h][t] = stack[h][t] \/ (h \in alloc /\ stack'[h][t] \in {o})
  BY <1>1, LThread DEF HeapOK
<1>8. \A p \in N : p = o
  OBVIOUS
<1> HIDE DEF N
<1>9. \A p \in N : AllRefs(p)' \subseteq Live \cup N
  BY <1>1, <1>8, KindAssumption DEF AllRefs, StrongRefs, WeakRefs
<1>10. \A c \in N \cap (Closures \cup Upvals) : FALSE
  BY <1>1, <1>8, KindAssumption
<1>11. {o} \in SUBSET (Live \cup N \cup {None})
  BY <1>3
<1> QED
  BY <1>1, <1>2, <1>3, <1>4, <1>5, <1>6, <1>7, <1>9, <1>10, <1>11, GrowStep

(* A closure is made, with an upvalue that is made, shared or brought back. *)
LEMMA NewClosureKeeps ==
  ASSUME IInv, NEW s \in Slots, NEW t \in Slots, NEW c \in Closures, NEW u \in Upvals, NewClosure(s, t, c, u)
  PROVE  IInv'
<1> DEFINE N == {c} \cup (IF u \notin alloc \/ IsDead(u) THEN {u} ELSE {})
<1>1. /\ c \in Closures \ alloc /\ (u \notin alloc \/ open[u] = <<L, t>>)
      /\ alloc' = alloc \cup {c, u}
      /\ color' = [color EXCEPT ![c] = currentwhite,
                                ![u] = IF u \notin alloc \/ IsDead(u) THEN currentwhite ELSE @]
      /\ open' = [open EXCEPT ![u] = <<L, t>>] /\ val' = [val EXCEPT ![c] = u]
      /\ stack' = [stack EXCEPT ![L][s] = c]
      /\ UNCHANGED <<key, mode, running, gcstate, currentwhite, gray, grayagain, weak, unswept, tmudata, finalized>>
  BY DEF NewClosure, lists, MutatorOnly
<1>2. color \in [Obj -> Colors] /\ currentwhite \in White /\ finalized \subseteq Udata /\ c \in Obj /\ u \in Obj
      /\ Made /\ ToSweep /\ Stays(Live) /\ u # c
  BY KindAssumption DEF IInv, Kinds, Marks, MarksType, Obj
<1>3. N \in SUBSET Obj /\ alloc' = alloc \cup N /\ u \in Live \cup N /\ c \in N
  BY <1>1, <1>2 DEF Live
<1>4. color' \in [Obj -> Colors] /\ \A p \in Obj : color'[p] = IF p \in N THEN currentwhite ELSE color[p]
  BY <1>1, <1>2 DEF Colors
<1>5. gcstate = "propagate" => N \cap alloc = {}
  BY <1>1, WhileMarking DEF Live
<1>6. HeapOK'
  <2>1. stack' \in [Threads -> [Slots -> Values]]
    <3>1. c \in Values
      BY <1>2, KindAssumption DEF Values
    <3> QED BY <1>1, <3>1, LThread DEF HeapOK
  <2>2. open' \in [Upvals -> (Threads \X Slots) \cup {None}]
    <3>1. <<L, t>> \in Threads \X Slots
      BY LThread
    <3> QED BY <1>1, <3>1, LThread DEF HeapOK
  <2>3. /\ val' \in [Tables \cup Udata \cup Closures \cup Upvals -> Obj \cup {None}]
        /\ \A p \in Tables \cup Upvals : val'[p] \in Values
        /\ \A p \in Udata : val'[p] \in Tables \cup {None}
        /\ \A p \in Closures : val'[p] \in Upvals \cup {None}
    <3>1. \A p \in Tables \cup Upvals \cup Udata : p # c
      BY KindAssumption
    <3> QED BY <1>1, <1>2, <3>1, LThread DEF HeapOK
  <2> QED BY <1>1, <1>2, <2>1, <2>2, <2>3, LThread DEF HeapOK
<1>7. \A h \in Threads, r \in Slots : stack'[h][r] = stack[h][r] \/ (h \in alloc /\ stack'[h][r] \in {c})
  BY <1>1, LThread DEF HeapOK
<1>8. \A p \in N : p = c \/ (p = u /\ (u \notin alloc \/ IsDead(u)))
  OBVIOUS
<1>9. u \notin N => open[u] = <<L, t>>
  BY <1>1
<1> HIDE DEF N
<1>10. AllRefs(c)' \subseteq Live \cup N
  <2>1. c \notin Tables \cup Upvals \cup Threads
    BY KindAssumption
  <2>2. val'[c] = u
    BY <1>1, LThread DEF HeapOK
  <2> QED BY <1>3, <2>1, <2>2 DEF AllRefs, StrongRefs, WeakRefs
<1>11. AllRefs(u)' \subseteq Live \cup N
  <2>1. u \notin Tables \cup Udata \cup Closures \cup Threads
    BY KindAssumption
  <2>2. open'[u] = <<L, t>> /\ <<L, t>> # None
    BY <1>1, ObjAssumption, LThread DEF HeapOK
  <2>3. UpvalValue(u)' = stack'[L][t]
    BY <2>2 DEF UpvalValue
  <2>4. stack[L][t] \in Live \cup {None}
    BY OnStackLive DEF OnStack
  <2>5. stack'[L][t] \in Live \cup N \cup {None}
    BY <1>3, <1>7, <2>4, LThread
  <2> QED BY <2>1, <2>3, <2>5 DEF AllRefs, StrongRefs, WeakRefs
<1>12. \A p \in N \cap Closures : val'[p] # None
  <2>1. \A p \in N \cap Closures : p = c
    BY <1>8, KindAssumption
  <2>2. val'[c] = u
    BY <1>1, LThread DEF HeapOK
  <2> QED BY <1>2, <2>1, <2>2, LThread
<1>13. \A p \in N \cap Upvals : open'[p] # None => open'[p][1] \in alloc /\ p \notin unswept
  <2>1. \A p \in N \cap Upvals : p = u
    BY <1>8, KindAssumption
  <2>2. open'[u] = <<L, t>> /\ <<L, t>>[1] = L /\ <<L, t>> # None
    BY <1>1, ObjAssumption, LThread DEF HeapOK
  <2>3. u \notin unswept
    BY <1>1, <1>2, <2>2 DEF ToSweep
  <2> QED BY <2>1, <2>2, <2>3, LThread
<1>14. \A p \in Obj \ N : p \notin Threads \cup Strings => val'[p] = val[p]
  BY <1>1, <1>3, LThread DEF HeapOK, Obj
<1>15. \A p \in Upvals \ N : open'[p] = open[p]
  BY <1>1, <1>9, LThread DEF HeapOK
<1>16. {c} \in SUBSET (Live \cup N \cup {None}) /\ \A p \in N : AllRefs(p)' \subseteq Live \cup N
  BY <1>3, <1>8, <1>10, <1>11
<1> QED
  BY <1>1, <1>2, <1>3, <1>4, <1>5, <1>6, <1>7, <1>12, <1>13, <1>14, <1>15, <1>16, GrowStep

(* A step that writes the one value, or the entry, of what lives, with the   *)
(* barrier's marks r.                                                        *)
LEMMA WriteStep ==
  ASSUME IInv, HeapOK', NEW o \in Live, o \in Tables \cup Udata \cup Upvals, NEW r \in MarksType,
         color' = r.color, gray' = r.gray, grayagain' = r.again, weak' = r.weak,
         UNCHANGED <<alloc, mode, stack, open, running, gcstate, currentwhite, unswept, tmudata, finalized>>,
         \A p \in Tables : p # o => key'[p] = key[p],
         \A p \in DOMAIN val : p # o => val'[p] = val[p],
         AllRefs(o)' \subseteq Live,
         Listed(r) \subseteq Live,
         \A p \in alloc : IsDead(p) <=> r.color[p] = otherwhite,
         \A u \in Upvals : open[u] # None => r.color[u] # "black",
         \A u \in alloc \cap Udata : r.color[u] # "gray",
         gcstate # "propagate" =>
           r.gray = {} /\ \A p \in alloc : r.color[p] \in {color[p], currentwhite} \/ color[p] = "black",
         gcstate = "propagate" =>
           Books(r) /\ Tri(r, tmudata \cup {o}) /\ Marked(Marks) \subseteq Marked(r)
           /\ (o \notin tmudata /\ r.color[o] = "black" => AllRefs(o)' \subseteq Marked(r))
  PROVE  IInv'
<1>1. /\ HeapOK /\ Kinds /\ Live \subseteq alloc /\ alloc \subseteq Obj /\ Made /\ Stays(Live) /\ ToSweep /\ Fresh /\ Lists
      /\ RootsLive /\ currentwhite \in White
  BY LThread DEF IInv, Kinds
<1>2. Marks' = [color |-> r.color, key |-> key', gray |-> r.gray, again |-> r.again, weak |-> r.weak]
  BY DEF Marks
<1>3. Kinds'
  BY <1>1, <1>2 DEF Kinds, HeapOK, MarksType
<1>4. Live' = Live
  BY DEF Live, IsDead, otherwhite
<1>5. \A p \in Obj : p # o => AllRefs(p)' \subseteq AllRefs(p)
  <2> SUFFICES ASSUME NEW p \in Obj, p # o PROVE AllRefs(p)' \subseteq AllRefs(p) \cup {}
    OBVIOUS
  <2>1. p \in Tables => key'[p] = key[p]
    OBVIOUS
  <2>2. p \notin Threads \cup Strings => val'[p] = val[p]
    BY <1>1 DEF HeapOK, Obj
  <2>3. Resumed(p)' = Resumed(p)
    BY DEF Resumed
  <2> QED BY <1>1, <2>1, <2>2, <2>3, RefsAfter
<1>6. Stays(Live)'
  BY <1>1, <1>4, <1>5 DEF Stays
<1>7. RootsLive'
  BY <1>1, <1>4 DEF RootsLive, Roots
<1>8. \A p \in (Tables \ alloc) \cup (Closures \cap alloc) : p \in DOMAIN val /\ p # o
  BY <1>1, KindAssumption DEF HeapOK
<1>9. Made'
  BY <1>1, <1>8 DEF Made
<1>10. Fresh'
  BY <1>1, <1>8 DEF Fresh
<1>11. ToSweep'
  <2>1. ASSUME gcstate' # "propagate", NEW p \in alloc \ tmudata, color'[p] # currentwhite
        PROVE  p \in unswept \/ (p \in Upvals /\ open[p] # None /\ open[p][1] \in unswept)
    <3>1. color[p] # currentwhite
      BY <1>1, <2>1 DEF White
    <3> QED BY <1>1, <2>1, <3>1 DEF ToSweep
  <2> QED BY <1>1, <1>4, <2>1 DEF ToSweep, Sweeping
<1>12. Lists'
  <2>1. Listed(Marks)' = Listed(r) /\ Marked(Marks)' = Marked(r) /\ Marks'.color = r.color
    BY <1>2 DEF Listed, Marked
  <2>2. ASSUME gcstate = "propagate" PROVE Books(Marks)' /\ Tri(Marks, tmudata)'
    <3>1. Books(Marks)'
      BY <1>2, <2>1, <2>2 DEF Books
    <3>2. Tri(Marks, tmudata)'
      <4> SUFFICES ASSUME NEW p \in alloc \ tmudata, r.color[p] = "black" PROVE AllRefs(p)' \subseteq Marked(r)
        BY <2>1 DEF Tri
      <4> QED BY <1>1, <1>5, <2>2 DEF Tri
    <3> QED BY <3>1, <3>2
  <2> QED BY <1>1, <1>4, <2>1, <2>2 DEF Lists
<1> QED
  BY <1>3, <1>6, <1>7, <1>9, <1>10, <1>11, <1>12 DEF IInv

(* A store into a table, with luaC_barriert. *)
LEMMA SetTableKeeps ==
  ASSUME IInv, NEW t \in Tables, NEW k \in Values, NEW v \in Values, SetTable(t, k, v)
  PROVE  IInv'
<1> DEFINE fires == color[t] = "black" /\ \E o \in {k, v} \ {None} : color[o] \in White
           r == [color |-> color', key |-> key, gray |-> gray, again |-> grayagain', weak |-> weak]
<1>1. /\ t \in (OnStack \cap Tables) \cup {registry} /\ k \in OnStack \cup {None} /\ v \in OnStack \cup {None}
      /\ key' = [key EXCEPT ![t] = IF v = None THEN None ELSE k] /\ val' = [val EXCEPT ![t] = v]
      /\ UNCHANGED <<alloc, mode, stack, open, running, gray, weak, gcstate, currentwhite, unswept, tmudata, finalized>>
  BY DEF SetTable, MutatorOnly
<1>2. /\ fires => color' = [color EXCEPT ![t] = "gray"] /\ grayagain' = grayagain \cup {t}
      /\ ~fires => color' = color /\ grayagain' = grayagain
  BY DEF SetTable, BarrierBack
<1>3. fires => color[t] = "black"
  OBVIOUS
<1>4. ~fires => color[t] # "black" \/ \A o \in {k, v} \ {None} : color[o] \notin White
  OBVIOUS
<1> HIDE DEF fires
<1>5. /\ t \in Live /\ t \in Obj /\ {k, v} \subseteq Live \cup {None} /\ Made /\ Lists /\ Kinds
      /\ color \in [Obj -> Colors] /\ Marks \in MarksType /\ currentwhite \in White
      /\ t \notin Upvals \cup Udata \cup Threads \cup Strings \cup Closures
  BY <1>1, LThread, OnStackLive, KindAssumption DEF IInv, Kinds, Marks, MarksType
<1>6. r \in MarksType
  <2>1. color' \in [Obj -> Colors] /\ grayagain' \subseteq Obj
    BY <1>2, <1>5 DEF Colors, MarksType, Marks
  <2> QED BY <1>5, <2>1 DEF MarksType, Marks
<1>7. HeapOK'
  <2>1. \A p \in Udata \cup Closures : p # t
    BY <1>5
  <2>2. v \in Values \cap (Obj \cup {None})
    BY DEF Values
  <2> QED BY <1>1, <2>1, <2>2, LThread DEF HeapOK, Values
<1>8. AllRefs(t)' \subseteq {k, v} \ {None}
  <2>1. val'[t] = v /\ (v # None => key'[t] = k)
    BY <1>1, LThread DEF HeapOK
  <2> QED BY <2>1, <1>5 DEF AllRefs, StrongRefs, WeakRefs
<1>9. \A p \in Obj : color'[p] = IF fires /\ p = t THEN "gray" ELSE color[p]
  BY <1>2, <1>5
<1>10. Listed(r) = Listed(Marks) \cup (IF fires THEN {t} ELSE {})
  BY <1>1, <1>2 DEF Listed, Marks
<1>11. \A p \in alloc : IsDead(p) <=> r.color[p] = otherwhite
  <2>1. otherwhite \in White
    BY <1>5 DEF otherwhite, Other, White
  <2> QED BY <1>3, <1>9, <2>1, LThread DEF IsDead, White
<1>12. \A u \in Upvals : open[u] # None => r.color[u] # "black"
  <2>1. \A u \in Upvals : u \in Obj
    BY DEF Obj
  <2> QED BY <1>5, <1>9, <2>1 DEF Made
<1>13. \A u \in alloc \cap Udata : r.color[u] # "gray"
  BY <1>5, <1>9, LThread DEF Made
<1>14. gcstate # "propagate" =>
         r.gray = {} /\ \A p \in alloc : r.color[p] \in {color[p], currentwhite} \/ color[p] = "black"
  BY <1>1, <1>3, <1>5, <1>9, LThread DEF Lists
<1>15. ASSUME gcstate = "propagate"
       PROVE  /\ Books(r) /\ Tri(r, tmudata \cup {t}) /\ Marked(Marks) \subseteq Marked(r)
              /\ (t \notin tmudata /\ r.color[t] = "black" => AllRefs(t)' \subseteq Marked(r))
  <2>1. Books(Marks) /\ Tri(Marks, tmudata) /\ alloc \subseteq Obj /\ t \in alloc
    BY <1>5, <1>15, LThread DEF Lists
  <2>2. fires => t \notin Listed(Marks)
    BY <1>3, <2>1 DEF Books, Marks
  <2>3. Marked(r) = Marked(Marks)
    BY <1>3, <1>5, <1>9 DEF Marked, Marks, White
  <2>4. Books(r)
    <3>1. /\ Listed(r) \subseteq alloc \cap Listable /\ r.weak \subseteq Tables
      BY <1>1, <1>10, <2>1 DEF Books, Listable, Marks
    <3>2. r.gray \cap r.again = {} /\ r.gray \cap r.weak = {} /\ r.again \cap r.weak = {}
      BY <1>1, <1>2, <2>1, <2>2 DEF Books, Listed, Marks
    <3>3. \A o \in alloc : r.color[o] = "gray" => o \in Listed(r) \cup Strings \cup Upvals
      BY <1>9, <1>10, <2>1 DEF Books, Marks
    <3>4. \A o \in Listed(r) : r.color[o] = "gray"
      BY <1>9, <1>10, <2>1 DEF Books, Marks
    <3>5. \A h \in alloc \cap Threads : r.color[h] # "black"
      BY <1>9, <2>1 DEF Books, Marks
    <3>6. \A u \in alloc \cap Upvals : r.color[u] = "gray" => open[u] # None
      BY <1>5, <1>9, <2>1 DEF Books, Marks
    <3> QED BY <1>12, <3>1, <3>2, <3>3, <3>4, <3>5, <3>6 DEF Books
  <2>5. Tri(r, tmudata \cup {t})
    BY <1>9, <2>1, <2>3 DEF Tri, Marks
  <2>6. ASSUME r.color[t] = "black" PROVE AllRefs(t)' \subseteq Marked(r)
    <3>1. ~fires /\ color[t] = "black"
      BY <1>5, <1>9, <2>6
    <3>2. \A o \in {k, v} \ {None} : color[o] \notin White
      BY <1>4, <3>1
    <3>3. \A o \in {k, v} \ {None} : o \in Marked(Marks)
      BY <1>5, <3>2, LThread DEF Marked, Marks
    <3> QED BY <1>8, <2>3, <3>3
  <2> QED BY <2>3, <2>4, <2>5, <2>6
<1>16. \A p \in Tables : p # t => key'[p] = key[p]
  BY <1>1, LThread DEF HeapOK
<1>17. \A p \in DOMAIN val : p # t => val'[p] = val[p]
  BY <1>1
<1>18. AllRefs(t)' \subseteq Live
  BY <1>5, <1>8
<1>19. Listed(r) \subseteq Live
  BY <1>5, <1>10 DEF Lists
<1>20. color' = r.color /\ gray' = r.gray /\ grayagain' = r.again /\ weak' = r.weak
  BY <1>1
<1> HIDE DEF r
<1> QED
  BY <1>1, <1>5, <1>6, <1>7, <1>11, <1>12, <1>13, <1>14, <1>15, <1>16, <1>17, <1>18, <1>19, <1>20, WriteStep

(* A udata or a closed upvalue given another value, with luaC_barrier. *)
LEMMA BarrierStep ==
  ASSUME IInv, HeapOK', NEW o \in Live, NEW v \in Values, v \in Live \cup {None},
         o \in Udata \/ (o \in Upvals /\ open[o] = None),
         BarrierF(o, v),
         UNCHANGED <<alloc, key, mode, stack, open, running, gcstate, currentwhite, grayagain, weak, unswept,
                     tmudata, finalized>>,
         \A p \in DOMAIN val : p # o => val'[p] = val[p],
         AllRefs(o)' \subseteq {v} \ {None}
  PROVE  IInv'
<1> DEFINE m == MarkAll(Marks, {v})
           r == [color |-> color', key |-> key, gray |-> gray', again |-> grayagain, weak |-> weak]
<1>1. /\ o \in Obj /\ Made /\ Lists /\ Kinds /\ HeapOK /\ alloc \subseteq Obj /\ Live \subseteq alloc
      /\ color \in [Obj -> Colors] /\ Marks \in MarksType /\ currentwhite \in White
      /\ o \notin Tables \cup Threads \cup Strings \cup Closures
  BY LThread, KindAssumption DEF IInv, Kinds, Marks, MarksType
<1>2. v = None \/ v \in Obj
  BY <1>1
<1>3. /\ Marks.color = color /\ Marks.gray = gray /\ Marks.again = grayagain /\ Marks.weak = weak
      /\ Marks.key = key /\ color' = r.color
  BY DEF Marks
<1>4. CASE ~BarrierFails(o, v)
  <2>1. color' = color /\ gray' = gray
    BY <1>4 DEF BarrierF
  <2>2. r = Marks
    BY <2>1 DEF Marks
  <2> HIDE DEF r
  <2>3. ASSUME gcstate = "propagate"
        PROVE  /\ Books(r) /\ Tri(r, tmudata \cup {o}) /\ Marked(Marks) \subseteq Marked(r)
               /\ (o \notin tmudata /\ r.color[o] = "black" => AllRefs(o)' \subseteq Marked(r))
    <3>1. Books(r) /\ Tri(r, tmudata \cup {o})
      BY <1>1, <2>2, <2>3 DEF Lists, Tri
    <3>2. r.color[o] = "black" => {v} \ {None} \subseteq Marked(r)
      BY <1>2, <1>3, <1>4, <2>2 DEF BarrierFails, Marked
    <3> QED BY <2>2, <3>1, <3>2
  <2>4. Listed(r) \subseteq Live
    BY <1>1, <2>2 DEF Lists
  <2>5. \A p \in alloc : IsDead(p) <=> r.color[p] = otherwhite
    BY <1>3, <2>2 DEF IsDead
  <2>6. \A u \in Upvals : open[u] # None => r.color[u] # "black"
    BY <1>1, <1>3, <2>2 DEF Made
  <2>7. \A u \in alloc \cap Udata : r.color[u] # "gray"
    BY <1>1, <1>3, <2>2 DEF Made
  <2>8. gcstate # "propagate" =>
          r.gray = {} /\ \A p \in alloc : r.color[p] \in {color[p], currentwhite} \/ color[p] = "black"
    BY <1>1, <1>3, <2>2 DEF Lists
  <2>9. o \in Tables \cup Udata \cup Upvals /\ AllRefs(o)' \subseteq Live /\ r \in MarksType
        /\ color' = r.color /\ gray' = r.gray /\ grayagain' = r.again /\ weak' = r.weak
    BY <1>1, <1>3, <2>1, <2>2
  <2>10. \A p \in Tables : p # o => key'[p] = key[p]
    OBVIOUS
  <2> QED BY <2>3, <2>4, <2>5, <2>6, <2>7, <2>8, <2>9, <2>10, WriteStep
<1>5. CASE BarrierFails(o, v) /\ gcstate = "propagate"
  <2>1. color' = m.color /\ gray' = m.gray
    BY <1>5 DEF BarrierF
  <2>2. /\ Live = alloc /\ Stays(alloc) /\ Good(Marks) /\ Tri(Marks, tmudata)
        /\ \A p \in alloc : color[p] \in White => color[p] = currentwhite
    BY <1>5, WhileMarking
  <2>3. {v} \in SUBSET (alloc \cup {None}) /\ {v} \in SUBSET (Obj \cup {None})
    BY <1>1, <1>2
  <2>4. Good(m) /\ Tri(m, tmudata)
    BY <1>1, <2>2, <2>3, MarkAllBooks, MarkAllKeeps
  <2>5. Ext(Marks, m) /\ {v} \ {None} \subseteq Marked(m)
    BY <1>1, <2>3, MarkAllExt
  <2>6. m.again = grayagain /\ m.weak = weak /\ m.key = key
    BY <1>1, <1>3, <2>3, MarkAllSets
  <2>7. Books(m) /\ Tri(m, tmudata \cup {o}) /\ Marked(Marks) \subseteq Marked(m)
        /\ (o \notin tmudata /\ m.color[o] = "black" => AllRefs(o)' \subseteq Marked(m))
    BY <2>4, <2>5 DEF Good, Tri, Ext
  <2>8. \A p \in alloc : IsDead(p) <=> m.color[p] = otherwhite
    <3>1. otherwhite \in White /\ otherwhite # currentwhite
      BY <1>1 DEF otherwhite, Other, White
    <3>2. \A p \in alloc : ~IsDead(p)
      BY <2>2 DEF Live
    <3>3. \A p \in alloc : m.color[p] \in White => m.color[p] = currentwhite
      BY <1>1, <1>3, <2>2, <2>5 DEF Ext
    <3> QED BY <3>1, <3>2, <3>3
  <2>9. \A u \in alloc \cap Udata : m.color[u] # "gray"
    BY <1>1, <2>4, KindAssumption DEF Good, Books, Listable
  <2>10. \A u \in Upvals : open[u] # None => m.color[u] # "black"
    BY <2>4 DEF Good, Books
  <2>11. Listed(m) \subseteq Live /\ m \in MarksType
    BY <2>2, <2>4 DEF Good, Books
  <2>12. o \in Tables \cup Udata \cup Upvals /\ AllRefs(o)' \subseteq Live /\ grayagain' = m.again /\ weak' = m.weak
    BY <1>1, <2>6
  <2>13. \A p \in Tables : p # o => key'[p] = key[p]
    OBVIOUS
  <2> HIDE DEF m
  <2> QED BY <1>5, <2>1, <2>7, <2>8, <2>9, <2>10, <2>11, <2>12, <2>13, WriteStep
<1>6. CASE BarrierFails(o, v) /\ gcstate # "propagate"
  <2>1. color' = [color EXCEPT ![o] = currentwhite] /\ gray' = gray
    BY <1>6 DEF BarrierF
  <2>2. \A p \in Obj : r.color[p] = IF p = o THEN currentwhite ELSE color[p]
    BY <1>1, <1>3, <2>1
  <2>3. r \in MarksType /\ r.gray = gray /\ Listed(r) = Listed(Marks)
    <3>1. color' \in [Obj -> Colors]
      BY <1>1, <2>1 DEF Colors
    <3> QED BY <1>1, <2>1, <3>1 DEF MarksType, Marks, Listed
  <2>4. \A p \in alloc : IsDead(p) <=> r.color[p] = otherwhite
    <3>1. otherwhite # currentwhite
      BY <1>1 DEF otherwhite, Other, White
    <3>2. ~IsDead(o)
      BY DEF Live
    <3> QED BY <1>1, <2>2, <3>1, <3>2 DEF IsDead
  <2>5. \A u \in Upvals : open[u] # None => r.color[u] # "black"
    <3>1. \A u \in Upvals : u \in Obj
      BY DEF Obj
    <3> QED BY <1>1, <2>2, <3>1 DEF Made, White
  <2>6. \A u \in alloc \cap Udata : r.color[u] # "gray"
    BY <1>1, <2>2 DEF Made, White
  <2>7. r.gray = {} /\ \A p \in alloc : r.color[p] \in {color[p], currentwhite} \/ color[p] = "black"
    BY <1>1, <1>6, <2>2, <2>3 DEF Lists
  <2>8. o \in Tables \cup Udata \cup Upvals /\ AllRefs(o)' \subseteq Live /\ Listed(r) \subseteq Live
        /\ color' = r.color /\ gray' = r.gray /\ grayagain' = r.again /\ weak' = r.weak
    BY <1>1, <2>3 DEF Lists
  <2>9. \A p \in Tables : p # o => key'[p] = key[p]
    OBVIOUS
  <2> HIDE DEF r
  <2> QED BY <1>6, <2>3, <2>4, <2>5, <2>6, <2>7, <2>8, <2>9, WriteStep
<1> QED
  BY <1>4, <1>5, <1>6

(* A udata gets another environment, with luaC_objbarrier. *)
LEMMA SetEnvKeeps ==
  ASSUME IInv, NEW u \in Udata, NEW t \in Tables, SetEnv(u, t)
  PROVE  IInv'
<1>1. /\ u \in OnStack /\ t \in OnStack /\ val' = [val EXCEPT ![u] = t] /\ BarrierF(u, t)
      /\ UNCHANGED <<alloc, key, mode, stack, open, running, gcstate, currentwhite, grayagain, weak, unswept,
                     tmudata, finalized>>
  BY DEF SetEnv, MutatorOnly
<1>2. u \in Live /\ t \in Live /\ t \in Values /\ t \in Obj /\ u \notin Tables \cup Upvals \cup Closures \cup Threads
  BY <1>1, OnStackLive, KindAssumption DEF Obj
<1>3. HeapOK'
  BY <1>1, <1>2, LThread DEF HeapOK
<1>4. val'[u] = t /\ \A p \in DOMAIN val : p # u => val'[p] = val[p]
  BY <1>1, LThread DEF HeapOK
<1>5. AllRefs(u)' \subseteq {t} \ {None}
  BY <1>2, <1>4 DEF AllRefs, StrongRefs, WeakRefs
<1> QED
  BY <1>1, <1>2, <1>3, <1>4, <1>5, BarrierStep

(* A store into an upvalue: open into a stack, closed with luaC_barrier. *)
LEMMA SetUpvalKeeps ==
  ASSUME IInv, NEW c \in Closures, NEW v \in Values, SetUpval(c, v)
  PROVE  IInv'
<1>0. PICK u : u = val[c]
  OBVIOUS
<1>1. /\ c \in OnStack /\ v \in OnStack \cup {None} /\ BarrierF(u, v)
      /\ UNCHANGED <<alloc, key, mode, open, running, gcstate, currentwhite, grayagain, weak, unswept,
                     tmudata, finalized>>
  BY <1>0 DEF SetUpval, MutatorOnly
<1>2. /\ open[u] = None => val' = [val EXCEPT ![u] = v] /\ stack' = stack
      /\ open[u] # None => stack' = [stack EXCEPT ![open[u][1]][open[u][2]] = v] /\ val' = val
  BY <1>0 DEF SetUpval
<1>3. u \in Live /\ u \in Upvals /\ v \in Live \cup {None} /\ Made
  <2>1. c \in Live /\ v \in Live \cup {None} /\ Made /\ Stays(Live)
    BY <1>1, OnStackLive DEF IInv
  <2>2. u \in Upvals /\ u # None
    BY <1>0, <2>1, LThread DEF Made, HeapOK
  <2>3. u \in AllRefs(c)
    BY <1>0, <2>2, RefsOfUdata DEF AllRefs
  <2> QED BY <2>1, <2>2, <2>3 DEF Stays
<1>4. u \notin Tables \cup Udata \cup Closures \cup Threads \cup Strings /\ u \in Obj
  BY <1>3, KindAssumption DEF Obj
<1>5. CASE open[u] = None
  <2>1. HeapOK'
    <3>1. v \in Obj \cup {None}
      BY DEF Values
    <3> QED BY <1>1, <1>2, <1>3, <1>4, <1>5, <3>1, LThread DEF HeapOK
  <2>2. val'[u] = v /\ \A p \in DOMAIN val : p # u => val'[p] = val[p]
    BY <1>2, <1>3, <1>5, LThread DEF HeapOK
  <2>3. AllRefs(u)' \subseteq {v} \ {None}
    <3>1. UpvalValue(u)' = val'[u]
      BY <1>1, <1>5 DEF UpvalValue
    <3> QED BY <1>4, <2>2, <3>1 DEF AllRefs, StrongRefs, WeakRefs
  <2> QED BY <1>1, <1>2, <1>3, <1>5, <2>1, <2>2, <2>3, BarrierStep
<1>6. CASE open[u] # None
  <2>1. open[u] \in Threads \X Slots /\ open[u][1] \in alloc /\ color[u] # "black"
    BY <1>3, <1>6, LThread DEF Made, HeapOK
  <2>2. color' = color /\ gray' = gray
    BY <1>1, <2>1 DEF BarrierF, BarrierFails
  <2>9. PICK g \in Threads, r \in Slots : open[u][1] = g /\ open[u][2] = r /\ g \in alloc
    BY <2>1
  <2>10. stack' = [stack EXCEPT ![g][r] = v]
    BY <1>2, <1>6, <2>9
  <2>3. stack' \in [Threads -> [Slots -> Values]]
    BY <2>10, LThread DEF HeapOK
  <2>4. \A h \in Threads, s \in Slots : stack'[h][s] = stack[h][s] \/ (h \in alloc /\ stack'[h][s] \in {v})
    BY <2>9, <2>10, LThread DEF HeapOK
  <2>5. (\A h \in Threads : Resumed(h)' \subseteq Resumed(h) \cup {v}) /\ Roots' \subseteq Live
    BY <1>1 DEF Resumed, Roots, IInv, RootsLive
  <2>6. mode' \in [Tables -> Modes] /\ running' \in Seq(Threads) /\ Len(running') > 0 /\ running'[1] = mainthread
    BY <1>1, LThread DEF HeapOK
  <2>7. {v} \in SUBSET (Live \cup {None})
    BY <1>3
  <2>8. val' = val
    BY <1>2, <1>6
  <2> QED BY <1>1, <2>2, <2>3, <2>4, <2>5, <2>6, <2>7, <2>8, StackStep
<1> QED
  BY <1>5, <1>6

(* A mark on a value does not reach an upvalue at once. *)
LEMMA HitValues ==
  ASSUME HeapOK, NEW m \in MarksType, NEW S \in SUBSET Values
  PROVE  Hit(m, S) \cap Upvals = {}
<1> DEFINE one == WhiteOf(m, S)
           two == one \cup WhiteOf(m, {UpvalValue(u) : u \in one \cap Upvals})
           env == WhiteOf(m, {val[u] : u \in two \cap Udata})
<1>1. Hit(m, S) = two \cup env
  BY DEF Hit
<1>2. one \cap Upvals = {}
  BY ObjAssumption DEF WhiteOf, Values
<1>3. two = one
  BY <1>2 DEF WhiteOf
<1>4. env \cap Upvals = {}
  <2> HIDE DEF two
  <2> QED BY KindAssumption DEF WhiteOf, HeapOK
<1> QED
  BY <1>1, <1>2, <1>3, <1>4

(* What luaC_linkupval does for the upvalues just closed. *)
LEMMA LinkUpvalsKeeps ==
  ASSUME IInv, NEW was \in SUBSET (Live \cap Upvals), \A u \in was : color[u] = "gray" /\ open[u] # None
  PROVE  LET m == LinkUpvals(was)
         IN  /\ m \in MarksType /\ m.again = grayagain /\ m.weak = weak /\ Listed(m) \subseteq Live
             /\ \A p \in alloc : IsDead(p) <=> m.color[p] = otherwhite
             /\ \A u \in Upvals \ was : m.color[u] = color[u]
             /\ \A u \in was : m.color[u] # "gray"
             /\ \A u \in alloc \cap Udata : m.color[u] # "gray"
             /\ gcstate # "propagate" => m.gray = {} /\ \A p \in alloc : m.color[p] \in {color[p], currentwhite}
             /\ gcstate = "propagate" =>
                  /\ m.gray \cap m.again = {} /\ m.gray \cap m.weak = {}
                  /\ Listed(m) \subseteq alloc \cap Listable
                  /\ \A o \in alloc : m.color[o] = "gray" => o \in Listed(m) \cup Strings \cup Upvals
                  /\ \A o \in Listed(m) : m.color[o] = "gray"
                  /\ \A h \in alloc \cap Threads : m.color[h] # "black"
                  /\ Tri(m, tmudata) /\ Marked(Marks) \subseteq Marked(m)
<1> DEFINE V == {UpvalValue(u) : u \in was}
           r == MarkAll(Marks, V)
           m == LinkUpvals(was)
<1>1. /\ HeapOK /\ Kinds /\ Lists /\ Made /\ alloc \subseteq Obj /\ Live \subseteq alloc
      /\ Marks \in MarksType /\ color \in [Obj -> Colors] /\ currentwhite \in White
  BY LThread DEF IInv, Kinds, Marks, MarksType
<1>2. /\ Marks.color = color /\ Marks.gray = gray /\ Marks.again = grayagain /\ Marks.weak = weak
      /\ Marks.key = key
  BY DEF Marks
<1>3. \A u \in was : u \in Obj /\ u \in Upvals /\ u \notin Listable \cup Udata
  BY <1>1, KindAssumption DEF Listable
<1>4. \A u \in was : StrongRefs(u) = {UpvalValue(u)} \ {None} /\ AllRefs(u) = StrongRefs(u)
  BY <1>3, RefsOfUpval DEF AllRefs
<1>5. otherwhite \in White /\ otherwhite # currentwhite
  BY <1>1 DEF otherwhite, Other, White
<1>6. CASE gcstate = "propagate"
  <2>1. /\ Live = alloc /\ Stays(alloc) /\ Good(Marks) /\ Tri(Marks, tmudata)
        /\ \A p \in alloc : color[p] \in White => color[p] = currentwhite
    BY <1>6, WhileMarking
  <2>2. V \in SUBSET (alloc \cup {None}) /\ V \in SUBSET Values /\ V \in SUBSET (Obj \cup {None})
    <3>1. \A u \in was : UpvalValue(u) \in alloc \cup {None}
      BY <1>1, <1>4, <2>1 DEF Stays
    <3>2. \A u \in was : UpvalValue(u) \in Values
      BY <1>1, <1>3, UpvalValues
    <3> QED BY <1>1, <3>1, <3>2
  <2>3. V \ {None} = UNION {StrongRefs(u) : u \in was}
    BY <1>4
  <2> HIDE DEF V
  <2>4. Good(r) /\ Tri(r, tmudata)
    BY <1>1, <2>1, <2>2, MarkAllBooks, MarkAllKeeps
  <2>5. Ext(Marks, r) /\ V \ {None} \subseteq Marked(r)
    BY <1>1, <2>2, MarkAllExt
  <2>6. /\ r.again = grayagain /\ r.weak = weak
        /\ \A o \in Obj : r.color[o] = IF o \notin Hit(Marks, V) THEN color[o] ELSE IF AtOnce(o) THEN "black" ELSE "gray"
    BY <1>1, <1>2, <2>2, MarkAllSets
  <2>7. Hit(Marks, V) \cap Upvals = {}
    BY <1>1, <2>2, HitValues
  <2>8. m = [r EXCEPT !.color = [p \in Obj |-> IF p \notin was THEN @[p] ELSE "black"]]
    BY <1>6 DEF LinkUpvals, V
  <2> HIDE DEF r, m
  <2>9. r \in MarksType
    BY <2>4 DEF Good
  <2>10. /\ m \in MarksType /\ m.gray = r.gray /\ m.again = r.again /\ m.weak = r.weak
         /\ \A p \in Obj : m.color[p] = IF p \notin was THEN r.color[p] ELSE "black"
    BY <2>8, <2>9 DEF MarksType, Colors
  <2>11. Listed(m) = Listed(r) /\ Listed(m) \subseteq alloc \cap Listable
    BY <2>4, <2>10 DEF Listed, Good, Books
  <2>12. \A p \in alloc : IsDead(p) <=> m.color[p] = otherwhite
    <3>1. \A p \in alloc : ~IsDead(p)
      BY <2>1 DEF Live
    <3>2. \A p \in alloc : r.color[p] \in White => r.color[p] = currentwhite
      BY <1>1, <1>2, <2>1, <2>5 DEF Ext
    <3> QED BY <1>1, <1>5, <2>10, <3>1, <3>2 DEF White
  <2>13. \A u \in Upvals \ was : m.color[u] = color[u]
    <3>1. \A u \in Upvals : u \in Obj
      BY DEF Obj
    <3> QED BY <2>6, <2>7, <2>10, <3>1
  <2>14. \A u \in was : m.color[u] # "gray"
    BY <1>3, <2>10
  <2>15. \A u \in alloc \cap Udata : m.color[u] # "gray"
    BY <1>1, <2>4, <2>10, KindAssumption DEF Good, Books, Listable
  <2>16. m.gray \cap m.again = {} /\ m.gray \cap m.weak = {}
    BY <2>4, <2>10 DEF Good, Books
  <2>17. \A o \in alloc : m.color[o] = "gray" => o \in Listed(m) \cup Strings \cup Upvals
    BY <1>1, <2>4, <2>10, <2>11 DEF Good, Books
  <2>18. \A o \in Listed(m) : m.color[o] = "gray"
    BY <1>1, <1>3, <2>4, <2>10, <2>11 DEF Good, Books
  <2>19. \A h \in alloc \cap Threads : m.color[h] # "black"
    BY <1>1, <1>3, <2>4, <2>10 DEF Good, Books, Listable
  <2>20. Marked(m) = Marked(r) \cup was
    BY <1>3, <2>10 DEF Marked, White
  <2>21. Tri(m, tmudata)
    <3> SUFFICES ASSUME NEW o \in alloc \ tmudata, m.color[o] = "black" PROVE AllRefs(o) \subseteq Marked(m)
      BY DEF Tri
    <3>1. CASE o \in was
      BY <1>4, <2>3, <2>5, <2>20, <3>1
    <3>2. CASE o \notin was
      BY <1>1, <2>4, <2>10, <2>20, <3>2 DEF Tri
    <3> QED BY <3>1, <3>2
  <2>22. Marked(Marks) \subseteq Marked(m)
    BY <2>5, <2>20 DEF Ext
  <2> QED
    BY <1>6, <2>1, <2>6, <2>10, <2>11, <2>12, <2>13, <2>14, <2>15, <2>16, <2>17, <2>18, <2>19, <2>21, <2>22 DEF m
<1>7. CASE gcstate # "propagate"
  <2>1. m = [Marks EXCEPT !.color = [p \in Obj |-> IF p \notin was THEN @[p] ELSE currentwhite]]
    BY <1>7 DEF LinkUpvals
  <2> HIDE DEF m
  <2>2. /\ m \in MarksType /\ m.gray = gray /\ m.again = grayagain /\ m.weak = weak
        /\ \A p \in Obj : m.color[p] = IF p \notin was THEN color[p] ELSE currentwhite
    BY <1>1, <1>2, <2>1 DEF MarksType, Colors
  <2>3. Listed(m) \subseteq Live /\ m.gray = {}
    BY <1>1, <1>2, <1>7, <2>2 DEF Listed, Lists
  <2>4. \A p \in alloc : IsDead(p) <=> m.color[p] = otherwhite
    BY <1>1, <1>3, <1>5, <2>2 DEF IsDead, White
  <2>5. \A u \in Upvals \ was : m.color[u] = color[u]
    BY <2>2 DEF Obj
  <2>6. \A u \in was : m.color[u] # "gray"
    BY <1>1, <1>3, <2>2 DEF White
  <2>7. \A u \in alloc \cap Udata : m.color[u] # "gray"
    BY <1>1, <1>3, <2>2 DEF Made
  <2>8. \A p \in alloc : m.color[p] \in {color[p], currentwhite}
    BY <1>1, <2>2
  <2> QED BY <1>7, <2>2, <2>3, <2>4, <2>5, <2>6, <2>7, <2>8 DEF m
<1> QED
  BY <1>6, <1>7

(* luaF_close: dead upvalues are freed, the others take their value over. *)
LEMMA CloseUpvalsKeeps ==
  ASSUME IInv, NEW s \in Slots, CloseUpvals(s)
  PROVE  IInv'
<1>0. PICK ups : ups = {u \in alloc \cap Upvals : open[u] # None /\ open[u][1] = L /\ open[u][2] >= s}
  OBVIOUS
<1>1. PICK dead : dead = {u \in ups : IsDead(u)}
  OBVIOUS
<1>2. PICK live : live = ups \ dead
  OBVIOUS
<1>3. PICK was : was = {u \in live : color[u] = "gray"}
  OBVIOUS
<1>4. PICK m : m = LinkUpvals(was)
  OBVIOUS
<1>5. /\ alloc' = alloc \ dead
      /\ val' = [p \in DOMAIN val |-> IF p \in live THEN UpvalValue(p) ELSE val[p]]
      /\ open' = [u \in Upvals |-> IF u \in ups THEN None ELSE open[u]]
      /\ color' = m.color /\ gray' = m.gray
      /\ UNCHANGED <<key, mode, stack, running, grayagain, weak, gcstate, currentwhite, unswept, tmudata, finalized>>
  BY <1>0, <1>1, <1>2, <1>3, <1>4 DEF CloseUpvals, MutatorOnly
<1>6. /\ HeapOK /\ Kinds /\ Lists /\ Made /\ Fresh /\ ToSweep /\ RootsLive /\ Stays(Live)
      /\ alloc \subseteq Obj /\ Live \subseteq alloc /\ currentwhite \in White
  BY LThread DEF IInv, Kinds
<1>7. /\ ups \subseteq alloc \cap Upvals /\ dead \subseteq ups /\ live \subseteq ups /\ live = ups \ dead
      /\ was \subseteq live /\ live \subseteq Live /\ dead \cap Live = {} /\ Live \subseteq alloc \ dead
      /\ \A p \in alloc \ dead : p \in Live \/ p \notin ups
      /\ \A u \in ups : open[u] # None /\ u \in Upvals
      /\ \A u \in was : color[u] = "gray"
  BY <1>0, <1>1, <1>2, <1>3 DEF Live
<1>8. /\ m \in MarksType /\ m.again = grayagain /\ m.weak = weak /\ Listed(m) \subseteq Live
      /\ \A p \in alloc : IsDead(p) <=> m.color[p] = otherwhite
      /\ \A u \in Upvals \ was : m.color[u] = color[u]
      /\ \A u \in was : m.color[u] # "gray"
      /\ \A u \in alloc \cap Udata : m.color[u] # "gray"
      /\ gcstate # "propagate" => m.gray = {} /\ \A p \in alloc : m.color[p] \in {color[p], currentwhite}
      /\ gcstate = "propagate" =>
           /\ m.gray \cap m.again = {} /\ m.gray \cap m.weak = {}
           /\ Listed(m) \subseteq alloc \cap Listable
           /\ \A o \in alloc : m.color[o] = "gray" => o \in Listed(m) \cup Strings \cup Upvals
           /\ \A o \in Listed(m) : m.color[o] = "gray"
           /\ \A h \in alloc \cap Threads : m.color[h] # "black"
           /\ Tri(m, tmudata) /\ Marked(Marks) \subseteq Marked(m)
  <2>1. was \in SUBSET (Live \cap Upvals) /\ \A u \in was : color[u] = "gray" /\ open[u] # None
    BY <1>7
  <2> QED BY <1>4, <2>1, LinkUpvalsKeeps
<1>9. \A u \in Upvals : u \in Obj /\ u \notin Tables \cup Udata \cup Closures \cup Threads \cup Strings
  BY KindAssumption DEF Obj
<1>10. HeapOK'
  <2>1. DOMAIN val = Tables \cup Udata \cup Closures \cup Upvals
    BY <1>6 DEF HeapOK
  <2>2. \A p \in live : UpvalValue(p) \in Values /\ p \in Upvals
    BY <1>6, <1>7, UpvalValues
  <2>3. /\ val' \in [Tables \cup Udata \cup Closures \cup Upvals -> Obj \cup {None}]
        /\ \A p \in Tables \cup Upvals : val'[p] \in Values
        /\ \A p \in Udata : val'[p] \in Tables \cup {None}
        /\ \A p \in Closures : val'[p] \in Upvals \cup {None}
    BY <1>5, <1>6, <1>9, <2>1, <2>2 DEF HeapOK, Values
  <2>4. open' \in [Upvals -> (Threads \X Slots) \cup {None}]
    BY <1>5, <1>6 DEF HeapOK
  <2> QED BY <1>5, <1>6, <2>3, <2>4 DEF HeapOK
<1>11. Marks' = [color |-> m.color, key |-> key, gray |-> m.gray, again |-> m.again, weak |-> m.weak]
       /\ Marks' \in MarksType
  BY <1>5, <1>6, <1>8 DEF Marks, MarksType, HeapOK
<1>12. Kinds'
  BY <1>5, <1>6, <1>10, <1>11 DEF Kinds
<1>13. Live' = Live
  BY <1>5, <1>7, <1>8 DEF Live, IsDead, otherwhite
<1>14. \A p \in alloc \ dead : AllRefs(p)' \subseteq AllRefs(p)
  <2> SUFFICES ASSUME NEW p \in alloc \ dead PROVE AllRefs(p)' \subseteq AllRefs(p) \cup {}
    OBVIOUS
  <2>1. CASE p \in live
    <3>1. p \in Upvals /\ open'[p] = None /\ val'[p] = UpvalValue(p)
      BY <1>5, <1>6, <1>7, <2>1 DEF HeapOK
    <3>2. AllRefs(p)' = {val'[p]} \ {None}
      BY <3>1, <1>9 DEF AllRefs, StrongRefs, WeakRefs, UpvalValue
    <3>3. AllRefs(p) = {UpvalValue(p)} \ {None}
      BY <3>1, RefsOfUpval DEF AllRefs
    <3> QED BY <3>1, <3>2, <3>3
  <2>2. CASE p \notin live
    <3>1. p \notin ups /\ p \in Obj
      BY <1>6, <1>7, <2>2
    <3>2. p \notin Threads \cup Strings => val'[p] = val[p]
      BY <1>5, <1>6, <2>2, <3>1 DEF HeapOK, Obj
    <3>3. p \in Upvals => open'[p] = open[p]
      BY <1>5, <3>1
    <3>4. Resumed(p)' = Resumed(p)
      BY <1>5 DEF Resumed
    <3> QED BY <1>5, <1>6, <3>1, <3>2, <3>3, <3>4, RefsAfter
  <2> QED BY <2>1, <2>2
<1>15. Stays(Live)'
  BY <1>6, <1>7, <1>13, <1>14 DEF Stays
<1>16. RootsLive'
  BY <1>5, <1>6, <1>13 DEF RootsLive, Roots
<1>17. Made'
  <2>1. \A c \in alloc' \cap Closures : val'[c] # None
    <3>1. \A c \in Closures : c \notin live /\ c \in DOMAIN val
      BY <1>6, <1>7, <1>9 DEF HeapOK
    <3> QED BY <1>5, <1>6, <3>1 DEF Made
  <2>2. ASSUME NEW u \in Upvals, open'[u] # None
        PROVE  u \in alloc' /\ open'[u][1] \in alloc' /\ color'[u] # "black"
    <3>1. u \notin ups /\ open'[u] = open[u] /\ u \notin was
      BY <1>5, <1>7, <2>2
    <3>2. open[u][1] \in Threads
      BY <1>6, <2>2, <3>1 DEF HeapOK
    <3>3. u \notin dead /\ open[u][1] \notin dead
      BY <1>7, <1>9, <3>1, <3>2
    <3> QED BY <1>5, <1>6, <1>8, <2>2, <3>1, <3>3 DEF Made
  <2>3. \A u \in alloc' \cap Udata : color'[u] # "gray"
    BY <1>5, <1>8
  <2> QED BY <2>1, <2>2, <2>3 DEF Made
<1>18. Fresh'
  <2>1. \A t \in Tables : t \notin live /\ t \notin dead /\ t \in DOMAIN val
    BY <1>6, <1>7, <1>9 DEF HeapOK
  <2>2. \A h \in Threads : h \notin dead
    BY <1>7, <1>9
  <2> QED BY <1>5, <1>6, <2>1, <2>2 DEF Fresh
<1>19. ToSweep'
  <2>1. unswept' \subseteq alloc' \ tmudata'
    BY <1>5, <1>6, <1>7 DEF ToSweep
  <2>2. \A u \in unswept' \cap Upvals : open'[u] = None
    BY <1>5, <1>6 DEF ToSweep
  <2>3. ~Sweeping' => unswept' = {} /\ Live' = alloc'
    BY <1>5, <1>6, <1>7, <1>13 DEF ToSweep, Sweeping
  <2>4. ASSUME gcstate # "propagate", NEW p \in alloc' \ tmudata, color'[p] # currentwhite
        PROVE  p \in unswept \/ (p \in Upvals /\ open'[p] # None /\ open'[p][1] \in unswept)
    <3>1. p \in alloc \ tmudata /\ p \notin dead /\ color[p] = color'[p]
      BY <1>5, <1>8, <2>4
    <3>2. p \in unswept \/ (p \in Upvals /\ open[p] # None /\ open[p][1] \in unswept)
      BY <1>6, <2>4, <3>1 DEF ToSweep
    <3>3. CASE p \in ups
      <4>1. p \in live /\ p \notin was
        <5>1. p \in Live /\ p \in live
          BY <1>7, <3>1, <3>3
        <5>2. color'[p] # "gray" \/ p \notin was
          BY <1>5, <1>8
        <5>3. p \in was => color[p] = "gray"
          BY <1>7
        <5> QED BY <3>1, <5>1, <5>2, <5>3
      <4>2. color[p] # "gray"
        BY <1>3, <4>1
      <4>3. color[p] # "black" /\ color[p] \in Colors
        BY <1>6, <1>7, <3>1, <3>3 DEF Made, Kinds, Marks, MarksType
      <4>4. color[p] \in White /\ color[p] # otherwhite
        BY <1>7, <4>1, <4>2, <4>3 DEF Colors, Live, IsDead
      <4> QED BY <1>6, <2>4, <3>1, <4>4 DEF White, otherwhite, Other
    <3>4. CASE p \notin ups
      BY <1>5, <3>2, <3>4
    <3> QED BY <3>3, <3>4
  <2> QED BY <1>5, <2>1, <2>2, <2>3, <2>4 DEF ToSweep
<1>20. Lists'
  <2>1. Listed(Marks)' = Listed(m) /\ Marked(Marks)' = Marked(m) /\ Marks'.color = m.color
    BY <1>11 DEF Listed, Marked
  <2>2. ASSUME gcstate = "propagate" PROVE Books(Marks)' /\ Tri(Marks, tmudata)' /\ alloc' = alloc
    <3>1. alloc' = alloc /\ dead = {}
      BY <1>5, <1>7, <2>2, WhileMarking
    <3>2. Books(Marks)
      BY <1>6, <2>2 DEF Lists
    <3>3. \A u \in alloc \cap Upvals : m.color[u] = "gray" => open'[u] # None
      <4> SUFFICES ASSUME NEW u \in alloc \cap Upvals, m.color[u] = "gray" PROVE open'[u] # None
        OBVIOUS
      <4>1. u \notin was /\ color[u] = "gray"
        BY <1>8
      <4>2. u \notin ups /\ open[u] # None
        BY <1>2, <1>3, <3>1, <3>2, <4>1 DEF Books, Marks
      <4> QED BY <1>5, <4>2
    <3>4. \A u \in Upvals : open'[u] # None => m.color[u] # "black"
      BY <1>5, <1>17 DEF Made
    <3>5. m.weak \subseteq Tables /\ m.again \cap m.weak = {}
      BY <1>8, <3>2 DEF Books, Marks
    <3>6. Books(Marks)'
      BY <1>8, <1>11, <2>1, <2>2, <3>1, <3>3, <3>4, <3>5 DEF Books
    <3>7. Tri(Marks, tmudata)'
      <4> SUFFICES ASSUME NEW p \in alloc \ tmudata, m.color[p] = "black" PROVE AllRefs(p)' \subseteq Marked(m)
        BY <1>5, <2>1, <3>1 DEF Tri
      <4> QED BY <1>8, <1>14, <2>2, <3>1 DEF Tri
    <3> QED BY <3>1, <3>6, <3>7
  <2>3. gcstate = "propagate" => {registry, mainthread} \subseteq Marked(Marks)'
    BY <1>6, <1>8, <2>1 DEF Lists
  <2> QED BY <1>5, <1>8, <1>13, <2>1, <2>2, <2>3 DEF Lists
<1> QED
  BY <1>12, <1>15, <1>16, <1>17, <1>18, <1>19, <1>20 DEF IInv

-----------------------------------------------------------------------------
(* lua_close is not taken back. *)
LEMMA ClosingStays ==
  ASSUME Next, closing' = "no"
  PROVE  closing = "no"
<1> USE DEF CollectorOnly, MutatorOnly
<1>1. CASE MarkRoot \/ Atomic \/ SweepEnd \/ Pause
  BY <1>1 DEF MarkRoot, Atomic, SweepEnd, Pause
<1>2. CASE \E o \in gray : PropagateMark(o)
  BY <1>2 DEF PropagateMark
<1>3. CASE \E o \in unswept : Sweep(o)
  BY <1>3 DEF Sweep
<1>4. CASE \E u \in tmudata, s \in Slots : GCTM(u, s)
  BY <1>4 DEF GCTM
<1>5. CASE \E s \in Slots, o \in Values : Load(s, o) \/ New(s, o) \/ NewString(s, o)
  BY <1>5 DEF Load, New, NewString
<1>6. CASE \E s, t \in Slots, c \in Closures, u \in Upvals : NewClosure(s, t, c, u)
  BY <1>6 DEF NewClosure
<1>7. CASE \E t \in Tables : \/ \E k, v \in Values : SetTable(t, k, v)
                             \/ \E md \in Modes : SetMode(t, md)
                             \/ \E u \in Udata : SetEnv(u, t)
  BY <1>7 DEF SetTable, SetMode, SetEnv
<1>8. CASE \E c \in Closures, v \in Values : SetUpval(c, v)
  BY <1>8 DEF SetUpval
<1>9. CASE \E s \in Slots : CloseUpvals(s)
  BY <1>9 DEF CloseUpvals
<1>10. CASE \E h \in Threads : Resume(h)
  BY <1>10 DEF Resume
<1>11. CASE Yield \/ FullGC \/ CloseState \/ FreeAll
  BY <1>11 DEF Yield, FullGC, CloseState, FreeAll
<1> QED
  BY <1>1, <1>2, <1>3, <1>4, <1>5, <1>6, <1>7, <1>8, <1>9, <1>10, <1>11 DEF Next, SingleStep, Mutate

(* Every step keeps the invariant. *)
LEMMA NextInv ==
  ASSUME Inv, [Next]_vars
  PROVE  Inv'
<1> SUFFICES ASSUME closing' = "no" PROVE IInv'
  BY DEF Inv
<1>1. CASE Next
  <2>0. closing = "no" /\ IInv
    BY <1>1, ClosingStays DEF Inv
  <2>1. CASE MarkRoot
    BY <2>0, <2>1, MarkRootKeeps
  <2>2. CASE Atomic
    BY <2>0, <2>2, AtomicKeeps
  <2>3. CASE SweepEnd
    BY <2>0, <2>3, SweepEndKeeps
  <2>4. CASE Pause
    BY <2>0, <2>4, PauseKeeps
  <2>5. CASE \E o \in gray : PropagateMark(o)
    BY <2>0, <2>5, PropagateMarkKeeps
  <2>6. CASE \E o \in unswept : Sweep(o)
    BY <2>0, <2>6, SweepKeeps
  <2>7. CASE \E u \in tmudata, s \in Slots : GCTM(u, s)
    BY <2>0, <2>7, GCTMKeeps
  <2>8. CASE \E s \in Slots, o \in Values : Load(s, o)
    BY <2>0, <2>8, LoadKeeps
  <2>9. CASE \E s \in Slots, o \in Values : New(s, o)
    BY <2>0, <2>9, NewKeeps
  <2>10. CASE \E s \in Slots, o \in Values : NewString(s, o)
    BY <2>0, <2>10, NewStringKeeps
  <2>11. CASE \E s, t \in Slots, c \in Closures, u \in Upvals : NewClosure(s, t, c, u)
    BY <2>0, <2>11, NewClosureKeeps
  <2>12. CASE \E t \in Tables, k, v \in Values : SetTable(t, k, v)
    BY <2>0, <2>12, SetTableKeeps
  <2>13. CASE \E t \in Tables, md \in Modes : SetMode(t, md)
    BY <2>0, <2>13, SetModeKeeps
  <2>14. CASE \E t \in Tables, u \in Udata : SetEnv(u, t)
    BY <2>0, <2>14, SetEnvKeeps
  <2>15. CASE \E c \in Closures, v \in Values : SetUpval(c, v)
    BY <2>0, <2>15, SetUpvalKeeps
  <2>16. CASE \E s \in Slots : CloseUpvals(s)
    BY <2>0, <2>16, CloseUpvalsKeeps
  <2>17. CASE \E h \in Threads : Resume(h)
    BY <2>0, <2>17, ResumeKeeps
  <2>18. CASE Yield
    BY <2>0, <2>18, YieldKeeps
  <2>19. CASE FullGC
    BY <2>0, <2>19, FullGCKeeps
  <2>20. CASE CloseState \/ FreeAll
    BY <2>20 DEF CloseState, FreeAll
  <2> QED
    BY <1>1, <2>1, <2>2, <2>3, <2>4, <2>5, <2>6, <2>7, <2>8, <2>9, <2>10, <2>11, <2>12, <2>13, <2>14,
       <2>15, <2>16, <2>17, <2>18, <2>19, <2>20 DEF Next, SingleStep, Mutate
<1>2. CASE UNCHANGED vars
  <2>1. /\ UNCHANGED <<alloc, color, key, val, mode, stack, open, running, currentwhite, tmudata, finalized>>
        /\ UNCHANGED <<gray, grayagain, weak, gcstate, unswept, closing>>
    BY <1>2 DEF vars, heap, lists
  <2>2. IInv
    BY <2>1 DEF Inv
  <2>3. HeapOK' /\ Stays(Live)' /\ RootsLive' /\ Made' /\ Fresh' /\ Live' = Live
    BY <2>1, <2>2, SameHeap
  <2>4. Kinds'
    BY <2>1, <2>2, <2>3 DEF IInv, Kinds, Marks
  <2>5. ToSweep'
    BY <2>1, <2>2, <2>3 DEF IInv, ToSweep, Sweeping
  <2>6. Lists'
    <3>1. Marks' = Marks /\ Listed(Marks)' = Listed(Marks) /\ Marked(Marks)' = Marked(Marks)
      BY <2>1 DEF Marks, Listed, Marked
    <3>2. \A o \in alloc : AllRefs(o)' = AllRefs(o)
      BY <2>1 DEF AllRefs, StrongRefs, WeakRefs, UpvalValue, OfThread, Resumed
    <3>3. Books(Marks) => Books(Marks)'
      BY <2>1, <3>1 DEF Books
    <3>4. Tri(Marks, tmudata) => Tri(Marks, tmudata)'
      BY <2>1, <3>1, <3>2 DEF Tri
    <3> QED BY <2>1, <2>2, <2>3, <3>1, <3>3, <3>4 DEF IInv, Lists
  <2> QED BY <2>3, <2>4, <2>5, <2>6 DEF IInv
<1> QED
  BY <1>1, <1>2

(* Inv holds in every state. *)
THEOREM Invariant == Spec => []Inv
<1>1. Init => Inv
  BY InitInv
<1>2. Inv /\ [Next]_vars => Inv'
  BY NextInv
<1> QED
  BY <1>1, <1>2, PTL DEF Spec

(* What is reachable is not dead. *)
LEMMA ReachLive ==
  ASSUME IInv, NEW S \in SUBSET (Roots \cup tmudata)
  PROVE  S \subseteq Obj /\ Reach(S) \subseteq Live
<1>1. HeapOK /\ Live \subseteq Obj /\ S \subseteq Live
  BY LThread DEF IInv, RootsLive
<1>2. Closed(Live)
  BY DEF IInv, Stays, AllRefs, Closed
<1> QED
  BY <1>1, <1>2, ReachLeast

(* Nothing that can be reached has been freed. *)
LEMMA InvNoDangling ==
  ASSUME Inv
  PROVE  NoDangling
<1> SUFFICES ASSUME IInv, NEW r, r = Reach(Roots \cup tmudata)
             PROVE  /\ r \subseteq alloc
                    /\ \A o \in r : WeakRefs(o) \subseteq alloc
                    /\ \A u \in r \cap Upvals : open[u] # None => open[u][1] \in alloc
  BY DEF Inv, NoDangling
<1>1. r \subseteq Live
  BY ReachLive
<1>2. Live \subseteq alloc /\ Stays(Live) /\ Made
  BY LThread DEF IInv
<1> QED
  BY <1>1, <1>2 DEF Stays, AllRefs, Made

(* The colours while marking, the lists and the phases of barriers. *)
LEMMA InvMarking ==
  ASSUME Inv
  PROVE  Marking
<1> SUFFICES ASSUME IInv PROVE TriColor /\ OneList /\ BarrierPhase
  BY DEF Inv, Marking
<1>1. TriColor
  <2> SUFFICES ASSUME gcstate = "propagate", NEW o \in alloc \ tmudata, color[o] = "black",
                      NEW p \in StrongRefs(o)
               PROVE  color[p] \notin White
    BY DEF TriColor
  <2>1. Tri(Marks, tmudata) /\ Marks.color = color
    BY WhileMarking DEF Marks
  <2>2. p \in Marked(Marks)
    BY <2>1 DEF Tri, AllRefs
  <2> QED BY <2>1, <2>2 DEF Marked
<1>2. OneList
  BY DEF OneList, IInv, Lists, Books, Listed, Marks
<1>3. BarrierPhase
  <2> SUFFICES ASSUME gcstate \in {"pause", "finalize"}, NEW o \in Reach(Roots) \ tmudata
               PROVE  color[o] # "black"
    BY DEF BarrierPhase
  <2>1. o \in Live /\ o \in alloc
    BY ReachLive, LThread
  <2>2. color[o] = currentwhite
    BY <2>1 DEF IInv, ToSweep, Sweeping
  <2> QED BY <2>2 DEF IInv, Kinds, White
<1> QED
  BY <1>1, <1>2, <1>3

(* No object the program, a finalizer or a weak table can come at is freed   *)
(* before lua_close, whatever the program does between the collector's steps *)
(* (lgc.c with lfunc.c, lstring.c and the barriers of lgc.h).                *)
THEOREM NothingDangles == Spec => []NoDangling
BY Invariant, InvNoDangling, PTL

(* While marking no black object refers to a white one, no object is on two  *)
(* lists, and a barrier fires in no other phase than marking and sweeping.   *)
THEOREM MarkingHolds == Spec => []Marking
BY Invariant, InvMarking, PTL

-----------------------------------------------------------------------------
(* What the collector may never do in a step. *)

(* No step frees what is not dead. *)
LEMMA LiveStays ==
  ASSUME IInv, closing = "no", Next
  PROVE  Live \subseteq alloc'
<1> USE DEF CollectorOnly, MutatorOnly, heap
<1>0. Live \subseteq alloc
  BY DEF Live
<1>1. CASE MarkRoot \/ Atomic \/ SweepEnd \/ Pause
  BY <1>0, <1>1 DEF MarkRoot, Atomic, SweepEnd, Pause
<1>2. CASE \E o \in gray : PropagateMark(o)
  BY <1>0, <1>2 DEF PropagateMark
<1>3. ASSUME NEW o \in unswept, Sweep(o) PROVE Live \subseteq alloc'
  <2>1. PICK free : alloc' = alloc \ free /\ \A p \in free : IsDead(p)
    BY <1>3 DEF Sweep
  <2> QED BY <2>1 DEF Live
<1>4. CASE \E u \in tmudata, s \in Slots : GCTM(u, s)
  BY <1>0, <1>4 DEF GCTM
<1>5. CASE \E s \in Slots, o \in Values : Load(s, o) \/ New(s, o) \/ NewString(s, o)
  BY <1>0, <1>5 DEF Load, New, NewString
<1>6. CASE \E s, t \in Slots, c \in Closures, u \in Upvals : NewClosure(s, t, c, u)
  BY <1>0, <1>6 DEF NewClosure
<1>7. CASE \E t \in Tables : \/ \E k, v \in Values : SetTable(t, k, v)
                             \/ \E md \in Modes : SetMode(t, md)
                             \/ \E u \in Udata : SetEnv(u, t)
  BY <1>0, <1>7 DEF SetTable, SetMode, SetEnv
<1>8. CASE \E c \in Closures, v \in Values : SetUpval(c, v)
  BY <1>0, <1>8 DEF SetUpval
<1>9. ASSUME NEW s \in Slots, CloseUpvals(s) PROVE Live \subseteq alloc'
  <2>1. PICK ups : ups = {u \in alloc \cap Upvals : open[u] # None /\ open[u][1] = L /\ open[u][2] >= s}
    OBVIOUS
  <2>2. PICK dead : dead = {u \in ups : IsDead(u)}
    OBVIOUS
  <2>3. alloc' = alloc \ dead
    BY <1>9, <2>1, <2>2 DEF CloseUpvals
  <2> QED BY <2>2, <2>3 DEF Live
<1>10. CASE \E h \in Threads : Resume(h)
  BY <1>0, <1>10 DEF Resume
<1>11. CASE Yield \/ FullGC \/ CloseState
  BY <1>0, <1>11 DEF Yield, FullGC, CloseState
<1>12. ~FreeAll
  BY DEF FreeAll
<1> QED
  BY <1>1, <1>2, <1>3, <1>4, <1>5, <1>6, <1>7, <1>8, <1>9, <1>10, <1>11, <1>12 DEF Next, SingleStep, Mutate

(* What is strongly reachable is marked when luaC_separateudata is called, but *)
(* for what only udata that wait for their finalizer refer to.                 *)
LEMMA ReachMarked ==
  ASSUME Ready
  PROVE  /\ Reach(Roots) \subseteq alloc \cap Marked(M4)
         /\ Reach(Roots) \cap tmudata = {} => Reach(Roots) \subseteq Marked(M3)
<1>1. HeapOK /\ Stays(alloc) /\ alloc \subseteq Obj /\ Roots \subseteq alloc
  BY DEF Ready, HeapOK
<1>2. /\ Roots \subseteq Reach(Roots) /\ Closed(Reach(Roots)) /\ Reach(Roots) \subseteq Obj
      /\ \A C \in SUBSET Obj : Roots \subseteq C /\ Closed(C) => Reach(Roots) \subseteq C
  BY <1>1, ReachLeast
<1>3. Good(M4) /\ Done(M4, {}) /\ M4.gray = {} /\ Roots \subseteq Marked(M4)
  BY AtomicFour
<1>4. Closed(alloc \cap Marked(M4))
  BY <1>1, <1>3 DEF Closed, Done, Stays, AllRefs
<1>5. Reach(Roots) \subseteq alloc \cap Marked(M4)
  <2>1. alloc \cap Marked(M4) \in SUBSET Obj
    BY <1>1
  <2> QED BY <1>1, <1>2, <1>3, <1>4, <2>1
<1>6. ASSUME Reach(Roots) \cap tmudata = {} PROVE Reach(Roots) \subseteq Marked(M3)
  <2> DEFINE C == Reach(Roots) \cap Marked(M3)
  <2>1. /\ M3.gray = {} /\ Done(M3, tmudata) /\ Marked(Marks) \subseteq Marked(M3)
        /\ {registry, mainthread} \subseteq Marked(Marks)
    BY AtomicThree DEF Ready
  <2>2. \A h \in C : StrongRefs(h) \subseteq C
    BY <1>2, <1>5, <1>6, <2>1 DEF Done, Closed
  <2>3. registry \in C /\ mainthread \in C
    BY <1>2, <2>1 DEF Roots
  <2>4. C \in SUBSET Obj /\ Closed(C)
    BY <1>2, <2>2 DEF Closed
  <2> HIDE DEF C
  <2>5. Roots \subseteq C
    BY <1>1, <2>2, <2>3, RootsFollow
  <2>6. Reach(Roots) \subseteq C
    BY <1>2, <2>4, <2>5
  <2> QED BY <2>6 DEF C
<1> QED
  BY <1>5, <1>6

\* What Atomic takes from the tables, and whom it finds lost.
Cut == Cleared([color |-> M4.color, key |-> M4.key, weak |-> M4.weak, finalized |-> finalized \cup Lost(M3)])

(* The parts of atomic that the tables' entries depend on. *)
LEMMA AtomicIs ==
  ASSUME Atomic
  PROVE  /\ gcstate = "propagate" /\ gray = {}
         /\ key' = [t \in Tables |-> IF t \in Cut THEN None ELSE M4.key[t]]
         /\ val' = [o \in DOMAIN val |-> IF o \in Cut THEN None ELSE val[o]]
         /\ tmudata' = tmudata \cup (Lost(M3) \cap GcUdata)
BY DEF Atomic, M1, M2, M3, M4, Tmu, Cut, SetMarks

(* The heap when atomic begins. *)
LEMMA AtomicReady ==
  ASSUME IInv, Atomic
  PROVE  Ready /\ HeapOK /\ alloc \subseteq Obj
<1>1. gcstate = "propagate" /\ gray = {}
  BY AtomicIs
<1> QED
  BY <1>1, WhileMarking DEF Ready, IInv, Kinds, HeapOK

(* The end of the marking takes no entry whose ends are reachable. *)
LEMMA AtomicTakesNothing ==
  ASSUME IInv, Atomic, Reach(Roots) \cap tmudata = {},
         NEW t \in Reach(Roots) \cap Tables, val[t] # None, WeakRefs(t) \subseteq Reach(Roots),
         val[t] \notin finalized
  PROVE  key'[t] = key[t] /\ val'[t] = val[t]
<1>1. Ready /\ HeapOK /\ alloc \subseteq Obj
  BY AtomicReady
<1>2. Reach(Roots) \subseteq alloc \cap Marked(M4) /\ Reach(Roots) \subseteq Marked(M3)
  BY <1>1, ReachMarked
<1>3. M4.key[t] = key[t]
  BY <1>1, AtomicFour DEF Good, Keys
<1>4. t \notin Cut
  <2> DEFINE f == [color |-> M4.color, key |-> M4.key, weak |-> M4.weak, finalized |-> finalized \cup Lost(M3)]
  <2>1. {key[t], val[t]} \ {None} \subseteq Reach(Roots)
    BY RefsOfTable
  <2>2. ~IsCleared(f, key[t], TRUE)
    <3>1. key[t] = None \/ M4.color[key[t]] \notin White
      BY <1>2, <2>1 DEF Marked
    <3> QED BY <3>1 DEF IsCleared
  <2>3. ~IsCleared(f, val[t], FALSE)
    <3>1. M4.color[val[t]] \notin White /\ M3.color[val[t]] \notin White
      BY <1>2, <2>1 DEF Marked
    <3> QED BY <3>1 DEF IsCleared, Lost
  <2> QED BY <1>3, <2>2, <2>3 DEF Cut, Cleared
<1> QED
  BY <1>1, <1>3, <1>4, AtomicIs DEF HeapOK

(* No other change of phase touches the entry of a table that lives. *)
LEMMA PhaseTakesNothing ==
  ASSUME IInv, closing = "no", Next, gcstate' # gcstate, ~Atomic, NEW t \in Live \cap Tables
  PROVE  key'[t] = key[t] /\ val'[t] = val[t]
<1> USE DEF CollectorOnly, MutatorOnly
<1>0. HeapOK
  BY LThread
<1>1. CASE MarkRoot
  <2> DEFINE m == [Marks EXCEPT !.gray = {}, !.again = {}, !.weak = {}]
  <2>1. m \in MarksType /\ m.key = key
    BY DEF IInv, Kinds, MarksType, Marks
  <2>2. {mainthread, registry} \in SUBSET (Obj \cup {None})
    BY LThread
  <2>3. key' = MarkAll(m, {mainthread, registry}).key /\ val' = val
    BY <1>1 DEF MarkRoot, SetMarks
  <2> HIDE DEF m
  <2>4. MarkAll(m, {mainthread, registry}).key = m.key
    BY <1>0, <2>1, <2>2, MarkAllSets
  <2> QED BY <2>1, <2>3, <2>4
<1>2. CASE SweepEnd \/ Pause
  BY <1>2 DEF SweepEnd, Pause
<1>3. ASSUME NEW o \in unswept, Sweep(o) PROVE key'[t] = key[t] /\ val'[t] = val[t]
  <2>1. PICK ups : ups = {u \in alloc \cap Upvals : o \in Threads /\ open[u] # None /\ open[u][1] = o}
    OBVIOUS
  <2>2. PICK free : free = {p \in ups \cup {o} : IsDead(p)}
    OBVIOUS
  <2>3. PICK shut : shut = IF o \in free THEN ups \ free ELSE {}
    OBVIOUS
  <2>4. /\ val' = [p \in DOMAIN val |-> IF p \in shut THEN UpvalValue(p) ELSE IF p \in free THEN None ELSE val[p]]
        /\ key' = [p \in Tables |-> IF p \in free THEN None ELSE key[p]]
    BY <1>3, <2>1, <2>2, <2>3 DEF Sweep
  <2>5. t \notin free /\ t \notin shut
    BY <2>1, <2>2, <2>3, KindAssumption DEF Live
  <2> QED BY <1>0, <2>4, <2>5 DEF HeapOK
<1>4. CASE FullGC \/ CloseState
  BY <1>4 DEF FullGC, CloseState, heap
<1>5. CASE (\E o \in gray : PropagateMark(o)) \/ (\E u \in tmudata, s \in Slots : GCTM(u, s))
  BY <1>5 DEF PropagateMark, GCTM
<1>6. CASE \E s \in Slots, o \in Values : Load(s, o) \/ New(s, o) \/ NewString(s, o)
  BY <1>6 DEF Load, New, NewString
<1>7. CASE \E s, r \in Slots, c \in Closures, u \in Upvals : NewClosure(s, r, c, u)
  BY <1>7 DEF NewClosure
<1>8. CASE \E r \in Tables : \/ \E k, v \in Values : SetTable(r, k, v)
                             \/ \E md \in Modes : SetMode(r, md)
                             \/ \E u \in Udata : SetEnv(u, r)
  BY <1>8 DEF SetTable, SetMode, SetEnv
<1>9. CASE \E c \in Closures, v \in Values : SetUpval(c, v)
  BY <1>9 DEF SetUpval
<1>10. CASE \E s \in Slots : CloseUpvals(s)
  BY <1>10 DEF CloseUpvals
<1>11. CASE (\E h \in Threads : Resume(h)) \/ Yield
  BY <1>11 DEF Resume, Yield
<1>12. ~FreeAll
  BY DEF FreeAll
<1> QED
  BY <1>1, <1>2, <1>3, <1>4, <1>5, <1>6, <1>7, <1>8, <1>9, <1>10, <1>11, <1>12 DEF Next, SingleStep, Mutate

(* Every step keeps what the program can come at. *)
LEMMA InvKept ==
  ASSUME Inv, Next
  PROVE  Kept
<1> SUFFICES ASSUME IInv, closing = "no", NEW r, r = Reach(Roots)
             PROVE  /\ r \subseteq alloc'
                    /\ gcstate' # gcstate /\ r \cap tmudata = {} =>
                         \A t \in r \cap Tables :
                           val[t] # None /\ WeakRefs(t) \subseteq r /\ val[t] \notin finalized
                             => key'[t] = key[t] /\ val'[t] = val[t]
  BY DEF Inv, Kept
<1>1. r \subseteq Live
  BY ReachLive
<1>2. r \subseteq alloc'
  BY <1>1, LiveStays
<1>3. ASSUME gcstate' # gcstate, r \cap tmudata = {}, NEW t \in r \cap Tables,
             val[t] # None, WeakRefs(t) \subseteq r, val[t] \notin finalized
      PROVE  key'[t] = key[t] /\ val'[t] = val[t]
  <2>1. CASE Atomic
    BY <1>3, <2>1, AtomicTakesNothing
  <2>2. CASE ~Atomic
    BY <1>1, <1>3, <2>2, PhaseTakesNothing
  <2> QED BY <2>1, <2>2
<1> QED
  BY <1>2, <1>3

(* The collector takes nothing from the program that it can come at strongly. *)
THEOREM TakesNothing == Spec => NothingTaken
<1>1. Inv /\ [Next]_vars => [Kept]_vars
  BY InvKept
<1> QED
  BY <1>1, Invariant, PTL DEF Spec, NothingTaken

(* A weak table the program can come at is among those cleared, or was passed *)
(* over before its value was found lost; the second is not so.                *)
LEMMA AtomicGone ==
  ASSUME IInv, Atomic, NEW t \in Reach(Roots) \cap Tables, "v" \in mode[t], val[t] \in tmudata' \ tmudata
  PROVE  val'[t] = None
<1>1. Ready /\ HeapOK
  BY AtomicReady
<1>2. val[t] \in Lost(M3) /\ val[t] \in Udata /\ val[t] \in alloc /\ M3.color[val[t]] \in White
  BY AtomicIs DEF Lost
<1>3. val[t] # None /\ val[t] \notin Strings /\ t \notin tmudata /\ mode[t] # {}
  BY <1>1, <1>2, ObjAssumption, KindAssumption DEF Obj, Ready
<1>4. /\ M4 \in MarksType /\ Books(M4) /\ M4.gray = {} /\ M4.again \subseteq Threads
      /\ M4.color[t] = "black" => M3.color[t] = "black"
  BY <1>1, <1>3, AtomicFour DEF Good
<1>5. t \in alloc /\ t \in Obj /\ M4.color[t] \notin White
  BY <1>1, ReachMarked DEF Marked, HeapOK
<1>6. CASE M4.color[t] = "black"
  <2>1. Tri(M3, tmudata)
    BY <1>1, AtomicThree
  <2>2. val[t] \in AllRefs(t)
    BY <1>3, RefsOfTable DEF AllRefs
  <2>3. val[t] \in Marked(M3)
    BY <1>3, <1>4, <1>5, <1>6, <2>1, <2>2 DEF Tri
  <2> QED BY <1>2, <2>3 DEF Marked
<1>7. CASE M4.color[t] = "gray"
  <2>1. t \notin Strings \cup Upvals \cup Threads
    BY KindAssumption
  <2>2. t \in M4.weak
    BY <1>4, <1>5, <1>7, <2>1 DEF Books, Listed
  <2> DEFINE f == [color |-> M4.color, key |-> M4.key, weak |-> M4.weak, finalized |-> finalized \cup Lost(M3)]
  <2>3. IsCleared(f, val[t], FALSE)
    BY <1>2, <1>3 DEF IsCleared
  <2>4. t \in Cut
    BY <1>3, <2>2, <2>3 DEF Cut, Cleared
  <2> QED BY <1>1, <2>4, AtomicIs DEF HeapOK
<1>8. M4.color[t] \in Colors
  BY <1>4, <1>5 DEF MarksType
<1> QED
  BY <1>5, <1>6, <1>7, <1>8 DEF Colors

(* Only the end of the marking and lua_close find udata to be finalized. *)
LEMMA FewFind ==
  ASSUME Next, ~Atomic, closing' = "no"
  PROVE  tmudata' \subseteq tmudata
BY DEF Next, SingleStep, Mutate, CollectorOnly, MutatorOnly, MarkRoot, SweepEnd, Pause, PropagateMark, Sweep,
       GCTM, Load, New, NewString, NewClosure, SetTable, SetMode, SetEnv, SetUpval, CloseUpvals, Resume, Yield,
       FullGC, CloseState, FreeAll

(* Every step that finds udata to be finalized takes them from the weak *)
(* tables.                                                              *)
LEMMA InvGone ==
  ASSUME Inv, Next
  PROVE  Gone
<1> SUFFICES ASSUME closing' = "no", ~(tmudata' \subseteq tmudata), NEW t \in Reach(Roots) \cap Tables,
                    "v" \in mode[t], val[t] \in tmudata' \ tmudata
             PROVE  val'[t] = None
  BY DEF Gone
<1>1. Atomic
  BY FewFind
<1>2. closing = "no"
  BY ClosingStays
<1> QED
  BY <1>1, <1>2, AtomicGone DEF Inv

(* A udata about to be finalized is the value of no weak table the program can *)
(* come at any more (atomic and cleartable, lgc.c).                            *)
THEOREM GoneFirst == Spec => GoneFromValues
<1>1. Inv /\ [Next]_vars => [Gone]_vars
  BY InvGone
<1> QED
  BY <1>1, Invariant, PTL DEF Spec, GoneFromValues

-----------------------------------------------------------------------------
(* Finalizers: what holds of them through lua_close too, where what they refer *)
(* to no longer matters.  Marking turns no colour white.                       *)

Pales(m, r) ==
  /\ r \in MarksType
  /\ \A o \in Obj : r.color[o] = m.color[o] \/ r.color[o] \in {"gray", "black"}

(* Marking twice turns no colour white. *)
LEMMA PalesTransitive ==
  ASSUME NEW m, NEW n, NEW r, Pales(m, n), Pales(n, r)
  PROVE  Pales(m, r)
BY DEF Pales

(* Marking turns no colour white, whatever is marked. *)
LEMMA MarkAllPales ==
  ASSUME NEW m \in MarksType, NEW S
  PROVE  Pales(m, MarkAll(m, S))
<1>1. PICK hit : hit = Hit(m, S)
  OBVIOUS
<1>2. PICK c : c = [o \in Obj |-> IF o \notin hit THEN m.color[o]
                      ELSE IF o \in Udata \cup {u \in Upvals : open[u] = None} THEN "black" ELSE "gray"]
  OBVIOUS
<1>3. MarkAll(m, S) = [m EXCEPT !.color = c, !.gray = @ \cup (hit \cap Listable)]
  BY <1>1, <1>2 DEF MarkAll, Listable
<1>4. c \in [Obj -> Colors] /\ \A o \in Obj : c[o] = m.color[o] \/ c[o] \in {"gray", "black"}
  BY <1>2 DEF Colors, MarksType
<1>5. hit \cap Listable \subseteq Obj
  BY DEF Listable, Obj
<1>6. /\ MarkAll(m, S) \in MarksType /\ MarkAll(m, S).color = c
  BY <1>3, <1>4, <1>5 DEF MarksType
<1> QED
  BY <1>4, <1>6 DEF Pales

(* Leaving the list gray turns no colour white. *)
LEMMA LeftPales ==
  ASSUME NEW m \in MarksType, NEW o \in Obj
  PROVE  Pales(m, Left(m, o))
<1>1. KeyLeft(m, o) \in [Tables -> Values]
  BY DEF KeyLeft, MarksType, Values
<1> HIDE DEF KeyLeft
<1>2. CASE o \in Threads \/ (o \in Tables /\ mode[o] # {})
  BY <1>1, <1>2 DEF Left, MarksType, Pales
<1>3. CASE o \notin Threads /\ ~(o \in Tables /\ mode[o] # {})
  <2>1. PICK n : n = [m EXCEPT !.gray = @ \ {o}, !.key = KeyLeft(m, o), !.color = [@ EXCEPT ![o] = "black"]]
    OBVIOUS
  <2>2. Left(m, o) = n
    BY <1>3, <2>1 DEF Left, MarksType
  <2>3. n \in MarksType /\ n.color = [m.color EXCEPT ![o] = "black"]
    BY <1>1, <2>1 DEF MarksType, Colors
  <2>4. \A p \in Obj : n.color[p] = m.color[p] \/ n.color[p] = "black"
    BY <2>3 DEF MarksType
  <2> QED BY <2>2, <2>3, <2>4 DEF Pales
<1> QED
  BY <1>2, <1>3

(* One step of propagateall turns no colour white. *)
LEMMA PropagateOnePales ==
  ASSUME NEW m \in MarksType
  PROVE  Pales(m, PropagateOne(m))
<1>1. CASE m.gray = {}
  BY <1>1 DEF PropagateOne, Pales
<1>2. CASE m.gray # {}
  <2>1. PICK o \in m.gray : PropagateOne(m) = Traverse(m, o)
    BY <1>2 DEF PropagateOne
  <2>2. o \in Obj
    BY DEF MarksType
  <2>3. Pales(m, Left(m, o)) /\ Left(m, o) \in MarksType
    BY <2>2, LeftPales DEF Pales
  <2>4. Pales(Left(m, o), MarkAll(Left(m, o), Passed(o)))
    BY <2>3, MarkAllPales
  <2> QED BY <2>1, <2>3, <2>4, TraverseIs, PalesTransitive
<1> QED
  BY <1>1, <1>2

(* propagateall turns no colour white. *)
LEMMA PropagateAllPales ==
  ASSUME NEW m \in MarksType
  PROVE  Pales(m, PropagateAll(m))
<1>1. PICK K : K = Cardinality(Obj)
  OBVIOUS
<1>2. K \in Nat
  BY <1>1, FS_CardinalityType, KindAssumption
<1>3. PICK f : f[0] = m /\ PropagateAll(m) = f[K] /\ \A n \in 1 .. K : f[n] = PropagateOne(f[n - 1])
  BY <1>1, PropagateSteps
<1>4. PICK S : S = {n \in Nat : n <= K => Pales(m, f[n])}
  OBVIOUS
<1>5. 0 \in S
  BY <1>3, <1>4 DEF Pales
<1>6. ASSUME NEW n \in Nat, n \in S PROVE n + 1 \in S
  <2>1. n + 1 <= K => n <= K /\ n + 1 \in 1 .. K /\ (n + 1) - 1 = n
    BY <1>2
  <2>2. n + 1 <= K => Pales(m, f[n]) /\ f[n] \in MarksType /\ f[n + 1] = PropagateOne(f[n])
    BY <1>3, <1>4, <1>6, <2>1 DEF Pales
  <2>3. n + 1 <= K => Pales(m, f[n + 1])
    BY <2>2, PropagateOnePales, PalesTransitive
  <2> QED BY <1>4, <2>3
<1>7. K \in S
  BY <1>2, <1>5, <1>6, NatSetInduction
<1> QED
  BY <1>2, <1>3, <1>4, <1>7

(* An object that is white at the end of atomic, and does not wait for its *)
(* finalizer, was white when luaC_separateudata was called.                *)
LEMMA AtomicPales ==
  ASSUME Marks \in MarksType, currentwhite \in White
  PROVE  /\ M4 \in MarksType
         /\ \A o \in Obj \ Tmu : M4.color[o] \in White => M3.color[o] \in White
<1>1. RemarkUpvals(Marks) \in MarksType
  BY MarkAllPales DEF RemarkUpvals, Pales
<1>2. M1 \in MarksType
  BY <1>1, PropagateAllPales DEF M1, Pales
<1>3. [M1 EXCEPT !.gray = M1.weak, !.weak = {}] \in MarksType
  BY <1>2 DEF MarksType
<1>4. MarkAll([M1 EXCEPT !.gray = M1.weak, !.weak = {}], {L}) \in MarksType
  BY <1>3, MarkAllPales DEF Pales
<1>5. M2 \in MarksType
  BY <1>4, PropagateAllPales DEF M2, Pales
<1>6. RegrayAgain(M2) \in MarksType
  BY <1>5 DEF RegrayAgain, MarksType
<1>7. M3 \in MarksType
  BY <1>6, PropagateAllPales DEF M3, Pales
<1>8. PICK c : c = [o \in Obj |-> IF o \in Tmu THEN currentwhite ELSE M3.color[o]]
  OBVIOUS
<1>9. PICK n : n = [M3 EXCEPT !.color = c]
  OBVIOUS
<1>10. n \in MarksType /\ n.color = c
  BY <1>7, <1>8, <1>9 DEF MarksType, Colors
<1>11. MarkTmu(M3, Tmu) = MarkAll(n, Tmu)
  BY <1>8, <1>9, <1>7 DEF MarkTmu, MarksType
<1>12. Pales(n, MarkTmu(M3, Tmu)) /\ MarkTmu(M3, Tmu) \in MarksType
  BY <1>10, <1>11, MarkAllPales DEF Pales
<1>13. Pales(n, M4)
  BY <1>12, PropagateAllPales, PalesTransitive DEF M4
<1> QED
  BY <1>8, <1>10, <1>13 DEF Pales, White

-----------------------------------------------------------------------------
(* What the finalizers rely on, in every state. *)

Shapes ==
  /\ Marks \in MarksType /\ currentwhite \in White /\ tmudata \subseteq GcUdata
  /\ tmudata \subseteq finalized /\ unswept \cap tmudata = {}

\* __gc was called for the udata that were once to be finalized and no longer wait.
Counted == called = [u \in GcUdata |-> IF u \in finalized \ tmudata THEN 1 ELSE 0]

\* A dead udata has had its finalizer called or waits for it.
DeadFinal == \A u \in (alloc \cap GcUdata) \ tmudata : IsDead(u) => u \in finalized

FInv == Shapes /\ Counted /\ DeadFinal

(* Udata with a finalizer are udata. *)
LEMMA GcUdataKind == GcUdata \subseteq Udata /\ GcUdata \subseteq Obj
                     /\ GcUdata \cap (Tables \cup Closures \cup Upvals \cup Threads \cup Strings) = {}
BY ObjAssumption, KindAssumption DEF Obj

(* The two whites are different, and neither is gray or black. *)
LEMMA WhitesDiffer ==
  ASSUME currentwhite \in White
  PROVE  otherwhite \in White /\ otherwhite # currentwhite /\ otherwhite \notin {"gray", "black"}
BY DEF White, otherwhite, Other

(* The initial state of the finalizers' books. *)
LEMMA InitFInv ==
  ASSUME Init
  PROVE  FInv
<1>1. currentwhite = "w0" /\ color = [o \in Obj |-> "w0"] /\ alloc = {registry, mainthread}
      /\ key = [t \in Tables |-> None] /\ gray = {} /\ grayagain = {} /\ weak = {}
      /\ tmudata = {} /\ finalized = {} /\ unswept = {} /\ called = [u \in GcUdata |-> 0]
  BY DEF Init
<1>2. Shapes
  BY <1>1 DEF Shapes, Marks, MarksType, Colors, White, Values
<1>3. Counted
  BY <1>1 DEF Counted
<1>4. DeadFinal
  BY <1>1, GcUdataKind, ObjAssumption DEF DeadFinal
<1> QED
  BY <1>2, <1>3, <1>4 DEF FInv

(* A step that keeps the finalizers' books, and colours and makes objects only *)
(* in ways that kill none.                                                     *)
Paints ==
  /\ Marks' \in MarksType
  /\ currentwhite' = currentwhite /\ tmudata' = tmudata /\ finalized' = finalized /\ called' = called
  /\ \A u \in alloc' \cap GcUdata :
       \/ color'[u] \in {currentwhite, "gray", "black"}
       \/ u \in alloc /\ color'[u] = color[u]

(* A step that only paints keeps the finalizers' books. *)
LEMMA PaintsKeeps ==
  ASSUME FInv, Paints, unswept' \cap tmudata = {}
  PROVE  FInv'
<1>1. Shapes'
  BY DEF FInv, Shapes, Paints
<1>2. Counted'
  BY DEF FInv, Counted, Paints
<1>3. otherwhite' = otherwhite /\ otherwhite \notin {currentwhite, "gray", "black"}
  BY WhitesDiffer DEF FInv, Shapes, Paints, otherwhite
<1>4. DeadFinal'
  BY <1>3 DEF FInv, DeadFinal, Paints, IsDead
<1> QED
  BY <1>1, <1>2, <1>4 DEF FInv

(* The collector's steps while marking. *)
LEMMA MarkingPaints ==
  ASSUME FInv, MarkRoot \/ \E o \in gray : PropagateMark(o)
  PROVE  FInv'
<1> USE DEF CollectorOnly
<1>0. Marks \in MarksType
  BY DEF FInv, Shapes
<1>1. PICK m : Pales(Marks, m) /\ SetMarks(m)
  <2>1. CASE MarkRoot
    <3>1. PICK n : n = [Marks EXCEPT !.gray = {}, !.again = {}, !.weak = {}]
      OBVIOUS
    <3>2. n \in MarksType /\ n.color = Marks.color
      BY <1>0, <3>1 DEF MarksType
    <3>3. Pales(n, MarkAll(n, {mainthread, registry}))
      BY <3>2, MarkAllPales
    <3>4. Pales(Marks, MarkAll(n, {mainthread, registry}))
      BY <3>2, <3>3 DEF Pales
    <3> QED BY <2>1, <3>1, <3>4 DEF MarkRoot
  <2>2. ASSUME NEW o \in gray, PropagateMark(o) PROVE \E m : Pales(Marks, m) /\ SetMarks(m)
    <3>1. o \in Obj
      BY <1>0 DEF MarksType, Marks
    <3>2. Pales(Marks, Left(Marks, o)) /\ Left(Marks, o) \in MarksType
      BY <1>0, <3>1, LeftPales DEF Pales
    <3>3. Pales(Left(Marks, o), MarkAll(Left(Marks, o), Passed(o)))
      BY <3>2, MarkAllPales
    <3>4. Pales(Marks, Traverse(Marks, o))
      BY <3>2, <3>3, TraverseIs, PalesTransitive
    <3> QED BY <2>2, <3>4 DEF PropagateMark
  <2> QED BY <2>1, <2>2
<1>2. /\ color' = m.color /\ Marks' \in MarksType
      /\ \A o \in Obj : color'[o] = color[o] \/ color'[o] \in {"gray", "black"}
  <2>1. m \in MarksType /\ \A o \in Obj : m.color[o] = color[o] \/ m.color[o] \in {"gray", "black"}
    BY <1>1 DEF Pales, Marks
  <2>2. Marks' = [color |-> m.color, key |-> m.key, gray |-> m.gray, again |-> m.again, weak |-> m.weak]
        /\ color' = m.color
    BY <1>1 DEF SetMarks, Marks
  <2> QED BY <2>1, <2>2 DEF MarksType
<1>3. UNCHANGED <<alloc, currentwhite, unswept, tmudata, finalized, called>>
  BY DEF MarkRoot, PropagateMark
<1>4. Paints
  BY <1>2, <1>3, GcUdataKind DEF Paints
<1> QED
  BY <1>3, <1>4, PaintsKeeps DEF FInv, Shapes

(* The end of the marking: whom it leaves white is finalized or will be. *)
LEMMA AtomicFinal ==
  ASSUME FInv, Atomic
  PROVE  FInv'
<1>1. PICK strings : strings = ({key[t] : t \in M4.weak} \cup {val[t] : t \in M4.weak}) \cap Strings
  OBVIOUS
<1>2. /\ color' = [o \in Obj |-> IF o \in strings THEN "gray" ELSE M4.color[o]]
      /\ key' = [t \in Tables |-> IF t \in Cut THEN None ELSE M4.key[t]]
      /\ gray' = M4.gray /\ grayagain' = M4.again /\ weak' = M4.weak
      /\ tmudata' = Tmu /\ finalized' = finalized \cup Lost(M3)
      /\ currentwhite' = otherwhite
      /\ unswept' = {o \in alloc \ Tmu : o \in Upvals => open[o] = None}
      /\ alloc' = alloc /\ called' = called
  BY <1>1 DEF Atomic, M1, M2, M3, M4, Tmu, Cut, SetMarks, Flipped, CollectorOnly
<1>3. Marks \in MarksType /\ currentwhite \in White /\ tmudata \subseteq GcUdata /\ tmudata \subseteq finalized
  BY DEF FInv, Shapes
<1>4. M4 \in MarksType /\ \A o \in Obj \ Tmu : M4.color[o] \in White => M3.color[o] \in White
  BY <1>3, AtomicPales
<1>5. otherwhite \in White
  BY <1>3, WhitesDiffer
<1>6. Tmu \subseteq GcUdata /\ Tmu \subseteq finalized \cup Lost(M3)
  BY <1>3 DEF Tmu
<1>7. Marks' \in MarksType
  <2>1. color' \in [Obj -> Colors] /\ key' \in [Tables -> Values]
    BY <1>2, <1>4 DEF MarksType, Colors, Values
  <2>2. gray' \in SUBSET Obj /\ grayagain' \in SUBSET Obj /\ weak' \in SUBSET Obj
    BY <1>2, <1>4 DEF MarksType
  <2> QED BY <2>1, <2>2 DEF Marks, MarksType
<1>8. Shapes'
  BY <1>2, <1>5, <1>6, <1>7 DEF Shapes
<1>9. Counted'
  <2>1. \A u \in GcUdata : u \in (finalized \cup Lost(M3)) \ Tmu <=> u \in finalized \ tmudata
    BY DEF Tmu, Lost
  <2> QED BY <1>2, <2>1 DEF FInv, Counted
<1>10. DeadFinal'
  <2> SUFFICES ASSUME NEW u \in (alloc \cap GcUdata) \ Tmu, color'[u] \in White, u \notin finalized
               PROVE  u \in Lost(M3)
    BY <1>2, <1>8, WhitesDiffer DEF DeadFinal, IsDead, Shapes, otherwhite, Other, White
  <2>1. u \in Obj /\ u \in Udata /\ M4.color[u] \in White
    BY <1>2, GcUdataKind DEF White
  <2>2. M3.color[u] \in White /\ u \notin tmudata
    BY <1>4, <2>1 DEF Tmu
  <2> QED BY <2>1, <2>2 DEF Lost
<1> QED
  BY <1>8, <1>9, <1>10 DEF FInv

(* A udata the sweep frees has had its finalizer called. *)
LEMMA SweepFinal ==
  ASSUME FInv, NEW o \in unswept, Sweep(o)
  PROVE  FInv' /\ \A u \in GcUdata \cap (alloc \ alloc') : called[u] = 1
<1>1. PICK ups : ups = {u \in alloc \cap Upvals : o \in Threads /\ open[u] # None /\ open[u][1] = o}
  OBVIOUS
<1>2. PICK free : free = {p \in ups \cup {o} : IsDead(p)}
  OBVIOUS
<1>3. /\ alloc' = alloc \ free /\ unswept' = unswept \ {o}
      /\ color' = [p \in Obj |-> IF p \in free THEN "w0" ELSE IF p \in ups \cup {o} THEN currentwhite
                                 ELSE color[p]]
      /\ key' = [t \in Tables |-> IF t \in free THEN None ELSE key[t]]
      /\ finalized' = finalized \ free
      /\ called' = [u \in GcUdata |-> IF u \in free THEN 0 ELSE called[u]]
      /\ UNCHANGED <<gray, grayagain, weak, currentwhite, tmudata>>
  BY <1>1, <1>2 DEF Sweep, lists
<1>4. Marks \in MarksType /\ currentwhite \in White /\ tmudata \subseteq GcUdata
      /\ tmudata \subseteq finalized /\ unswept \cap tmudata = {}
  BY DEF FInv, Shapes
<1>5. free \cap tmudata = {} /\ free \cap GcUdata \subseteq {o}
  BY <1>1, <1>2, <1>4, GcUdataKind
<1>6. Marks' \in MarksType
  <2>1. color' \in [Obj -> Colors] /\ key' \in [Tables -> Values]
    BY <1>3, <1>4 DEF MarksType, Marks, Colors, White, Values
  <2> QED BY <1>3, <1>4, <2>1 DEF Marks, MarksType
<1>7. Shapes'
  BY <1>3, <1>4, <1>5, <1>6 DEF Shapes
<1>8. Counted'
  <2>1. called = [u \in GcUdata |-> IF u \in finalized \ tmudata THEN 1 ELSE 0]
    BY DEF FInv, Counted
  <2>2. \A u \in GcUdata : called'[u] = IF u \in (finalized \ free) \ tmudata THEN 1 ELSE 0
    BY <1>3, <2>1
  <2> QED BY <1>3, <2>2 DEF Counted
<1>9. otherwhite' = otherwhite /\ otherwhite # currentwhite
  BY <1>3, <1>4, WhitesDiffer DEF otherwhite
<1>10. DeadFinal'
  <2> SUFFICES ASSUME NEW u \in ((alloc \ free) \cap GcUdata) \ tmudata, color'[u] = otherwhite
               PROVE  u \in finalized \ free
    BY <1>3, <1>9 DEF DeadFinal, IsDead
  <2>1. color[u] = otherwhite
    BY <1>3, <1>9, GcUdataKind
  <2> QED BY <2>1 DEF FInv, DeadFinal, IsDead
<1>11. ASSUME NEW u \in GcUdata \cap (alloc \ alloc') PROVE called[u] = 1
  <2>1. u \in free /\ u = o /\ IsDead(u) /\ u \in alloc /\ u \notin tmudata
    BY <1>2, <1>3, <1>4, <1>5
  <2> QED BY <2>1 DEF FInv, Counted, DeadFinal
<1> QED
  BY <1>7, <1>8, <1>10, <1>11 DEF FInv

(* A finalizer is called that was not called before. *)
LEMMA GCTMFinal ==
  ASSUME FInv, NEW u \in tmudata, NEW s \in Slots, GCTM(u, s)
  PROVE  FInv'
<1>1. /\ tmudata' = tmudata \ {u} /\ color' = [color EXCEPT ![u] = currentwhite]
      /\ called' = [called EXCEPT ![u] = @ + 1]
      /\ UNCHANGED <<alloc, key, currentwhite, gray, grayagain, weak, unswept, finalized>>
  BY DEF GCTM, lists
<1>2. Marks \in MarksType /\ currentwhite \in White /\ tmudata \subseteq GcUdata
      /\ tmudata \subseteq finalized /\ unswept \cap tmudata = {}
      /\ called = [w \in GcUdata |-> IF w \in finalized \ tmudata THEN 1 ELSE 0]
  BY DEF FInv, Shapes, Counted
<1>3. Marks' \in MarksType
  BY <1>1, <1>2 DEF Marks, MarksType, Colors
<1>4. Shapes'
  BY <1>1, <1>2, <1>3 DEF Shapes
<1>5. Counted'
  <2>1. called[u] = 0 /\ u \in GcUdata
    BY <1>2
  <2>2. called' = [w \in GcUdata |-> IF w = u THEN 1 ELSE IF w \in finalized \ tmudata THEN 1 ELSE 0]
    BY <1>1, <1>2, <2>1
  <2>3. u \in finalized
    BY <1>2
  <2> QED BY <1>1, <2>2, <2>3 DEF Counted
<1>6. DeadFinal'
  <2>1. color \in [Obj -> Colors] /\ u \in finalized
    BY <1>2 DEF Marks, MarksType
  <2>2. \A w \in Obj : w # u => color'[w] = color[w]
    BY <1>1, <2>1
  <2>3. otherwhite' = otherwhite
    BY <1>1 DEF otherwhite
  <2> QED BY <1>1, <2>1, <2>2, <2>3, GcUdataKind DEF FInv, DeadFinal, IsDead
<1> QED
  BY <1>4, <1>5, <1>6 DEF FInv

(* The program's steps and the changes of phase. *)
LEMMA QuietFinal ==
  ASSUME FInv, UNCHANGED <<alloc, color, key, gray, grayagain, weak>>,
         UNCHANGED <<currentwhite, unswept, tmudata, finalized, called>>
  PROVE  FInv'
<1>1. Paints
  BY DEF FInv, Shapes, Paints, Marks
<1> QED
  BY <1>1, PaintsKeeps DEF FInv, Shapes

(* luaC_fullgc sweeps no udata that waits for its finalizer. *)
LEMMA FullGCFinal ==
  ASSUME FInv, FullGC
  PROVE  FInv'
<1>1. UNCHANGED <<alloc, color, key, currentwhite, tmudata, finalized, called>>
  BY DEF FullGC, heap
<1>2. \/ gray' = {} /\ grayagain' = {} /\ weak' = {} /\ unswept' \subseteq alloc \ tmudata
      \/ UNCHANGED <<gray, grayagain, weak, unswept>>
  BY DEF FullGC, lists
<1>3. Marks' \in MarksType
  BY <1>1, <1>2 DEF FInv, Shapes, Marks, MarksType
<1>4. Paints
  BY <1>1, <1>3 DEF Paints
<1> QED
  BY <1>2, <1>4, PaintsKeeps DEF FInv, Shapes

(* What is made is white, and a string or an upvalue that comes back is too. *)
LEMMA MakingFinal ==
  ASSUME FInv,
         \/ \E s \in Slots, o \in Values : New(s, o) \/ NewString(s, o)
         \/ \E s, t \in Slots, c \in Closures, u \in Upvals : NewClosure(s, t, c, u)
  PROVE  FInv'
<1> USE DEF MutatorOnly
<1>0. color \in [Obj -> Colors] /\ currentwhite \in White
  BY DEF FInv, Shapes, Marks, MarksType
<1>1. UNCHANGED <<key, gray, grayagain, weak, currentwhite, unswept, tmudata, finalized, called>>
  BY DEF New, NewString, NewClosure, lists
<1>2. /\ color' \in [Obj -> Colors]
      /\ \A u \in alloc' \cap GcUdata : color'[u] = currentwhite \/ (u \in alloc /\ color'[u] = color[u])
  <2>1. ASSUME NEW s \in Slots, NEW o \in Values, New(s, o)
        PROVE  /\ color' \in [Obj -> Colors]
               /\ \A u \in alloc' \cap GcUdata : color'[u] = currentwhite \/ (u \in alloc /\ color'[u] = color[u])
    <3>1. alloc' = alloc \cup {o} /\ color' = [color EXCEPT ![o] = currentwhite]
      BY <2>1 DEF New
    <3> QED BY <1>0, <3>1, GcUdataKind DEF Colors
  <2>2. ASSUME NEW s \in Slots, NEW o \in Values, NewString(s, o)
        PROVE  /\ color' \in [Obj -> Colors]
               /\ \A u \in alloc' \cap GcUdata : color'[u] = currentwhite \/ (u \in alloc /\ color'[u] = color[u])
    <3>1. /\ alloc' = alloc \cup {o} /\ o \in Strings
          /\ color' = [color EXCEPT ![o] = IF o \notin alloc \/ IsDead(o) THEN currentwhite ELSE @]
      BY <2>2 DEF NewString
    <3> QED BY <1>0, <3>1, GcUdataKind DEF Colors
  <2>3. ASSUME NEW s \in Slots, NEW t \in Slots, NEW c \in Closures, NEW u \in Upvals, NewClosure(s, t, c, u)
        PROVE  /\ color' \in [Obj -> Colors]
               /\ \A w \in alloc' \cap GcUdata : color'[w] = currentwhite \/ (w \in alloc /\ color'[w] = color[w])
    <3>1. /\ alloc' = alloc \cup {c, u}
          /\ color' = [color EXCEPT ![c] = currentwhite,
                                    ![u] = IF u \notin alloc \/ IsDead(u) THEN currentwhite ELSE @]
      BY <2>3 DEF NewClosure
    <3>2. c \notin GcUdata /\ u \notin GcUdata
      BY GcUdataKind
    <3> QED BY <1>0, <3>1, <3>2, GcUdataKind DEF Colors
  <2> QED BY <2>1, <2>2, <2>3
<1>3. Marks' \in MarksType
  BY <1>1, <1>2 DEF FInv, Shapes, Marks, MarksType
<1>4. Paints
  BY <1>1, <1>2, <1>3 DEF Paints
<1> QED
  BY <1>1, <1>4, PaintsKeeps DEF FInv, Shapes

(* A barrier makes an object gray, black or white. *)
LEMMA BarrierPaints ==
  ASSUME FInv, NEW o, NEW v, BarrierF(o, v)
  PROVE  /\ color' \in [Obj -> Colors] /\ gray' \in SUBSET Obj
         /\ \A p \in Obj : color'[p] = color[p] \/ color'[p] \in {currentwhite, "gray", "black"}
<1>0. Marks \in MarksType /\ color \in [Obj -> Colors] /\ gray \in SUBSET Obj /\ currentwhite \in White
  BY DEF FInv, Shapes, Marks, MarksType
<1>1. CASE UNCHANGED <<color, gray>>
  BY <1>0, <1>1
<1>2. CASE color' = MarkAll(Marks, {v}).color /\ gray' = MarkAll(Marks, {v}).gray
  <2>1. Pales(Marks, MarkAll(Marks, {v}))
    BY <1>0, MarkAllPales
  <2> QED BY <1>2, <2>1 DEF Pales, MarksType, Marks
<1>3. CASE color' = [color EXCEPT ![o] = currentwhite] /\ gray' = gray
  BY <1>0, <1>3 DEF Colors
<1> QED
  BY <1>1, <1>2, <1>3 DEF BarrierF

(* Stores and their barriers. *)
LEMMA StoringFinal ==
  ASSUME FInv,
         \/ \E t \in Tables : \/ \E k, v \in Values : SetTable(t, k, v)
                              \/ \E u \in Udata : SetEnv(u, t)
         \/ \E c \in Closures, v \in Values : SetUpval(c, v)
  PROVE  FInv'
<1> USE DEF MutatorOnly
<1>0. color \in [Obj -> Colors] /\ gray \in SUBSET Obj /\ grayagain \in SUBSET Obj /\ key \in [Tables -> Values]
  BY DEF FInv, Shapes, Marks, MarksType
<1>1. UNCHANGED <<alloc, weak, currentwhite, unswept, tmudata, finalized, called>>
  BY DEF SetTable, SetEnv, SetUpval
<1>2. /\ color' \in [Obj -> Colors] /\ gray' \in SUBSET Obj /\ grayagain' \in SUBSET Obj /\ key' \in [Tables -> Values]
      /\ \A p \in Obj : color'[p] = color[p] \/ color'[p] \in {currentwhite, "gray", "black"}
  <2>1. CASE \E t \in Tables : \E k, v \in Values : SetTable(t, k, v)
    <3>1. PICK t \in Tables, k \in Values, v \in Values : SetTable(t, k, v)
      BY <2>1
    <3>2. /\ key' = [key EXCEPT ![t] = IF v = None THEN None ELSE k] /\ gray' = gray
          /\ \/ color' = [color EXCEPT ![t] = "gray"] /\ grayagain' = grayagain \cup {t}
             \/ UNCHANGED <<color, grayagain>>
      BY <3>1 DEF SetTable, BarrierBack
    <3>3. t \in Obj /\ None \in Values
      BY DEF Obj, Values
    <3>4. key' \in [Tables -> Values]
      BY <1>0, <3>2, <3>3
    <3> QED BY <1>0, <3>2, <3>3, <3>4 DEF Colors
  <2>2. CASE (\E t \in Tables, u \in Udata : SetEnv(u, t)) \/ (\E c \in Closures, v \in Values : SetUpval(c, v))
    <3>1. key' = key /\ grayagain' = grayagain
      BY <2>2 DEF SetEnv, SetUpval
    <3>2. \E o, v : BarrierF(o, v)
      BY <2>2 DEF SetEnv, SetUpval
    <3> QED BY <1>0, <3>1, <3>2, BarrierPaints
  <2> QED BY <2>1, <2>2
<1>3. Marks' \in MarksType
  BY <1>1, <1>2 DEF FInv, Shapes, Marks, MarksType
<1>4. Paints
  BY <1>1, <1>2, <1>3, GcUdataKind DEF Paints
<1> QED
  BY <1>1, <1>4, PaintsKeeps DEF FInv, Shapes

(* Upvalues are closed, with their barrier. *)
LEMMA CloseUpvalsFinal ==
  ASSUME FInv, NEW s \in Slots, CloseUpvals(s)
  PROVE  FInv' /\ alloc \ alloc' \subseteq Upvals
<1>1. PICK ups : ups = {u \in alloc \cap Upvals : open[u] # None /\ open[u][1] = L /\ open[u][2] >= s}
  OBVIOUS
<1>2. PICK dead : dead = {u \in ups : IsDead(u)}
  OBVIOUS
<1>3. PICK was : was = {u \in ups \ dead : color[u] = "gray"}
  OBVIOUS
<1>4. PICK m : m = LinkUpvals(was)
  OBVIOUS
<1>5. /\ alloc' = alloc \ dead /\ color' = m.color /\ gray' = m.gray
      /\ UNCHANGED <<key, grayagain, weak, currentwhite, unswept, tmudata, finalized, called>>
  BY <1>1, <1>2, <1>3, <1>4 DEF CloseUpvals, MutatorOnly
<1>6. Marks \in MarksType /\ currentwhite \in White
  BY DEF FInv, Shapes
<1>7. PICK n : n = IF gcstate = "propagate" THEN MarkAll(Marks, {UpvalValue(u) : u \in was}) ELSE Marks
  OBVIOUS
<1>8. Pales(Marks, n)
  BY <1>6, <1>7, MarkAllPales DEF Pales
<1>9. PICK c : c = [p \in Obj |-> IF p \notin was THEN n.color[p]
                       ELSE IF gcstate = "propagate" THEN "black" ELSE currentwhite]
  OBVIOUS
<1>10. m = [n EXCEPT !.color = c]
  BY <1>4, <1>7, <1>8, <1>9 DEF LinkUpvals, Pales, MarksType
<1>11. /\ m \in MarksType /\ m.color = c
       /\ \A p \in Obj : c[p] = color[p] \/ c[p] \in {currentwhite, "gray", "black"}
  BY <1>6, <1>8, <1>9, <1>10 DEF Pales, MarksType, Colors, Marks
<1>12. Marks' \in MarksType
  BY <1>5, <1>6, <1>11 DEF Marks, MarksType
<1>13. Paints
  BY <1>5, <1>11, <1>12, GcUdataKind DEF Paints
<1>14. alloc \ alloc' \subseteq Upvals
  BY <1>1, <1>2, <1>5
<1> QED
  BY <1>5, <1>13, <1>14, PaintsKeeps DEF FInv, Shapes

(* lua_close separates the udata, then frees everything. *)
LEMMA CloseStateFinal ==
  ASSUME FInv, CloseState
  PROVE  FInv'
<1>1. /\ tmudata' = tmudata \cup ((alloc \cap GcUdata) \ finalized)
      /\ finalized' = finalized \cup (alloc \cap Udata)
      /\ unswept' = unswept \ tmudata'
      /\ UNCHANGED <<alloc, color, key, gray, grayagain, weak, currentwhite, called>>
  BY DEF CloseState, lists
<1>2. Shapes'
  BY <1>1, GcUdataKind DEF FInv, Shapes, Marks
<1>3. Counted'
  <2>1. \A u \in GcUdata : u \in finalized' \ tmudata' <=> u \in finalized \ tmudata
    BY <1>1, GcUdataKind
  <2> QED BY <1>1, <2>1 DEF FInv, Counted
<1>4. DeadFinal'
  BY <1>1, GcUdataKind DEF DeadFinal
<1> QED
  BY <1>2, <1>3, <1>4 DEF FInv

(* luaC_freeall: only udata made since lua_close go without their finalizer. *)
LEMMA FreeAllFinal ==
  ASSUME FInv, FreeAll
  PROVE  /\ FInv' /\ closing' = "done"
         /\ \A u \in GcUdata \cap (alloc \ alloc') : called[u] = 1 \/ u \notin finalized
<1>1. /\ alloc' = {} /\ closing' = "done" /\ tmudata = {}
      /\ UNCHANGED <<color, key, gray, grayagain, weak, currentwhite, unswept, tmudata, finalized, called>>
  BY DEF FreeAll, lists, heap
<1>2. FInv'
  BY <1>1 DEF FInv, Shapes, Marks, Counted, DeadFinal
<1>3. \A u \in GcUdata \cap (alloc \ alloc') : called[u] = 1 \/ u \notin finalized
  BY <1>1 DEF FInv, Counted
<1> QED
  BY <1>1, <1>2, <1>3

(* Every step keeps the finalizers' books and frees only udata that were *)
(* finalized.                                                            *)
LEMMA NextFinal ==
  ASSUME FInv, Next
  PROVE  /\ FInv'
         /\ \A u \in GcUdata \cap (alloc \ alloc') :
              called[u] = 1 \/ (closing' = "done" /\ u \notin finalized)
<1> USE DEF CollectorOnly, MutatorOnly
<1>1. CASE MarkRoot \/ \E o \in gray : PropagateMark(o)
  <2>1. alloc' = alloc
    BY <1>1 DEF MarkRoot, PropagateMark
  <2> QED BY <1>1, <2>1, MarkingPaints
<1>2. CASE Atomic
  <2>1. alloc' = alloc
    BY <1>2 DEF Atomic
  <2> QED BY <1>2, <2>1, AtomicFinal
<1>3. CASE SweepEnd \/ Pause \/ Yield \/ \E h \in Threads : Resume(h)
  <2>1. /\ UNCHANGED <<alloc, color, key, gray, grayagain, weak>>
        /\ UNCHANGED <<currentwhite, unswept, tmudata, finalized, called>>
    BY <1>3 DEF SweepEnd, Pause, Yield, Resume, lists
  <2> QED BY <2>1, QuietFinal
<1>4. CASE \/ \E s \in Slots, o \in Values : Load(s, o)
           \/ \E t \in Tables, md \in Modes : SetMode(t, md)
  <2>1. /\ UNCHANGED <<alloc, color, key, gray, grayagain, weak>>
        /\ UNCHANGED <<currentwhite, unswept, tmudata, finalized, called>>
    BY <1>4 DEF Load, SetMode, lists
  <2> QED BY <2>1, QuietFinal
<1>5. CASE \E o \in unswept : Sweep(o)
  BY <1>5, SweepFinal
<1>6. CASE \E u \in tmudata, s \in Slots : GCTM(u, s)
  <2>1. alloc' = alloc
    BY <1>6 DEF GCTM
  <2> QED BY <1>6, <2>1, GCTMFinal
<1>7. CASE \/ \E s \in Slots, o \in Values : New(s, o) \/ NewString(s, o)
           \/ \E s, t \in Slots, c \in Closures, u \in Upvals : NewClosure(s, t, c, u)
  <2>1. alloc \subseteq alloc'
    BY <1>7 DEF New, NewString, NewClosure
  <2> QED BY <1>7, <2>1, MakingFinal
<1>8. CASE \/ \E t \in Tables : \/ \E k, v \in Values : SetTable(t, k, v)
                                \/ \E u \in Udata : SetEnv(u, t)
           \/ \E c \in Closures, v \in Values : SetUpval(c, v)
  <2>1. alloc' = alloc
    BY <1>8 DEF SetTable, SetEnv, SetUpval
  <2> QED BY <1>8, <2>1, StoringFinal
<1>9. CASE \E s \in Slots : CloseUpvals(s)
  BY <1>9, CloseUpvalsFinal, GcUdataKind
<1>10. CASE FullGC
  <2>1. alloc' = alloc
    BY <1>10 DEF FullGC
  <2> QED BY <1>10, <2>1, FullGCFinal
<1>11. CASE CloseState
  <2>1. alloc' = alloc
    BY <1>11 DEF CloseState
  <2> QED BY <1>11, <2>1, CloseStateFinal
<1>12. CASE FreeAll
  BY <1>12, FreeAllFinal
<1> QED
  BY <1>1, <1>2, <1>3, <1>4, <1>5, <1>6, <1>7, <1>8, <1>9, <1>10, <1>11, <1>12 DEF Next, SingleStep, Mutate

(* __gc is called at most once for a udata, and was called for every udata     *)
(* that is freed, but for those lua_close came too late for; this holds while  *)
(* the finalizers of lua_close run too.                                        *)
THEOREM CalledBeforeFreed == Spec => FinalizedFirst
<1>1. Init => FInv
  BY InitFInv
<1>2. FInv /\ [Next]_vars => FInv'
  <2>1. CASE UNCHANGED vars
    <3>1. /\ UNCHANGED <<alloc, color, key, gray, grayagain, weak>>
          /\ UNCHANGED <<currentwhite, unswept, tmudata, finalized, called>>
      BY <2>1 DEF vars, heap, lists
    <3> QED BY <3>1, QuietFinal
  <2> QED BY <2>1, NextFinal
<1>3. FInv /\ [Next]_vars => [CalledOnce]_vars
  <2>1. ASSUME FInv, Next PROVE CalledOnce
    <3>1. Counted'
      BY <2>1, NextFinal DEF FInv
    <3>2. \A u \in GcUdata : called'[u] <= 1
      BY <3>1 DEF Counted
    <3> QED BY <2>1, <3>2, NextFinal DEF CalledOnce
  <2> QED BY <2>1
<1> QED
  BY <1>1, <1>2, <1>3, PTL DEF Spec, FinalizedFirst

=============================================================================
