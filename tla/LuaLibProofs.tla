------------------------------ MODULE LuaLibProofs ------------------------------
(* Proofs about the Lua library and its lexer: LuaSort, for arrays of every    *)
(* length, LuaRefs, for every number of references, LuaCoroutines, for every   *)
(* set of threads, LuaBuffer, for buffers and stacks of every size, LuaGsub,   *)
(* for every subject and pattern and whatever match makes of them, and LuaLex, *)
(* for every text in pieces of any size.                                       *)
EXTENDS LuaSort, LuaRefs, LuaCoroutines, LuaBuffer, LuaGsub, LuaLex,
        SequenceTheorems, FiniteSetTheorems, WellFoundedInduction, TLAPS

Item == {Absent} \cup (Int \X Nat)
Pcs == {"sort", "middle", "up", "down", "done", "error"}
Seg == [l : Int, u : Int, of : Int]
Arrays == UNION {[0 .. n + 1 -> Item] : n \in Nat}
Typed(x) ==
  /\ x \in [a : Arrays, n : Nat, l : Int, u : Int, i : Int, j : Int, calls : Seq(Seg), pc : Pcs,
            ordered : BOOLEAN]
  /\ x.a \in [0 .. x.n + 1 -> Item]

(* Every segment lies in the array and has less than half of the next one.    *)
SizeOf(x, k) == IF k = 1 THEN x.u - x.l + 1 ELSE x.calls[k - 1].of
Frame(x) ==
  /\ Typed(x)
  /\ 1 <= x.l /\ x.u <= x.n
  /\ \A k \in 1 .. Len(x.calls) :
       /\ 1 <= x.calls[k].l /\ x.calls[k].u <= x.n /\ x.calls[k].of <= x.n
       /\ x.calls[k].u - x.calls[k].l + 1 <= x.calls[k].of
       /\ 2 * SizeOf(x, k) < x.calls[k].of

(* What is not in order is in one segment, sorted now or left for later; and   *)
(* the segments do not overlap.  Then items of two segments are in order        *)
(* whatever is done inside one of them, which is why the sort may go on with   *)
(* each by itself.                                                             *)
K(x, k) == x.a[k][1]
Pending(x, c, k, m) == x.calls[c].l <= k /\ m <= x.calls[c].u
Together(x, k, m) ==
  \/ x.pc # "done" /\ x.l <= k /\ m <= x.u
  \/ \E c \in 1 .. Len(x.calls) : Pending(x, c, k, m)
Order(x) ==
  /\ \A k \in 1 .. x.n : x.a[k] \in Int \X Nat
  /\ \A k \in 1 .. x.n : \E i \in 1 .. x.n : x.a[i][2] = k
  /\ \A k, m \in 1 .. x.n : k < m => K(x, k) <= K(x, m) \/ Together(x, k, m)
  /\ \A c \in 1 .. Len(x.calls) :
       /\ x.u < x.calls[c].l \/ x.calls[c].u < x.l
       /\ \A d \in 1 .. Len(x.calls) : c # d => x.calls[c].u < x.calls[d].l \/ x.calls[d].u < x.calls[c].l

(* auxsort's "invariant: a[l..i] <= P <= a[j..u]" (ltablib.c:223), and where    *)
(* the pivot stops the searches.                                                *)
P(x) == K(x, x.u - 1)
Up(x) ==
  /\ x.l + 3 <= x.u /\ x.l <= x.i /\ x.i <= x.u /\ x.l <= x.j /\ x.j <= x.u - 1
  /\ x.ordered =>
       /\ x.i <= x.u - 2 /\ x.l + 1 <= x.j
       /\ \A k \in x.l .. x.i : K(x, k) <= P(x)
       /\ \A k \in x.j .. x.u : P(x) <= K(x, k)
Down(x) ==
  /\ x.l + 3 <= x.u /\ x.l + 1 <= x.i /\ x.i <= x.u + 1 /\ x.l <= x.j /\ x.j <= x.u - 1
  /\ x.ordered =>
       /\ x.i <= x.u - 1 /\ x.l + 1 <= x.j
       /\ P(x) <= K(x, x.i)
       /\ \A k \in x.l .. x.i - 1 : K(x, k) <= P(x)
       /\ \A k \in x.j .. x.u : P(x) <= K(x, k)

Inv(x) ==
  /\ Frame(x)
  /\ x.ordered => Order(x) /\ x.pc # "error"
  /\ x.pc = "middle" => x.l + 2 <= x.u /\ (x.ordered => K(x, x.l) <= K(x, x.u))
  /\ x.pc = "up" => Up(x)
  /\ x.pc = "down" => Down(x)
  /\ x.pc = "done" => x.calls = <<>>

-----------------------------------------------------------------------------
(* What the helpers do to each field.                                         *)

(* The fields of a state. *)
LEMMA Fields ==
  ASSUME NEW x, Typed(x)
  PROVE  /\ x.n \in Nat /\ x.l \in Int /\ x.u \in Int /\ x.i \in Int /\ x.j \in Int
         /\ x.a \in [0 .. x.n + 1 -> Item] /\ x.pc \in Pcs /\ x.ordered \in BOOLEAN
         /\ x.calls \in Seq(Seg) /\ Len(x.calls) \in Nat
         /\ \A c \in 1 .. Len(x.calls) :
              x.calls[c].l \in Int /\ x.calls[c].u \in Int /\ x.calls[c].of \in Int
<1>1. /\ x.n \in Nat /\ x.l \in Int /\ x.u \in Int /\ x.i \in Int /\ x.j \in Int
      /\ x.a \in [0 .. x.n + 1 -> Item] /\ x.pc \in Pcs /\ x.ordered \in BOOLEAN
      /\ x.calls \in Seq(Seg)
  BY DEF Typed
<1>2. \A c \in 1 .. Len(x.calls) : x.calls[c] \in Seg
  BY <1>1
<1>3. \A c \in 1 .. Len(x.calls) :
        x.calls[c].l \in Int /\ x.calls[c].u \in Int /\ x.calls[c].of \in Int
  BY <1>2 DEF Seg
<1>4. Len(x.calls) \in Nat
  BY <1>1
<1> QED
  BY <1>1, <1>3, <1>4

(* An exchange. *)
Swapped(x, i, j, y) ==
  /\ Typed(y) /\ y.a[i] = x.a[j] /\ y.a[j] = x.a[i]
  /\ \A k \in 0 .. x.n + 1 : k # i /\ k # j => y.a[k] = x.a[k]
  /\ y.n = x.n /\ y.l = x.l /\ y.u = x.u /\ y.i = x.i /\ y.j = x.j
  /\ y.calls = x.calls /\ y.pc = x.pc /\ y.ordered = x.ordered
(* A swap exchanges two items and changes nothing else.                       *)
LEMMA SwapFacts ==
  ASSUME NEW x, Typed(x), NEW i \in 0 .. x.n + 1, NEW j \in 0 .. x.n + 1
  PROVE  Swapped(x, i, j, Swap(x, i, j))
<1> DEFINE b == [x.a EXCEPT ![i] = x.a[j], ![j] = x.a[i]]
           y == [x EXCEPT !.a = b]
<1>1. Swap(x, i, j) = y
  BY DEF Swap, Typed
<1>2. x.a \in [0 .. x.n + 1 -> Item] /\ x.n \in Nat
  BY DEF Typed
<1>3. b \in [0 .. x.n + 1 -> Item] /\ b[i] = x.a[j] /\ b[j] = x.a[i]
      /\ \A k \in 0 .. x.n + 1 : k # i /\ k # j => b[k] = x.a[k]
  BY <1>2
<1>4. b \in Arrays
  BY <1>2, <1>3 DEF Arrays
<1> HIDE DEF b
<1>5. y.a = b /\ y.n = x.n /\ y.l = x.l /\ y.u = x.u /\ y.i = x.i /\ y.j = x.j
      /\ y.calls = x.calls /\ y.pc = x.pc /\ y.ordered = x.ordered
  BY DEF Typed
<1>6. Typed(y)
  BY <1>2, <1>3, <1>4, <1>5 DEF Typed
<1> QED
  BY <1>1, <1>3, <1>5, <1>6 DEF Swapped

(* The end of auxsort, with and without a caller. *)
Ended(x, y) ==
  /\ Typed(y) /\ y.a = x.a /\ y.n = x.n /\ y.ordered = x.ordered
  /\ x.calls = <<>> => y.pc = "done" /\ y.l = x.l /\ y.u = x.u /\ y.calls = <<>>
  /\ x.calls # <<>> =>
       /\ y.pc = "sort" /\ Len(x.calls) > 0 /\ y.l = x.calls[1].l /\ y.u = x.calls[1].u
       /\ Len(y.calls) = Len(x.calls) - 1
       /\ \A k \in 1 .. Len(y.calls) : y.calls[k] = x.calls[k + 1]
(* EndCall goes back to the caller, or ends the sort.                          *)
LEMMA EndCallFacts ==
  ASSUME NEW x, Typed(x)
  PROVE  Ended(x, EndCall(x))
<1>1. CASE x.calls = <<>>
  <2>1. EndCall(x) = [x EXCEPT !.pc = "done"]
    BY <1>1 DEF EndCall, At
  <2> QED
    BY <1>1, <2>1 DEF Ended, Typed, Pcs
<1>2. CASE x.calls # <<>>
  <2>1. EndCall(x) = [x EXCEPT !.l = x.calls[1].l, !.u = x.calls[1].u, !.calls = Tail(x.calls), !.pc = "sort"]
    BY <1>2 DEF EndCall, Typed
  <2>2. x.calls \in Seq(Seg) /\ Len(x.calls) > 0 /\ x.calls[1] \in Seg /\ Tail(x.calls) \in Seq(Seg)
    BY <1>2 DEF Typed
  <2>3. Len(Tail(x.calls)) = Len(x.calls) - 1
        /\ \A k \in 1 .. Len(Tail(x.calls)) : Tail(x.calls)[k] = x.calls[k + 1]
    BY <2>2
  <2> QED
    BY <1>2, <2>1, <2>2, <2>3 DEF Ended, Typed, Pcs, Seg
<1> QED
  BY <1>1, <1>2

(* The split around a[i]: the smaller part now, the larger left to the caller. *)
Halved(x, y) ==
  LET first == x.i - x.l < x.u - x.i
  IN  /\ Typed(y) /\ y.a = x.a /\ y.n = x.n /\ y.ordered = x.ordered /\ y.pc = "sort"
      /\ first => y.l = x.l /\ y.u = x.i - 1
      /\ ~first => y.l = x.i + 1 /\ y.u = x.u
      /\ Len(y.calls) = Len(x.calls) + 1 /\ y.calls[1].of = x.u - x.l + 1
      /\ first => y.calls[1].l = x.i + 1 /\ y.calls[1].u = x.u
      /\ ~first => y.calls[1].l = x.l /\ y.calls[1].u = x.i - 1
      /\ \A k \in 2 .. Len(y.calls) : y.calls[k] = x.calls[k - 1]
(* Halves goes on with the smaller part.                                      *)
LEMMA HalvesFacts ==
  ASSUME NEW x, Typed(x)
  PROVE  Halved(x, At(Halves(x), "sort"))
<1> DEFINE first == x.i - x.l < x.u - x.i
           e == IF first THEN [l |-> x.i + 1, u |-> x.u, of |-> x.u - x.l + 1]
                         ELSE [l |-> x.l, u |-> x.i - 1, of |-> x.u - x.l + 1]
           c == <<e>> \o x.calls
<1>1. x.calls \in Seq(Seg) /\ x.l \in Int /\ x.u \in Int /\ x.i \in Int
  BY DEF Typed
<1>2. e \in Seg /\ e.of = x.u - x.l + 1 /\ (first => e.l = x.i + 1 /\ e.u = x.u) /\ (~first => e.l = x.l /\ e.u = x.i - 1)
  BY <1>1 DEF Seg
<1>3. At(Halves(x), "sort") = [x EXCEPT !.l = IF first THEN x.l ELSE x.i + 1,
                                        !.u = IF first THEN x.i - 1 ELSE x.u, !.calls = c, !.pc = "sort"]
  BY DEF At, Halves, Typed
<1> HIDE DEF e
<1>4. c \in Seq(Seg) /\ Len(c) = Len(x.calls) + 1 /\ c[1] = e /\ \A k \in 2 .. Len(c) : c[k] = x.calls[k - 1]
  BY <1>1, <1>2
<1> HIDE DEF c
<1> DEFINE l == IF first THEN x.l ELSE x.i + 1
           u == IF first THEN x.i - 1 ELSE x.u
           y == [x EXCEPT !.l = l, !.u = u, !.calls = c, !.pc = "sort"]
<1>5. l \in Int /\ u \in Int /\ "sort" \in Pcs /\ c \in Seq(Seg)
  BY <1>1, <1>4 DEF Pcs
<1>6. /\ first => l = x.l /\ u = x.i - 1
      /\ ~first => l = x.i + 1 /\ u = x.u
  OBVIOUS
<1> HIDE DEF l, u
<1>7. /\ Typed(y) /\ y.a = x.a /\ y.n = x.n /\ y.ordered = x.ordered
      /\ y.l = l /\ y.u = u /\ y.calls = c /\ y.pc = "sort"
  BY <1>5 DEF Typed
<1> HIDE DEF y
<1>8. At(Halves(x), "sort") = y
  BY <1>3 DEF y, l, u
<1> QED
  BY <1>2, <1>4, <1>6, <1>7, <1>8 DEF Halved

-----------------------------------------------------------------------------
(* What keeps the segments in the array and the items of two of them in order. *)

(* A state that differs only in its step and its indices. *)
Alike(x, y) ==
  /\ Typed(y) /\ y.a = x.a /\ y.n = x.n /\ y.l = x.l /\ y.u = x.u /\ y.calls = x.calls
  /\ y.ordered = x.ordered
Go(x, i, j, pc) == [x EXCEPT !.i = i, !.j = j, !.pc = pc]
(* Other indices and another step.                                            *)
LEMMA GoFacts ==
  ASSUME NEW x, Typed(x), NEW i \in Int, NEW j \in Int, NEW pc \in Pcs
  PROVE  LET y == Go(x, i, j, pc)
         IN  Alike(x, y) /\ y.i = i /\ y.j = j /\ y.pc = pc
  BY DEF Go, Alike, Typed

(* Another step.                                                              *)
LEMMA AtFacts ==
  ASSUME NEW x, Typed(x), NEW pc \in Pcs
  PROVE  LET y == At(x, pc)
         IN  Alike(x, y) /\ y.i = x.i /\ y.j = x.j /\ y.pc = pc
  BY DEF At, Alike, Typed

(* Neither the segments nor the order depend on the step or the indices.      *)
LEMMA AlikeKeeps ==
  ASSUME NEW x, NEW y, Alike(x, y), Frame(x), x.pc # "done", y.pc # "done"
  PROVE  Frame(y) /\ (Order(x) => Order(y))
<1>1. Frame(y)
  BY DEF Alike, Frame, SizeOf
<1>2. ASSUME Order(x) PROVE Order(y)
  <2>1. \A k, m : Together(y, k, m) <=> Together(x, k, m)
    BY DEF Alike, Together, Pending
  <2>2. \A k : K(y, k) = K(x, k)
    BY DEF Alike, K
  <2> QED
    BY <1>2, <2>1, <2>2 DEF Alike, Order
<1> QED
  BY <1>1, <1>2

(* The keys of an array in which nothing is lost. *)
LEMMA KeyFacts ==
  ASSUME NEW x, Order(x), NEW k \in 1 .. x.n
  PROVE  K(x, k) \in Int
  BY DEF Order, K

(* What is outside the segment is in order with all that is in it. *)
LEMMA Outside ==
  ASSUME NEW x, Frame(x), Order(x), x.pc # "done",
         NEW k \in 1 .. x.n, NEW m \in x.l .. x.u, k \notin x.l .. x.u
  PROVE  /\ k < m => K(x, k) <= K(x, m)
         /\ m < k => K(x, m) <= K(x, k)
<1>1. x.l \in Int /\ x.u \in Int /\ x.n \in Nat /\ 1 <= x.l /\ x.u <= x.n /\ m \in 1 .. x.n
  BY DEF Frame, Typed
<1>2. \A c \in 1 .. Len(x.calls) : x.calls[c].l \in Int /\ x.calls[c].u \in Int
  BY Fields DEF Frame
<1>3. ASSUME k < m PROVE K(x, k) <= K(x, m)
  <2>1. ~(x.l <= k /\ m <= x.u)
    BY <1>1, <1>3
  <2>2. ASSUME NEW c \in 1 .. Len(x.calls) PROVE ~Pending(x, c, k, m)
    <3>1. x.u < x.calls[c].l \/ x.calls[c].u < x.l
      BY DEF Order
    <3>2. x.calls[c].l \in Int /\ x.calls[c].u \in Int
      BY <1>2
    <3> QED
      BY <1>1, <1>3, <3>1, <3>2 DEF Pending
  <2> QED
    BY <1>1, <1>3, <2>1, <2>2 DEF Order, Together
<1>4. ASSUME m < k PROVE K(x, m) <= K(x, k)
  <2>1. ~(x.l <= m /\ k <= x.u)
    BY <1>1, <1>4
  <2>2. ASSUME NEW c \in 1 .. Len(x.calls) PROVE ~Pending(x, c, m, k)
    <3>1. x.u < x.calls[c].l \/ x.calls[c].u < x.l
      BY DEF Order
    <3>2. x.calls[c].l \in Int /\ x.calls[c].u \in Int
      BY <1>2
    <3> QED
      BY <1>1, <1>4, <3>1, <3>2 DEF Pending
  <2> QED
    BY <1>1, <1>4, <2>1, <2>2 DEF Order, Together
<1> QED
  BY <1>3, <1>4

(* An exchange anywhere keeps the segments. *)
LEMMA SwapFrame ==
  ASSUME NEW x, Frame(x), NEW i \in 0 .. x.n + 1, NEW j \in 0 .. x.n + 1
  PROVE  Frame(Swap(x, i, j))
<1> DEFINE y == Swap(x, i, j)
<1> HIDE DEF y
<1>1. Typed(x)
  BY DEF Frame
<1>2. Swapped(x, i, j, y)
  BY <1>1, SwapFacts DEF y
<1>3. Typed(y) /\ y.n = x.n /\ y.l = x.l /\ y.u = x.u /\ y.calls = x.calls
  BY <1>2 DEF Swapped
<1>4. \A k \in 1 .. Len(x.calls) : SizeOf(y, k) = SizeOf(x, k)
  BY <1>3 DEF SizeOf
<1>5. Frame(y)
  BY <1>3, <1>4 DEF Frame
<1> QED
  BY <1>5 DEF y

(* An exchange within the segment keeps the order with all outside. *)
LEMMA SwapOrder ==
  ASSUME NEW x, Frame(x), Order(x), x.pc # "done", NEW i \in x.l .. x.u, NEW j \in x.l .. x.u
  PROVE  Order(Swap(x, i, j))
<1> DEFINE y == Swap(x, i, j)
<1>1. x.l \in Int /\ x.u \in Int /\ x.n \in Nat /\ 1 <= x.l /\ x.u <= x.n /\ Typed(x)
      /\ i \in 1 .. x.n /\ j \in 1 .. x.n /\ i \in 0 .. x.n + 1 /\ j \in 0 .. x.n + 1
  BY DEF Frame, Typed
<1>2. /\ y.a[i] = x.a[j] /\ y.a[j] = x.a[i]
      /\ \A k \in 1 .. x.n : k # i /\ k # j => y.a[k] = x.a[k]
      /\ y.n = x.n /\ y.l = x.l /\ y.u = x.u /\ y.calls = x.calls /\ y.pc = x.pc
  <2> HIDE DEF y
  <2>1. Swapped(x, i, j, y)
    BY <1>1, SwapFacts DEF y
  <2> QED
    BY <1>1, <2>1 DEF Swapped
<1> HIDE DEF y
<1>3. \A k \in 1 .. y.n : y.a[k] \in Int \X Nat
  BY <1>1, <1>2 DEF Order
<1>4. ASSUME NEW k \in 1 .. y.n PROVE \E z \in 1 .. y.n : y.a[z][2] = k
  <2>1. PICK z \in 1 .. x.n : x.a[z][2] = k
    BY <1>2 DEF Order
  <2> QED
    BY <1>1, <1>2, <2>1
<1>5. \A k, m : Together(y, k, m) <=> Together(x, k, m)
  BY <1>2 DEF Together, Pending
<1>6. ASSUME NEW k \in x.l .. x.u PROVE \E z \in x.l .. x.u : K(y, k) = K(x, z)
  BY <1>1, <1>2 DEF K
<1>7. ASSUME NEW k \in 1 .. x.n, k \notin x.l .. x.u PROVE K(y, k) = K(x, k)
  BY <1>1, <1>2, <1>7 DEF K
<1>8. ASSUME NEW k \in 1 .. y.n, NEW m \in 1 .. y.n, k < m PROVE K(y, k) <= K(y, m) \/ Together(y, k, m)
  <2>1. CASE k \in x.l .. x.u /\ m \in x.l .. x.u
    BY <1>1, <1>2, <2>1 DEF Together
  <2>2. CASE k \in x.l .. x.u /\ m \notin x.l .. x.u
    <3>1. PICK z \in x.l .. x.u : K(y, k) = K(x, z)
      BY <1>6, <2>2
    <3>2. z < m
      BY <1>1, <1>2, <1>8, <2>2
    <3> QED
      BY <1>2, <1>7, <2>2, <3>1, <3>2, Outside
  <2>3. CASE k \notin x.l .. x.u /\ m \in x.l .. x.u
    <3>1. PICK z \in x.l .. x.u : K(y, m) = K(x, z)
      BY <1>6, <2>3
    <3>2. k < z
      BY <1>1, <1>2, <1>8, <2>3
    <3> QED
      BY <1>2, <1>7, <2>3, <3>1, <3>2, Outside
  <2>4. CASE k \notin x.l .. x.u /\ m \notin x.l .. x.u
    BY <1>2, <1>5, <1>7, <1>8, <2>4 DEF Order
  <2> QED
    BY <2>1, <2>2, <2>3, <2>4
<1>9. \A c \in 1 .. Len(y.calls) :
        /\ y.u < y.calls[c].l \/ y.calls[c].u < y.l
        /\ \A d \in 1 .. Len(y.calls) : c # d => y.calls[c].u < y.calls[d].l \/ y.calls[d].u < y.calls[c].l
  BY <1>2 DEF Order
<1> QED
  BY <1>3, <1>4, <1>8, <1>9 DEF Order, y

(* The end of auxsort keeps the segments. *)
LEMMA EndFrame ==
  ASSUME NEW x, Frame(x)
  PROVE  Frame(EndCall(x))
<1> DEFINE y == EndCall(x)
<1> HIDE DEF y
<1>1. Typed(x) /\ Ended(x, y)
  BY EndCallFacts DEF Frame, y
<1>2. CASE x.calls = <<>>
  BY <1>1, <1>2, Fields DEF Ended, Frame, y
<1>3. CASE x.calls # <<>>
  <2>1. /\ Len(y.calls) \in Nat /\ Len(x.calls) = Len(y.calls) + 1 /\ y.n = x.n
        /\ y.l = x.calls[1].l /\ y.u = x.calls[1].u
        /\ \A k \in 1 .. Len(y.calls) : y.calls[k] = x.calls[k + 1]
    BY <1>1, <1>3, Fields DEF Ended
  <2>2. \A k \in 1 .. Len(x.calls) :
          x.calls[k].l \in Int /\ x.calls[k].u \in Int /\ x.calls[k].of \in Int
    BY <1>1, Fields
  <2>3. \A k \in 1 .. Len(x.calls) :
          /\ 1 <= x.calls[k].l /\ x.calls[k].u <= x.n /\ x.calls[k].of <= x.n
          /\ x.calls[k].u - x.calls[k].l + 1 <= x.calls[k].of /\ 2 * SizeOf(x, k) < x.calls[k].of
    BY DEF Frame
  <2>4. 1 <= y.l /\ y.u <= y.n
    BY <2>1, <2>3
  <2>5. ASSUME NEW k \in 1 .. Len(y.calls) PROVE 2 * SizeOf(y, k) < y.calls[k].of
    <3>1. k + 1 \in 1 .. Len(x.calls) /\ k \in 1 .. Len(x.calls) /\ k - 1 + 1 = k /\ k + 1 - 1 = k
      BY <2>1
    <3>2. y.calls[k].of = x.calls[k + 1].of /\ 2 * x.calls[k].of < x.calls[k + 1].of
      BY <2>1, <2>3, <3>1 DEF SizeOf
    <3>3. CASE k = 1
      <4>1. SizeOf(y, k) = x.calls[1].u - x.calls[1].l + 1
        BY <2>1, <3>3 DEF SizeOf
      <4>2. /\ x.calls[1].u \in Int /\ x.calls[1].l \in Int /\ x.calls[1].of \in Int /\ y.calls[k].of \in Int
            /\ x.calls[1].u - x.calls[1].l + 1 <= x.calls[1].of /\ 2 * x.calls[1].of < y.calls[k].of
        BY <2>2, <2>3, <3>1, <3>2, <3>3
      <4>3. \A a, b, c, d \in Int : a - b + 1 <= c /\ 2 * c < d => 2 * (a - b + 1) < d
        OBVIOUS
      <4> QED
        BY <4>1, <4>2, <4>3
    <3>4. CASE k # 1
      <4>1. k - 1 \in 1 .. Len(y.calls)
        BY <3>4
      <4>2. SizeOf(y, k) = x.calls[k].of
        BY <2>1, <3>1, <3>4, <4>1 DEF SizeOf
      <4> QED
        BY <3>2, <4>2
    <3> QED
      BY <3>3, <3>4
  <2>6. \A k \in 1 .. Len(y.calls) :
          /\ 1 <= y.calls[k].l /\ y.calls[k].u <= y.n /\ y.calls[k].of <= y.n
          /\ y.calls[k].u - y.calls[k].l + 1 <= y.calls[k].of
    BY <2>1, <2>3
  <2>7. Typed(y)
    BY <1>1 DEF Ended
  <2> QED
    BY <2>4, <2>5, <2>6, <2>7 DEF Frame, y
<1> QED
  BY <1>2, <1>3

(* When the segment is sorted, the end of auxsort loses no order. *)
LEMMA EndOrder ==
  ASSUME NEW x, Frame(x), Order(x), \A k, m \in x.l .. x.u : k < m => K(x, k) <= K(x, m)
  PROVE  Order(EndCall(x))
<1> DEFINE y == EndCall(x)
<1> HIDE DEF y
<1>1. Typed(x) /\ Ended(x, y)
  BY EndCallFacts DEF Frame, y
<1>2. y.a = x.a /\ y.n = x.n /\ x.n \in Nat /\ x.l \in Int /\ x.u \in Int /\ Len(x.calls) \in Nat
  BY <1>1, Fields DEF Ended
<1>3. x.calls # <<>> =>
        /\ Len(y.calls) = Len(x.calls) - 1 /\ y.pc # "done" /\ y.l = x.calls[1].l /\ y.u = x.calls[1].u
        /\ \A c \in 1 .. Len(y.calls) : y.calls[c] = x.calls[c + 1]
  BY <1>1 DEF Ended
<1>4. x.calls = <<>> => Len(x.calls) = 0 /\ Len(y.calls) = 0
  BY <1>1 DEF Ended
<1>5. \A k \in 1 .. y.n : y.a[k] \in Int \X Nat /\ \E i \in 1 .. y.n : y.a[i][2] = k
  BY <1>2 DEF Order
<1>6. ASSUME NEW k \in 1 .. y.n, NEW m \in 1 .. y.n, k < m PROVE K(y, k) <= K(y, m) \/ Together(y, k, m)
  <2>1. K(x, k) <= K(x, m) \/ Together(x, k, m)
    BY <1>2, <1>6 DEF Order
  <2>2. K(y, k) = K(x, k) /\ K(y, m) = K(x, m)
    BY <1>2 DEF K
  <2>3. CASE x.l <= k /\ m <= x.u
    BY <1>2, <1>6, <2>2, <2>3
  <2>4. ASSUME NEW c \in 1 .. Len(x.calls), Pending(x, c, k, m) PROVE Together(y, k, m)
    <3>1. x.calls # <<>>
      BY <1>4
    <3>2. CASE c = 1
      BY <1>3, <2>4, <3>1, <3>2 DEF Pending, Together
    <3>3. CASE c # 1
      <4>1. c - 1 \in 1 .. Len(y.calls) /\ c - 1 + 1 = c
        BY <1>2, <1>3, <3>1, <3>3
      <4>2. Pending(y, c - 1, k, m)
        BY <1>3, <2>4, <3>1, <4>1 DEF Pending
      <4> QED
        BY <4>1, <4>2 DEF Together
    <3> QED
      BY <3>2, <3>3
  <2> QED
    BY <2>1, <2>2, <2>3, <2>4 DEF Together
<1>7. ASSUME NEW c \in 1 .. Len(y.calls)
      PROVE  /\ y.u < y.calls[c].l \/ y.calls[c].u < y.l
             /\ \A d \in 1 .. Len(y.calls) : c # d => y.calls[c].u < y.calls[d].l \/ y.calls[d].u < y.calls[c].l
  <2>1. x.calls # <<>>
    BY <1>4
  <2>2. /\ 1 \in 1 .. Len(x.calls) /\ c + 1 \in 1 .. Len(x.calls) /\ c + 1 # 1
        /\ \A d \in 1 .. Len(y.calls) : d + 1 \in 1 .. Len(x.calls) /\ (c # d => c + 1 # d + 1)
    BY <1>2, <1>3, <2>1
  <2>3. \A d, e \in 1 .. Len(x.calls) : d # e => x.calls[d].u < x.calls[e].l \/ x.calls[e].u < x.calls[d].l
    BY DEF Order
  <2> QED
    BY <1>3, <2>1, <2>2, <2>3
<1> QED
  BY <1>5, <1>6, <1>7 DEF Order, y

(* The end of auxsort keeps the invariant if it keeps the order.              *)
LEMMA EndInv ==
  ASSUME NEW x, Frame(x), x.ordered => Order(EndCall(x))
  PROVE  Inv(EndCall(x))
<1> DEFINE y == EndCall(x)
<1> HIDE DEF y
<1>1. Frame(y) /\ Typed(x)
  BY EndFrame DEF Frame, y
<1>2. Ended(x, y)
  BY <1>1, EndCallFacts DEF y
<1>3. ((y.pc = "done" /\ y.calls = <<>>) \/ y.pc = "sort") /\ y.ordered = x.ordered
  BY <1>2 DEF Ended
<1> QED
  BY <1>1, <1>3 DEF Inv, y

(* The smaller part has less than half of the segment, wherever it was split. *)
LEMMA HalvesFrame ==
  ASSUME NEW x, Frame(x), x.l <= x.i, x.i <= x.u + 1
  PROVE  Frame(At(Halves(x), "sort"))
<1> DEFINE y == At(Halves(x), "sort")
<1> HIDE DEF y
<1>1. Typed(x) /\ Halved(x, y)
  BY HalvesFacts DEF Frame, y
<1>2. /\ x.l \in Int /\ x.u \in Int /\ x.i \in Int /\ x.n \in Nat /\ Len(x.calls) \in Nat
      /\ 1 <= x.l /\ x.u <= x.n
      /\ \A k \in 1 .. Len(x.calls) :
           x.calls[k].l \in Int /\ x.calls[k].u \in Int /\ x.calls[k].of \in Int
  BY <1>1, Fields DEF Frame
<1>3. Typed(y) /\ y.n = x.n /\ Len(y.calls) = Len(x.calls) + 1
      /\ \A k \in 2 .. Len(y.calls) : y.calls[k] = x.calls[k - 1]
  BY <1>1 DEF Halved
<1>4. /\ 1 <= y.l /\ y.u <= y.n
      /\ 1 <= y.calls[1].l /\ y.calls[1].u <= x.n /\ y.calls[1].of = x.u - x.l + 1
      /\ y.calls[1].u - y.calls[1].l + 1 <= y.calls[1].of /\ 2 * (y.u - y.l + 1) < y.calls[1].of
  <2>1. CASE x.i - x.l < x.u - x.i
    <3>1. /\ y.n = x.n /\ y.l = x.l /\ y.u = x.i - 1 /\ y.calls[1].l = x.i + 1 /\ y.calls[1].u = x.u
          /\ y.calls[1].of = x.u - x.l + 1
      BY <1>1, <2>1 DEF Halved
    <3>2. \A a, b, i, n \in Int : 1 <= a /\ b <= n /\ a <= i /\ i <= b + 1 /\ i - a < b - i =>
            /\ i - 1 <= n /\ 1 <= i + 1 /\ b - (i + 1) + 1 <= b - a + 1 /\ 2 * (i - 1 - a + 1) < b - a + 1
      OBVIOUS
    <3> QED
      <4>1. /\ x.i - 1 <= x.n /\ 1 <= x.i + 1 /\ x.u - (x.i + 1) + 1 <= x.u - x.l + 1
            /\ 2 * (x.i - 1 - x.l + 1) < x.u - x.l + 1
        BY <1>2, <2>1, <3>2
      <4> QED
        BY <1>2, <3>1, <4>1
  <2>2. CASE ~(x.i - x.l < x.u - x.i)
    <3>1. /\ y.n = x.n /\ y.l = x.i + 1 /\ y.u = x.u /\ y.calls[1].l = x.l /\ y.calls[1].u = x.i - 1
          /\ y.calls[1].of = x.u - x.l + 1
      BY <1>1, <2>2 DEF Halved
    <3>2. \A a, b, i, n \in Int : 1 <= a /\ b <= n /\ a <= i /\ i <= b + 1 /\ ~(i - a < b - i) =>
            /\ i - 1 <= n /\ 1 <= i + 1 /\ i - 1 - a + 1 <= b - a + 1 /\ 2 * (b - (i + 1) + 1) < b - a + 1
      OBVIOUS
    <3> QED
      <4>1. /\ x.i - 1 <= x.n /\ 1 <= x.i + 1 /\ x.i - 1 - x.l + 1 <= x.u - x.l + 1
            /\ 2 * (x.u - (x.i + 1) + 1) < x.u - x.l + 1
        BY <1>2, <2>2, <3>2
      <4> QED
        BY <1>2, <3>1, <4>1
  <2> QED
    BY <2>1, <2>2
<1>5. \A k \in 1 .. Len(x.calls) :
        /\ 1 <= x.calls[k].l /\ x.calls[k].u <= x.n /\ x.calls[k].of <= x.n
        /\ x.calls[k].u - x.calls[k].l + 1 <= x.calls[k].of /\ 2 * SizeOf(x, k) < x.calls[k].of
  BY DEF Frame
<1>6. ASSUME NEW k \in 2 .. Len(y.calls)
      PROVE  /\ 1 <= y.calls[k].l /\ y.calls[k].u <= y.n /\ y.calls[k].of <= y.n
             /\ y.calls[k].u - y.calls[k].l + 1 <= y.calls[k].of /\ 2 * SizeOf(y, k) < y.calls[k].of
  <2>1. k - 1 \in 1 .. Len(x.calls) /\ k # 1
    BY <1>2, <1>3
  <2>2. SizeOf(y, k) = SizeOf(x, k - 1)
    <3>1. CASE k = 2
      <4>1. SizeOf(y, k) = y.calls[1].of
        BY <3>1 DEF SizeOf
      <4>2. SizeOf(x, k - 1) = x.u - x.l + 1
        BY <3>1 DEF SizeOf
      <4> QED
        BY <1>4, <4>1, <4>2
    <3>2. CASE k # 2
      <4>1. k - 1 \in 2 .. Len(y.calls) /\ k - 1 # 1
        BY <3>2
      <4> QED
        BY <1>3, <2>1, <4>1 DEF SizeOf
    <3> QED
      BY <3>1, <3>2
  <2> QED
    BY <1>3, <1>5, <2>1, <2>2
<1>7. /\ 1 <= y.calls[1].l /\ y.calls[1].u <= y.n /\ y.calls[1].of <= y.n
      /\ y.calls[1].u - y.calls[1].l + 1 <= y.calls[1].of /\ 2 * SizeOf(y, 1) < y.calls[1].of
  BY <1>2, <1>3, <1>4 DEF SizeOf
<1>8. \A k \in 1 .. Len(y.calls) : k = 1 \/ k \in 2 .. Len(y.calls)
  BY <1>2, <1>3
<1> QED
  BY <1>3, <1>4, <1>6, <1>7, <1>8 DEF Frame, y

(* After the split around a pivot in its place, each part is sorted by itself. *)
LEMMA HalvesOrder ==
  ASSUME NEW x, Frame(x), Order(x), x.l + 1 <= x.i, x.i <= x.u - 1,
         \A k \in x.l .. x.i - 1 : K(x, k) <= K(x, x.i),
         \A k \in x.i + 1 .. x.u : K(x, x.i) <= K(x, k)
  PROVE  Order(At(Halves(x), "sort"))
<1> DEFINE y == At(Halves(x), "sort")
<1> HIDE DEF y
<1>1. Typed(x) /\ Halved(x, y)
  BY HalvesFacts DEF Frame, y
<1>2. /\ x.l \in Int /\ x.u \in Int /\ x.i \in Int /\ x.n \in Nat /\ Len(x.calls) \in Nat
      /\ 1 <= x.l /\ x.u <= x.n
      /\ \A k \in 1 .. Len(x.calls) : x.calls[k].l \in Int /\ x.calls[k].u \in Int
  BY <1>1, Fields DEF Frame
<1>3. /\ y.a = x.a /\ y.n = x.n /\ y.pc # "done" /\ Len(y.calls) = Len(x.calls) + 1
      /\ \A k \in 2 .. Len(y.calls) : y.calls[k] = x.calls[k - 1]
  BY <1>1 DEF Halved
<1>4. \/ y.l = x.l /\ y.u = x.i - 1 /\ y.calls[1].l = x.i + 1 /\ y.calls[1].u = x.u
      \/ y.l = x.i + 1 /\ y.u = x.u /\ y.calls[1].l = x.l /\ y.calls[1].u = x.i - 1
  BY <1>1 DEF Halved
<1>5. \A k \in 1 .. y.n : y.a[k] \in Int \X Nat /\ \E i \in 1 .. y.n : y.a[i][2] = k
  BY <1>3 DEF Order
<1>6. \A k \in 1 .. x.n : K(y, k) = K(x, k) /\ K(x, k) \in Int
  BY <1>3 DEF K, Order
<1>7. ASSUME NEW k \in 1 .. y.n, NEW m \in 1 .. y.n, k < m PROVE K(y, k) <= K(y, m) \/ Together(y, k, m)
  <2>1. K(x, k) <= K(x, m) \/ Together(x, k, m)
    BY <1>3, <1>7 DEF Order
  <2>2. K(y, k) = K(x, k) /\ K(y, m) = K(x, m) /\ K(x, k) \in Int /\ K(x, m) \in Int
    BY <1>3, <1>6
  <2>3. CASE x.l <= k /\ m <= x.u
    <3>1. CASE m <= x.i - 1 \/ x.i + 1 <= k
      <4>1. \/ y.l <= k /\ m <= y.u
            \/ y.calls[1].l <= k /\ m <= y.calls[1].u
        BY <1>2, <1>3, <1>4, <2>3, <3>1
      <4>2. 1 \in 1 .. Len(y.calls)
        BY <1>2, <1>3
      <4> QED
        BY <1>3, <4>1, <4>2 DEF Together, Pending
    <3>2. CASE ~(m <= x.i - 1 \/ x.i + 1 <= k)
      <4>1. k \in x.l .. x.i - 1 \/ k = x.i
        BY <1>2, <1>3, <1>7, <2>3, <3>2
      <4>2. m \in x.i + 1 .. x.u \/ m = x.i
        BY <1>2, <1>3, <1>7, <2>3, <3>2
      <4>3. x.i \in 1 .. x.n /\ K(x, x.i) \in Int
        BY <1>2, <1>6
      <4>4. K(x, k) <= K(x, x.i) /\ K(x, x.i) <= K(x, m)
        BY <4>1, <4>2, <4>3
      <4> QED
        BY <2>2, <4>3, <4>4
    <3> QED
      BY <3>1, <3>2
  <2>4. ASSUME NEW c \in 1 .. Len(x.calls), Pending(x, c, k, m) PROVE Together(y, k, m)
    <3>1. c + 1 \in 2 .. Len(y.calls) /\ c + 1 \in 1 .. Len(y.calls) /\ c + 1 - 1 = c
      BY <1>2, <1>3
    <3>2. Pending(y, c + 1, k, m)
      BY <1>3, <2>4, <3>1 DEF Pending
    <3> QED
      BY <3>1, <3>2 DEF Together
  <2> QED
    BY <2>1, <2>2, <2>3, <2>4 DEF Together
<1>8. \A c \in 2 .. Len(y.calls) : c - 1 \in 1 .. Len(x.calls)
  BY <1>2, <1>3
<1>9. \A c \in 2 .. Len(y.calls) : x.u < y.calls[c].l \/ y.calls[c].u < x.l
  BY <1>3, <1>8 DEF Order
<1>10. \A c \in 2 .. Len(y.calls) : y.calls[c].l \in Int /\ y.calls[c].u \in Int
  BY <1>2, <1>3, <1>8
<1>11. ASSUME NEW c \in 2 .. Len(y.calls)
       PROVE  /\ y.u < y.calls[c].l \/ y.calls[c].u < y.l
              /\ y.calls[1].u < y.calls[c].l \/ y.calls[c].u < y.calls[1].l
  <2>1. /\ y.calls[c].l \in Int /\ y.calls[c].u \in Int
        /\ x.u < y.calls[c].l \/ y.calls[c].u < x.l
    BY <1>9, <1>10
  <2>2. x.l \in Int /\ x.u \in Int /\ x.i \in Int
    BY <1>2
  <2>3. \A a, b, i, d, e \in Int : a + 1 <= i /\ i <= b - 1 /\ (b < d \/ e < a) => (i - 1 < d \/ e < a) /\ (b < d \/ e < i + 1)
    OBVIOUS
  <2>4. (x.i - 1 < y.calls[c].l \/ y.calls[c].u < x.l) /\ (x.u < y.calls[c].l \/ y.calls[c].u < x.i + 1)
    BY <2>1, <2>2, <2>3
  <2>5. CASE y.l = x.l /\ y.u = x.i - 1 /\ y.calls[1].l = x.i + 1 /\ y.calls[1].u = x.u
    BY <2>4, <2>5
  <2>6. CASE y.l = x.i + 1 /\ y.u = x.u /\ y.calls[1].l = x.l /\ y.calls[1].u = x.i - 1
    BY <2>4, <2>6
  <2> QED
    BY <1>4, <2>5, <2>6
<1>12. y.u < y.calls[1].l \/ y.calls[1].u < y.l
  BY <1>2, <1>4
<1>13. ASSUME NEW c \in 2 .. Len(y.calls), NEW d \in 2 .. Len(y.calls), c # d
       PROVE  y.calls[c].u < y.calls[d].l \/ y.calls[d].u < y.calls[c].l
  <2>1. c - 1 \in 1 .. Len(x.calls) /\ d - 1 \in 1 .. Len(x.calls) /\ c - 1 # d - 1
    BY <1>8, <1>13
  <2>2. \A k, m \in 1 .. Len(x.calls) : k # m => x.calls[k].u < x.calls[m].l \/ x.calls[m].u < x.calls[k].l
    BY DEF Order
  <2> QED
    BY <1>3, <2>1, <2>2
<1>14. \A c \in 1 .. Len(y.calls) : c = 1 \/ c \in 2 .. Len(y.calls)
  BY <1>2, <1>3
<1>15. ASSUME NEW c \in 1 .. Len(y.calls)
       PROVE  /\ y.u < y.calls[c].l \/ y.calls[c].u < y.l
              /\ \A d \in 1 .. Len(y.calls) : c # d => y.calls[c].u < y.calls[d].l \/ y.calls[d].u < y.calls[c].l
  BY <1>11, <1>12, <1>13, <1>14
<1> QED
  BY <1>5, <1>7, <1>15 DEF Order, y

-----------------------------------------------------------------------------
(* The pivot goes to a[u - 1], unless the three items were all.               *)
LEMMA PivotInv ==
  ASSUME NEW x, NEW mid, Frame(x), x.pc = "middle", x.l + 2 <= x.u, x.l < mid, mid < x.u,
         mid \in Int, x.u = x.l + 2 => mid = x.l + 1,
         x.ordered => Order(x) /\ K(x, x.l) <= K(x, mid) /\ K(x, mid) <= K(x, x.u)
  PROVE  Inv(Pivot(x, mid))
<1>1. /\ x.l \in Int /\ x.u \in Int /\ x.n \in Nat /\ 1 <= x.l /\ x.u <= x.n /\ Typed(x)
      /\ x.a \in [0 .. x.n + 1 -> Item]
  BY Fields DEF Frame
<1>2. CASE x.u - x.l = 2
  <2>1. Pivot(x, mid) = EndCall(x)
    BY <1>2 DEF Pivot
  <2>2. ASSUME x.ordered PROVE Order(EndCall(x))
    <3>1. mid = x.l + 1 /\ x.u = x.l + 2
      BY <1>1, <1>2
    <3>2. K(x, x.l) \in Int /\ K(x, mid) \in Int /\ K(x, x.u) \in Int
      <4>1. x.l \in 1 .. x.n /\ mid \in 1 .. x.n /\ x.u \in 1 .. x.n
        BY <1>1, <3>1
      <4> QED
        BY <2>2, <4>1, KeyFacts
    <3>3. ASSUME NEW k \in x.l .. x.u, NEW m \in x.l .. x.u, k < m PROVE K(x, k) <= K(x, m)
      <4>1. (k = x.l /\ m = mid) \/ (k = x.l /\ m = x.u) \/ (k = mid /\ m = x.u)
        BY <1>1, <3>1, <3>3
      <4> QED
        BY <2>2, <3>2, <4>1
    <3> QED
      BY <2>2, <3>3, EndOrder
  <2> QED
    BY <1>1, <2>1, <2>2, EndInv
<1>3. CASE x.u - x.l # 2
  <2> DEFINE w == Swap(x, mid, x.u - 1)
             y == Go(w, x.l, x.u - 1, "up")
  <2> HIDE DEF w
  <2>1. mid \in x.l .. x.u /\ x.u - 1 \in x.l .. x.u /\ mid \in 0 .. x.n + 1 /\ x.u - 1 \in 0 .. x.n + 1
        /\ x.l + 3 <= x.u /\ mid <= x.u - 1
    BY <1>1, <1>3
  <2>2. Swapped(x, mid, x.u - 1, w)
    BY <1>1, <2>1, SwapFacts DEF w
  <2>3. Frame(w) /\ (x.ordered => Order(w))
    BY <2>1, SwapFrame, SwapOrder DEF w
  <2>4. Typed(w) /\ w.l = x.l /\ w.u = x.u /\ w.n = x.n /\ w.pc = "middle" /\ w.ordered = x.ordered
    BY <2>2 DEF Swapped
  <2>5. Alike(w, y) /\ y.i = x.l /\ y.j = x.u - 1 /\ y.pc = "up"
    <3>1. x.l \in Int /\ x.u - 1 \in Int /\ "up" \in Pcs
      BY <1>1 DEF Pcs
    <3> QED
      BY <2>4, <3>1, GoFacts
  <2> HIDE DEF y
  <2>6. Frame(y) /\ (x.ordered => Order(y))
    BY <2>3, <2>4, <2>5, AlikeKeeps
  <2>7. y.l = x.l /\ y.u = x.u /\ y.a = w.a /\ y.ordered = x.ordered
    BY <2>4, <2>5 DEF Alike
  <2>8. ASSUME x.ordered PROVE K(y, x.l) <= P(y) /\ P(y) <= K(y, x.u - 1) /\ P(y) <= K(y, x.u)
    <3>1. w.a[x.u - 1] = x.a[mid] /\ w.a[x.l] = x.a[x.l] /\ w.a[x.u] = x.a[x.u]
      <4>1. /\ x.l \in 0 .. x.n + 1 /\ x.l # mid /\ x.l # x.u - 1
            /\ x.u \in 0 .. x.n + 1 /\ x.u # mid /\ x.u # x.u - 1
        BY <1>1, <2>1
      <4> QED
        BY <2>2, <4>1 DEF Swapped
    <3>2. K(x, mid) \in Int
      <4>1. mid \in 1 .. x.n
        BY <1>1, <2>1
      <4> QED
        BY <2>8, <4>1, KeyFacts
    <3>3. K(y, x.u - 1) = K(x, mid) /\ K(y, x.l) = K(x, x.l) /\ K(y, x.u) = K(x, x.u) /\ P(y) = K(x, mid)
      BY <2>7, <3>1 DEF P, K
    <3> QED
      BY <2>8, <3>2, <3>3
  <2>9. Up(y)
    <3>1. ASSUME y.ordered PROVE /\ \A k \in y.l .. y.i : K(y, k) <= P(y)
                                 /\ \A k \in y.j .. y.u : P(y) <= K(y, k)
      <4>1. \A k \in y.l .. y.i : k = x.l
        BY <1>1, <2>5, <2>7
      <4>2. \A k \in y.j .. y.u : k = x.u - 1 \/ k = x.u
        BY <1>1, <2>5, <2>7
      <4> QED
        BY <2>7, <2>8, <3>1, <4>1, <4>2
    <3> QED
      BY <1>1, <2>1, <2>5, <2>7, <3>1 DEF Up
  <2>10. Pivot(x, mid) = y
    BY <1>3 DEF Pivot, Go, w, y
  <2> QED
    BY <2>5, <2>6, <2>7, <2>9, <2>10 DEF Inv
<1> QED
  BY <1>2, <1>3

-----------------------------------------------------------------------------
(* The comparison of two items is that of their keys, if there is an order.   *)
LEMMA AnswersFacts ==
  ASSUME NEW x, NEW y, NEW less \in Answers(x, y), q.ordered
  PROVE  less <=> x[1] < y[1]
<1>1. less \in {x[1] < y[1]}
  BY DEF Answers
<1> QED
  BY <1>1

(* What holds of every state that the code acts on. *)
LEMMA Sorting ==
  ASSUME Inv(q), q.pc # "done"
  PROVE  /\ Frame(q) /\ Typed(q) /\ (q.ordered => Order(q))
         /\ q.n \in Nat /\ q.l \in Int /\ q.u \in Int /\ q.i \in Int /\ q.j \in Int
         /\ 1 <= q.l /\ q.u <= q.n
         /\ \A k \in q.l .. q.u : k \in 1 .. q.n /\ k \in 0 .. q.n + 1
         /\ q.ordered => \A k \in q.l .. q.u : K(q, k) \in Int
<1>1. /\ Frame(q) /\ Typed(q) /\ (q.ordered => Order(q))
      /\ q.n \in Nat /\ q.l \in Int /\ q.u \in Int /\ q.i \in Int /\ q.j \in Int
      /\ 1 <= q.l /\ q.u <= q.n
  BY Fields DEF Inv, Frame
<1>2. \A k \in q.l .. q.u : k \in 1 .. q.n /\ k \in 0 .. q.n + 1
  BY <1>1
<1> QED
  BY <1>1, <1>2, KeyFacts

(* The items at the two ends of a segment are put in order.                   *)
LEMMA OuterInv ==
  ASSUME Inv(q), Outer
  PROVE  Inv(q')
<1>1. /\ Frame(q) /\ Typed(q) /\ (q.ordered => Order(q)) /\ q.pc = "sort"
      /\ q.n \in Nat /\ q.l \in Int /\ q.u \in Int /\ 1 <= q.l /\ q.u <= q.n
  BY Sorting DEF Outer
<1>2. CASE q.l >= q.u
  <2>1. q' = EndCall(q)
    BY <1>2 DEF Outer
  <2>2. \A k, m \in q.l .. q.u : k < m => K(q, k) <= K(q, m)
    BY <1>1, <1>2
  <2> QED
    BY <1>1, <2>1, <2>2, EndOrder, EndInv
<1>3. CASE ~(q.l >= q.u)
  <2>1. PICK less \in Answers(q.a[q.u], q.a[q.l]) :
          LET x == IF less THEN Swap(q, q.l, q.u) ELSE q
          IN  q' = IF q.u - q.l = 1 THEN EndCall(x) ELSE At(x, "middle")
    BY <1>3 DEF Outer
  <2> DEFINE x == IF less THEN Swap(q, q.l, q.u) ELSE q
  <2> HIDE DEF x
  <2>2. q' = IF q.u - q.l = 1 THEN EndCall(x) ELSE At(x, "middle")
    BY <2>1 DEF x
  <2>3. q.l \in q.l .. q.u /\ q.u \in q.l .. q.u /\ q.l \in 0 .. q.n + 1 /\ q.u \in 0 .. q.n + 1 /\ q.l < q.u
    BY <1>1, <1>3
  <2>4. q.ordered => (less <=> K(q, q.u) < K(q, q.l)) /\ K(q, q.l) \in Int /\ K(q, q.u) \in Int
    BY <1>1, <2>1, <2>3, AnswersFacts, Sorting DEF K
  <2>5. /\ Frame(x) /\ (x.ordered => Order(x)) /\ x.pc = "sort" /\ x.l = q.l /\ x.u = q.u
        /\ x.ordered => K(x, x.l) <= K(x, x.u)
    <3>1. CASE less
      <4>1. x = Swap(q, q.l, q.u)
        BY <3>1 DEF x
      <4>2. Swapped(q, q.l, q.u, x)
        BY <1>1, <2>3, <4>1, SwapFacts
      <4>3. Frame(x) /\ (q.ordered => Order(x))
        BY <1>1, <2>3, <4>1, SwapFrame, SwapOrder
      <4>4. x.l = q.l /\ x.u = q.u /\ x.pc = "sort" /\ x.ordered = q.ordered
            /\ K(x, q.l) = K(q, q.u) /\ K(x, q.u) = K(q, q.l)
        BY <1>1, <4>2 DEF Swapped, K
      <4> QED
        BY <2>4, <3>1, <4>3, <4>4
    <3>2. CASE ~less
      <4>1. x = q
        BY <3>2 DEF x
      <4> QED
        BY <1>1, <2>4, <3>2, <4>1
    <3> QED
      BY <3>1, <3>2
  <2>6. CASE q.u - q.l = 1
    <3>1. \A k, m \in x.l .. x.u : k < m => k = x.l /\ m = x.u
      BY <1>1, <2>5, <2>6
    <3>2. ASSUME x.ordered PROVE Order(EndCall(x))
      <4>1. \A k, m \in x.l .. x.u : k < m => K(x, k) <= K(x, m)
        BY <2>5, <3>1, <3>2
      <4> QED
        BY <2>5, <3>2, <4>1, EndOrder
    <3> QED
      BY <2>2, <2>5, <2>6, <3>2, EndInv
  <2>7. CASE q.u - q.l # 1
    <3> DEFINE y == At(x, "middle")
    <3> HIDE DEF y
    <3>1. Alike(x, y) /\ y.pc = "middle"
      <4>1. Typed(x) /\ "middle" \in Pcs
        BY <2>5 DEF Frame, Pcs
      <4> QED
        BY <4>1, AtFacts DEF y
    <3>2. Frame(y) /\ (y.ordered => Order(y)) /\ y.l = q.l /\ y.u = q.u
          /\ (y.ordered => K(y, y.l) <= K(y, y.u))
      <4>1. y.a = x.a /\ y.l = x.l /\ y.u = x.u /\ y.ordered = x.ordered
        BY <3>1 DEF Alike
      <4>2. Frame(y) /\ (Order(x) => Order(y))
        BY <2>5, <3>1, AlikeKeeps
      <4> QED
        BY <2>5, <4>1, <4>2 DEF K
    <3>3. y.l + 2 <= y.u
      BY <1>1, <2>3, <2>7, <3>2
    <3> QED
      BY <2>2, <2>7, <3>1, <3>2, <3>3 DEF Inv, y
  <2> QED
    BY <2>6, <2>7
<1> QED
  BY <1>2, <1>3

(* The item in the middle is put in order with those at the ends.             *)
LEMMA MiddleInv ==
  ASSUME Inv(q), Middle
  PROVE  Inv(q')
<1> DEFINE mid == (q.l + q.u) \div 2
<1>1. /\ Frame(q) /\ Typed(q) /\ (q.ordered => Order(q)) /\ q.pc = "middle"
      /\ q.n \in Nat /\ q.l \in Int /\ q.u \in Int /\ 1 <= q.l /\ q.u <= q.n
      /\ q.l + 2 <= q.u /\ (q.ordered => K(q, q.l) <= K(q, q.u))
  BY Sorting DEF Middle, Inv
<1>2. mid \in Int /\ q.l < mid /\ mid < q.u /\ (q.u = q.l + 2 => mid = q.l + 1)
  BY <1>1
<1>3. \E low \in Answers(q.a[mid], q.a[q.l]) :
        IF low THEN q' = Pivot(Swap(q, mid, q.l), mid)
        ELSE \E high \in Answers(q.a[q.u], q.a[mid]) :
               q' = Pivot(IF high THEN Swap(q, mid, q.u) ELSE q, mid)
  BY DEF Middle
<1> HIDE DEF mid
<1>4. /\ q.l \in q.l .. q.u /\ mid \in q.l .. q.u /\ q.u \in q.l .. q.u
      /\ q.l \in 0 .. q.n + 1 /\ mid \in 0 .. q.n + 1 /\ q.u \in 0 .. q.n + 1
      /\ q.l # mid /\ mid # q.u /\ q.l # q.u
  BY <1>1, <1>2
<1>5. q.ordered => K(q, q.l) \in Int /\ K(q, mid) \in Int /\ K(q, q.u) \in Int
  BY <1>1, <1>4, Sorting
<1>6. PICK low \in Answers(q.a[mid], q.a[q.l]) :
        IF low THEN q' = Pivot(Swap(q, mid, q.l), mid)
        ELSE \E high \in Answers(q.a[q.u], q.a[mid]) :
               q' = Pivot(IF high THEN Swap(q, mid, q.u) ELSE q, mid)
  BY <1>3
<1>7. q.ordered => (low <=> K(q, mid) < K(q, q.l))
  BY <1>6, AnswersFacts DEF K
(* Pivot needs three items in order. *)
<1>8. ASSUME NEW x, Frame(x), x.pc = q.pc, x.l = q.l, x.u = q.u, x.ordered = q.ordered,
             q.ordered => Order(x) /\ K(x, q.l) <= K(x, mid) /\ K(x, mid) <= K(x, q.u)
      PROVE  Inv(Pivot(x, mid))
  BY <1>1, <1>2, <1>8, PivotInv
<1>9. CASE low
  <2> DEFINE x == Swap(q, mid, q.l)
  <2> HIDE DEF x
  <2>1. Swapped(q, mid, q.l, x)
    BY <1>1, <1>4, SwapFacts DEF x
  <2>2. Frame(x) /\ (q.ordered => Order(x))
    BY <1>1, <1>4, SwapFrame, SwapOrder DEF x
  <2>3. x.pc = q.pc /\ x.l = q.l /\ x.u = q.u /\ x.ordered = q.ordered
        /\ K(x, mid) = K(q, q.l) /\ K(x, q.l) = K(q, mid) /\ K(x, q.u) = K(q, q.u)
    BY <1>4, <2>1 DEF Swapped, K
  <2>4. q.ordered => K(x, q.l) <= K(x, mid) /\ K(x, mid) <= K(x, q.u)
    BY <1>1, <1>5, <1>7, <1>9, <2>3
  <2>5. Inv(Pivot(x, mid))
    BY <1>8, <2>2, <2>3, <2>4
  <2> QED
    BY <1>6, <1>9, <2>5 DEF x
<1>10. CASE ~low
  <2>1. PICK high \in Answers(q.a[q.u], q.a[mid]) :
          q' = Pivot(IF high THEN Swap(q, mid, q.u) ELSE q, mid)
    BY <1>6, <1>10
  <2>2. q.ordered => (high <=> K(q, q.u) < K(q, mid))
    BY <2>1, AnswersFacts DEF K
  <2>3. CASE high
    <3> DEFINE x == Swap(q, mid, q.u)
    <3> HIDE DEF x
    <3>1. Swapped(q, mid, q.u, x)
      BY <1>1, <1>4, SwapFacts DEF x
    <3>2. Frame(x) /\ (q.ordered => Order(x))
      BY <1>1, <1>4, SwapFrame, SwapOrder DEF x
    <3>3. x.pc = q.pc /\ x.l = q.l /\ x.u = q.u /\ x.ordered = q.ordered
          /\ K(x, mid) = K(q, q.u) /\ K(x, q.u) = K(q, mid) /\ K(x, q.l) = K(q, q.l)
      BY <1>4, <3>1 DEF Swapped, K
    <3>4. q.ordered => K(x, q.l) <= K(x, mid) /\ K(x, mid) <= K(x, q.u)
      BY <1>1, <1>5, <2>2, <2>3, <3>3
    <3>5. Inv(Pivot(x, mid))
      BY <1>8, <3>2, <3>3, <3>4
    <3> QED
      BY <2>1, <2>3, <3>5 DEF x
  <2>4. CASE ~high
    <3>1. q.ordered => K(q, q.l) <= K(q, mid) /\ K(q, mid) <= K(q, q.u)
      BY <1>5, <1>7, <1>10, <2>2, <2>4
    <3>2. Inv(Pivot(q, mid))
      BY <1>1, <1>8, <3>1
    <3> QED
      BY <2>1, <2>4, <3>2
  <2> QED
    BY <2>3, <2>4
<1> QED
  BY <1>9, <1>10

(* The search from below goes on, stops or raises the error.                  *)
LEMMA SearchUpInv ==
  ASSUME Inv(q), SearchUp
  PROVE  Inv(q')
<1> DEFINE i == q.i + 1
<1>1. /\ Frame(q) /\ Typed(q) /\ (q.ordered => Order(q)) /\ q.pc = "up"
      /\ q.n \in Nat /\ q.l \in Int /\ q.u \in Int /\ q.i \in Int /\ q.j \in Int
      /\ 1 <= q.l /\ q.u <= q.n /\ Up(q)
  BY Sorting DEF SearchUp, Inv
<1>2. PICK less \in Answers(q.a[i], PivotItem) :
        q' = [q EXCEPT !.i = i, !.pc = IF ~less THEN "down" ELSE IF i > q.u THEN "error" ELSE "up"]
  BY DEF SearchUp
<1>3. q.ordered => (less <=> K(q, i) < P(q))
  BY <1>2, AnswersFacts DEF K, P, PivotItem
<1>4. i \in Int /\ q.l + 1 <= i /\ i <= q.u + 1 /\ (q.ordered => i <= q.u - 1)
      /\ \A k \in q.l .. i : k \in q.l .. q.i \/ k = i
  BY <1>1 DEF Up
<1>5. q.ordered => K(q, i) \in Int /\ P(q) \in Int
  <2>1. q.ordered => i \in q.l .. q.u /\ q.u - 1 \in q.l .. q.u
    BY <1>1, <1>4 DEF Up
  <2> QED
    BY <1>1, <2>1, Sorting DEF P
<1>6. q.ordered /\ less => i <= q.u - 2
  <2>1. q.ordered /\ less => i # q.u - 1
    BY <1>3, <1>5 DEF P
  <2> QED
    BY <1>1, <1>4, <2>1
<1> DEFINE y == q'
           pc == IF ~less THEN "down" ELSE IF i > q.u THEN "error" ELSE "up"
<1>7. pc \in Pcs
  BY DEF Pcs
<1>8. Alike(q, y) /\ y.i = i /\ y.j = q.j /\ y.pc = pc
  <2>1. y = Go(q, i, q.j, pc)
    BY <1>1, <1>2 DEF Go, Typed
  <2> HIDE DEF pc, i, y
  <2> QED
    BY <1>1, <1>4, <1>7, <2>1, GoFacts
<1> HIDE DEF y, pc
<1>9. y.l = q.l /\ y.u = q.u /\ y.ordered = q.ordered /\ P(y) = P(q) /\ \A k : K(y, k) = K(q, k)
  BY <1>8 DEF Alike, K, P
<1>10. Frame(y) /\ (y.ordered => Order(y))
  <2>1. y.pc # "done"
    BY <1>8 DEF pc
  <2> QED
    BY <1>1, <1>8, <1>9, <2>1, AlikeKeeps
<1>11. CASE ~less
  <2>1. y.pc = "down"
    BY <1>8, <1>11 DEF pc
  <2>2. Down(y)
    <3>1. y.l + 3 <= y.u /\ y.l + 1 <= y.i /\ y.i <= y.u + 1 /\ y.l <= y.j /\ y.j <= y.u - 1
      BY <1>1, <1>4, <1>8, <1>9 DEF Up
    <3>2. ASSUME y.ordered
          PROVE  /\ y.i <= y.u - 1 /\ y.l + 1 <= y.j /\ P(y) <= K(y, y.i)
                 /\ \A k \in y.j .. y.u : P(y) <= K(y, k)
      BY <1>1, <1>3, <1>4, <1>5, <1>8, <1>9, <1>11, <3>2 DEF Up
    <3>3. ASSUME y.ordered PROVE \A k \in y.l .. y.i - 1 : K(y, k) <= P(y)
      BY <1>1, <1>8, <1>9, <3>3 DEF Up
    <3> QED
      BY <3>1, <3>2, <3>3 DEF Down
  <2> QED
    BY <1>10, <2>1, <2>2 DEF Inv, y
<1>12. CASE less /\ i > q.u
  <2>1. y.pc = "error" /\ ~q.ordered
    BY <1>1, <1>6, <1>8, <1>12 DEF pc
  <2> QED
    BY <1>9, <1>10, <2>1 DEF Inv, y
<1>13. CASE less /\ ~(i > q.u)
  <2>1. y.pc = "up"
    BY <1>8, <1>13 DEF pc
  <2>2. Up(y)
    <3>1. y.l + 3 <= y.u /\ y.l <= y.i /\ y.i <= y.u /\ y.l <= y.j /\ y.j <= y.u - 1
      BY <1>1, <1>4, <1>8, <1>9, <1>13 DEF Up
    <3>2. ASSUME y.ordered
          PROVE  /\ y.i <= y.u - 2 /\ y.l + 1 <= y.j
                 /\ \A k \in y.j .. y.u : P(y) <= K(y, k)
      BY <1>1, <1>6, <1>8, <1>9, <1>13, <3>2 DEF Up
    <3>3. ASSUME y.ordered PROVE \A k \in y.l .. y.i : K(y, k) <= P(y)
      <4>1. K(y, i) <= P(y)
        BY <1>3, <1>5, <1>9, <1>13, <3>3
      <4> QED
        BY <1>1, <1>4, <1>8, <1>9, <3>3, <4>1 DEF Up
    <3> QED
      BY <3>1, <3>2, <3>3 DEF Up
  <2> QED
    BY <1>10, <2>1, <2>2 DEF Inv, y
<1> QED
  BY <1>11, <1>12, <1>13

(* The search from above goes on, raises the error, or ends in an exchange or  *)
(* in the split.                                                              *)
LEMMA SearchDownInv ==
  ASSUME Inv(q), SearchDown
  PROVE  Inv(q')
<1> DEFINE j == q.j - 1
           x == [q EXCEPT !.j = j]
<1>1. /\ Frame(q) /\ Typed(q) /\ (q.ordered => Order(q)) /\ q.pc = "down"
      /\ q.n \in Nat /\ q.l \in Int /\ q.u \in Int /\ q.i \in Int /\ q.j \in Int
      /\ 1 <= q.l /\ q.u <= q.n /\ Down(q)
  BY Sorting DEF SearchDown, Inv
<1>2. PICK less \in Answers(PivotItem, q.a[j]) :
        q' = IF less THEN At(x, IF j < q.l THEN "error" ELSE "down")
             ELSE IF j < q.i THEN At(Halves(Swap(x, q.u - 1, q.i)), "sort")
             ELSE At(Swap(x, q.i, j), "up")
  BY DEF SearchDown
<1>3. q.ordered => (less <=> P(q) < K(q, j))
  BY <1>2, AnswersFacts DEF K, P, PivotItem
<1>4. j \in Int /\ q.l - 1 <= j /\ j <= q.u - 2 /\ (q.ordered => q.l <= j)
      /\ \A k \in j .. q.u : k \in q.j .. q.u \/ k = j
  BY <1>1 DEF Down
<1>5. /\ q.u - 1 \in 0 .. q.n + 1 /\ q.i \in 0 .. q.n + 1 /\ j \in 0 .. q.n + 1
      /\ q.u - 1 \in q.l .. q.u /\ (q.ordered => q.i \in q.l .. q.u /\ j \in q.l .. q.u)
  BY <1>1, <1>4 DEF Down
<1>6. q.ordered => /\ K(q, j) \in Int /\ P(q) \in Int /\ K(q, q.i) \in Int
                   /\ \A k \in q.l .. q.u : K(q, k) \in Int
  BY <1>1, <1>5, Sorting DEF P
<1>7. Alike(q, x) /\ x.i = q.i /\ x.j = j /\ x.pc = "down"
  <2>1. x = Go(q, q.i, j, "down")
    BY <1>1 DEF Go, Typed
  <2>2. "down" \in Pcs
    BY DEF Pcs
  <2> HIDE DEF x, j
  <2> QED
    BY <1>1, <1>4, <2>1, <2>2, GoFacts
<1> HIDE DEF x, j
<1>8. /\ x.a = q.a /\ x.l = q.l /\ x.u = q.u /\ x.n = q.n /\ x.ordered = q.ordered /\ Typed(x)
      /\ P(x) = P(q) /\ \A k : K(x, k) = K(q, k)
  BY <1>7 DEF Alike, K, P
<1>9. Frame(x) /\ (q.ordered => Order(x))
  BY <1>1, <1>7, AlikeKeeps
<1>10. CASE less
  <2> DEFINE pc == IF j < q.l THEN "error" ELSE "down"
             y == At(x, pc)
  <2>1. pc \in Pcs
    BY DEF Pcs
  <2> HIDE DEF y, pc
  <2>2. Alike(x, y) /\ y.i = q.i /\ y.j = j /\ y.pc = pc
    BY <1>7, <1>8, <2>1, AtFacts DEF y
  <2>3. y.l = q.l /\ y.u = q.u /\ y.ordered = q.ordered /\ P(y) = P(q) /\ \A k : K(y, k) = K(q, k)
    BY <1>8, <2>2 DEF Alike, K, P
  <2>4. Frame(y) /\ (q.ordered => Order(y))
    <3>1. y.pc # "done" /\ x.pc # "done"
      BY <1>7, <2>2 DEF pc
    <3> QED
      BY <1>9, <2>2, <3>1, AlikeKeeps
  <2>5. q.ordered => q.l + 1 <= j
    <3>1. ASSUME q.ordered PROVE j # q.l
      <4>1. q.l \in q.l .. q.i - 1
        BY <1>1 DEF Down
      <4>2. K(q, q.l) <= P(q)
        BY <1>1, <3>1, <4>1 DEF Down
      <4> QED
        BY <1>3, <1>6, <1>10, <3>1, <4>2
    <3> QED
      BY <1>1, <1>4, <3>1
  <2>6. ASSUME j < q.l PROVE Inv(y)
    BY <1>1, <1>4, <2>2, <2>3, <2>4, <2>5, <2>6 DEF Inv, pc
  <2>7. ASSUME ~(j < q.l) PROVE Inv(y)
    <3>1. y.pc = "down"
      BY <2>2, <2>7 DEF pc
    <3>2. y.l + 3 <= y.u /\ y.l + 1 <= y.i /\ y.i <= y.u + 1 /\ y.l <= y.j /\ y.j <= y.u - 1
      BY <1>1, <1>4, <2>2, <2>3, <2>7 DEF Down
    <3>3. ASSUME y.ordered
          PROVE  /\ y.i <= y.u - 1 /\ y.l + 1 <= y.j /\ P(y) <= K(y, y.i)
                 /\ \A k \in y.l .. y.i - 1 : K(y, k) <= P(y)
      BY <1>1, <2>2, <2>3, <2>5, <3>3 DEF Down
    <3>4. ASSUME y.ordered PROVE \A k \in y.j .. y.u : P(y) <= K(y, k)
      <4>1. P(q) <= K(q, j)
        BY <1>3, <1>6, <1>10, <2>3, <3>4
      <4> QED
        BY <1>1, <1>4, <2>2, <2>3, <3>4, <4>1 DEF Down
    <3>5. Down(y)
      BY <3>2, <3>3, <3>4 DEF Down
    <3> QED
      BY <2>3, <2>4, <3>1, <3>5 DEF Inv
  <2>8. Inv(y)
    BY <2>6, <2>7
  <2> QED
    BY <1>2, <1>10, <2>8 DEF y, pc
<1>11. CASE ~less /\ j < q.i
  <2> DEFINE w == Swap(x, q.u - 1, q.i)
             y == At(Halves(w), "sort")
  <2> HIDE DEF w
  <2>1. Swapped(x, q.u - 1, q.i, w)
    BY <1>5, <1>8, SwapFacts DEF w
  <2>2. Frame(w)
    BY <1>5, <1>8, <1>9, SwapFrame DEF w
  <2>3. w.l = q.l /\ w.u = q.u /\ w.n = q.n /\ w.i = q.i /\ w.ordered = q.ordered /\ Typed(w)
        /\ w.a[q.u - 1] = q.a[q.i] /\ w.a[q.i] = q.a[q.u - 1]
        /\ \A k \in 0 .. q.n + 1 : k # q.i /\ k # q.u - 1 => w.a[k] = q.a[k]
    BY <1>7, <1>8, <2>1 DEF Swapped
  <2>4. Frame(y)
    BY <1>1, <2>2, <2>3, HalvesFrame DEF Down
  <2>5. ASSUME q.ordered PROVE Order(y)
    <3>1. Order(w)
      BY <1>5, <1>7, <1>8, <1>9, <2>5, SwapOrder DEF w
    <3>2. K(w, w.i) = P(q) /\ K(w, q.u - 1) = K(q, q.i)
      BY <2>3 DEF K, P
    <3>3. ASSUME NEW k \in w.l .. w.i - 1 PROVE K(w, k) <= K(w, w.i)
      <4>1. k \in q.l .. q.i - 1 /\ k \in 0 .. q.n + 1 /\ k # q.i /\ k # q.u - 1
        BY <1>1, <2>3, <2>5 DEF Down
      <4>2. K(w, k) = K(q, k) /\ K(q, k) <= P(q)
        BY <1>1, <2>3, <2>5, <4>1 DEF Down, K
      <4> QED
        BY <3>2, <4>2
    <3>4. ASSUME NEW k \in w.i + 1 .. w.u PROVE K(w, w.i) <= K(w, k)
      <4>1. CASE k = q.u - 1
        BY <1>1, <2>5, <3>2, <4>1 DEF Down
      <4>2. CASE k # q.u - 1
        <5>1. k \in q.j .. q.u /\ k \in 0 .. q.n + 1 /\ k # q.i
          BY <1>1, <1>11, <2>3 DEF Down, j
        <5>2. K(w, k) = K(q, k) /\ P(q) <= K(q, k)
          BY <1>1, <2>3, <2>5, <4>2, <5>1 DEF Down, K
        <5> QED
          BY <3>2, <5>2
      <4> QED
        BY <4>1, <4>2
    <3>5. w.l + 1 <= w.i /\ w.i <= w.u - 1
      BY <1>1, <2>3, <2>5 DEF Down
    <3> QED
      BY <2>2, <3>1, <3>3, <3>4, <3>5, HalvesOrder
  <2> HIDE DEF y
  <2>6. y.pc = "sort" /\ y.ordered = q.ordered
    BY <2>3, HalvesFacts DEF Halved, y
  <2>7. Inv(y)
    BY <2>4, <2>5, <2>6 DEF Inv
  <2> QED
    BY <1>2, <1>11, <2>7 DEF y, w
<1>12. CASE ~less /\ ~(j < q.i)
  <2> DEFINE w == Swap(x, q.i, j)
             y == At(w, "up")
  <2> HIDE DEF w
  <2>1. Swapped(x, q.i, j, w)
    BY <1>5, <1>8, SwapFacts DEF w
  <2>2. Frame(w) /\ (q.ordered => Order(w))
    BY <1>5, <1>7, <1>8, <1>9, SwapFrame, SwapOrder DEF w
  <2>3. Typed(w) /\ w.pc = "down" /\ w.ordered = q.ordered /\ w.i = q.i /\ w.j = j /\ w.l = q.l /\ w.u = q.u
        /\ w.a[q.i] = q.a[j] /\ w.a[j] = q.a[q.i]
        /\ \A k \in 0 .. q.n + 1 : k # q.i /\ k # j => w.a[k] = q.a[k]
    BY <1>7, <1>8, <2>1 DEF Swapped
  <2>4. Alike(w, y) /\ y.i = q.i /\ y.j = j /\ y.pc = "up"
    <3>1. "up" \in Pcs
      BY DEF Pcs
    <3> HIDE DEF y
    <3> QED
      BY <2>3, <3>1, AtFacts DEF y
  <2> HIDE DEF y
  <2>5. y.l = q.l /\ y.u = q.u /\ y.ordered = q.ordered /\ P(y) = P(w) /\ \A k : K(y, k) = K(w, k)
    BY <2>3, <2>4 DEF Alike, K, P
  <2>6. Frame(y) /\ (q.ordered => Order(y))
    <3>1. y.pc # "done" /\ w.pc # "done"
      BY <2>3, <2>4
    <3> QED
      BY <2>2, <2>4, <3>1, AlikeKeeps
  <2>7. Up(y)
    <3>1. /\ y.l + 3 <= y.u /\ y.l <= y.i /\ y.i <= y.u /\ y.l <= y.j /\ y.j <= y.u - 1
          /\ y.i <= y.u - 2 /\ y.l + 1 <= y.j
      BY <1>1, <1>4, <1>12, <2>4, <2>5 DEF Down
    <3>2. q.u - 1 \in 0 .. q.n + 1 /\ q.u - 1 # q.i /\ q.u - 1 # j
      BY <1>1, <1>4, <1>5, <1>12
    <3>3. P(w) = P(q) /\ K(w, q.i) = K(q, j) /\ K(w, j) = K(q, q.i)
      BY <2>3, <3>2 DEF P, K
    <3>4. ASSUME q.ordered, NEW k \in q.l .. q.i PROVE K(w, k) <= P(w)
      <4>1. CASE k = q.i
        BY <1>3, <1>6, <1>12, <3>3, <3>4, <4>1
      <4>2. CASE k # q.i
        <5>1. k \in q.l .. q.i - 1 /\ k \in 0 .. q.n + 1 /\ k # j
          BY <1>1, <1>4, <1>12, <3>4, <4>2
        <5> QED
          BY <1>1, <2>3, <3>3, <3>4, <4>2, <5>1 DEF Down, K
      <4> QED
        BY <4>1, <4>2
    <3>5. ASSUME q.ordered, NEW k \in j .. q.u PROVE P(w) <= K(w, k)
      <4>1. CASE k = j
        BY <1>1, <3>3, <3>5, <4>1 DEF Down
      <4>2. CASE k # j
        <5>1. k \in q.j .. q.u /\ k \in 0 .. q.n + 1 /\ k # q.i
          BY <1>1, <1>4, <1>12, <3>5, <4>2
        <5> QED
          BY <1>1, <2>3, <3>3, <3>5, <4>2, <5>1 DEF Down, K
      <4> QED
        BY <4>1, <4>2
    <3> QED
      BY <2>4, <2>5, <3>1, <3>4, <3>5 DEF Up
  <2>8. Inv(y)
    BY <2>4, <2>5, <2>6, <2>7 DEF Inv
  <2> QED
    BY <1>2, <1>12, <2>8 DEF y, w
<1> QED
  BY <1>10, <1>11, <1>12

-----------------------------------------------------------------------------
(* The array as it is given to table.sort.                                    *)
LEMMA InitInv == SortInit => Inv(q)
<1> SUFFICES ASSUME SortInit PROVE Inv(q)
  OBVIOUS
<1>1. PICK n \in 0 .. MaxLen, ordered \in BOOLEAN :
        \E keys \in [1 .. n -> IF ordered THEN Keys ELSE {0}] :
          q = [a |-> [i \in 0 .. n + 1 |-> IF i \in 1 .. n THEN <<keys[i], i>> ELSE Absent],
               n |-> n, l |-> 1, u |-> n, i |-> 0, j |-> 0, calls |-> <<>>, pc |-> "sort", ordered |-> ordered]
  BY DEF SortInit
<1>2. PICK keys \in [1 .. n -> IF ordered THEN Keys ELSE {0}] :
        q = [a |-> [i \in 0 .. n + 1 |-> IF i \in 1 .. n THEN <<keys[i], i>> ELSE Absent],
             n |-> n, l |-> 1, u |-> n, i |-> 0, j |-> 0, calls |-> <<>>, pc |-> "sort", ordered |-> ordered]
  BY <1>1
<1> DEFINE a == [i \in 0 .. n + 1 |-> IF i \in 1 .. n THEN <<keys[i], i>> ELSE Absent]
<1>3. n \in Nat /\ \A i \in 1 .. n : keys[i] \in Int
  <2>1. (IF ordered THEN Keys ELSE {0}) \subseteq Int
    BY SortAssumption
  <2>2. \A i \in 1 .. n : keys[i] \in IF ordered THEN Keys ELSE {0}
    OBVIOUS
  <2>3. n \in Nat
    BY SortAssumption
  <2> QED
    BY <2>1, <2>2, <2>3
<1>4. \A i \in 1 .. n : a[i] = <<keys[i], i>> /\ a[i] \in Int \X Nat /\ a[i][2] = i
  BY <1>3
<1>5. a \in [0 .. n + 1 -> Item] /\ a \in Arrays
  BY <1>3 DEF Item, Arrays
<1> HIDE DEF a
<1>6. /\ q.a = a /\ q.n = n /\ q.l = 1 /\ q.u = n /\ q.calls = <<>> /\ q.pc = "sort" /\ Len(q.calls) = 0
      /\ q.ordered = ordered
  BY <1>2 DEF a
<1>7. q \in [a : Arrays, n : Nat, l : Int, u : Int, i : Int, j : Int, calls : Seq(Seg), pc : Pcs,
             ordered : BOOLEAN]
  <2>1. <<>> \in Seq(Seg) /\ "sort" \in Pcs
    BY DEF Pcs
  <2>2. q = [a |-> a, n |-> n, l |-> 1, u |-> n, i |-> 0, j |-> 0, calls |-> <<>>, pc |-> "sort",
             ordered |-> ordered]
    BY <1>2 DEF a
  <2> QED
    BY <1>2, <1>3, <1>5, <2>1, <2>2
<1>8. Frame(q)
  BY <1>3, <1>5, <1>6, <1>7 DEF Frame, Typed
<1>9. Order(q)
  <2>1. \A k \in 1 .. q.n : q.a[k] \in Int \X Nat
    BY <1>4, <1>6
  <2>2. \A k \in 1 .. q.n : q.a[k][2] = k
    BY <1>4, <1>6
  <2>3. \A k, m \in 1 .. q.n : Together(q, k, m)
    BY <1>3, <1>6 DEF Together
  <2> QED
    BY <1>6, <2>1, <2>2, <2>3 DEF Order
<1> QED
  BY <1>6, <1>8, <1>9 DEF Inv

(* What is promised of the sort follows from the invariant. *)
LEMMA InvSorts == Inv(q) => Sorts
<1> SUFFICES ASSUME Inv(q) PROVE Sorts
  OBVIOUS
<1>1. /\ Frame(q) /\ Typed(q) /\ (q.ordered => Order(q))
      /\ q.n \in Nat /\ q.l \in Int /\ q.u \in Int /\ q.i \in Int /\ q.j \in Int
  BY Fields DEF Inv, Frame
<1>2. ASSUME q.ordered PROVE Whole
  <2>1. \A i \in 1 .. q.n : q.a[i] # Absent
    <3>1. \A i \in 1 .. q.n : q.a[i] \in Int \X Nat
      BY <1>1, <1>2 DEF Order
    <3>2. \A z \in Int \X Nat : z # <<>>
      OBVIOUS
    <3> QED
      BY <3>1, <3>2 DEF Absent
  <2>2. \A k \in 1 .. q.n : \E i \in 1 .. q.n : q.a[i][2] = k
    BY <1>1, <1>2 DEF Order
  <2> QED
    BY <2>1, <2>2 DEF Whole
<1>3. ASSUME q.ordered, q.pc = "up"
      PROVE  /\ \A k \in q.l .. q.i : q.a[k][1] <= PivotItem[1]
             /\ \A k \in q.j .. q.u : PivotItem[1] <= q.a[k][1]
  BY <1>3 DEF Inv, Up, P, K, PivotItem
<1>4. ASSUME q.ordered, q.pc = "done", NEW k \in 1 .. q.n - 1
      PROVE  q.a[k][1] <= q.a[k + 1][1]
  <2>1. k \in 1 .. q.n /\ k + 1 \in 1 .. q.n /\ k < k + 1
    BY <1>1
  <2>2. Len(q.calls) = 0
    BY <1>4 DEF Inv
  <2>3. ~Together(q, k, k + 1)
    BY <1>4, <2>2 DEF Together
  <2> QED
    BY <1>1, <1>4, <2>1, <2>3 DEF Order, K
<1>5. Sorted
  BY <1>2, <1>3, <1>4 DEF Sorted, Inv
<1>6. q.pc \in {"up", "down"} => q.i <= q.u + 1 /\ q.j >= q.l - 1
  BY <1>1 DEF Inv, Up, Down
<1>7. \A k \in 1 .. Len(q.calls) : 2 * Called(k) < q.calls[k].of /\ q.calls[k].of <= q.n
  BY <1>1 DEF Frame, SizeOf, Called
<1> QED
  BY <1>5, <1>6, <1>7 DEF Sorts, Bounded

(* Every array is sorted by an order, in calls of less than half the size      *)
(* each, and no answer of another comparison leads out of the segment by more   *)
(* than one.                                                                   *)
THEOREM SortsAlways == SortSpec => []Sorts
<1> DEFINE I == Inv(q)
<1>1. SortInit => I
  BY InitInv
<1>2. I /\ [SortNext]_q => I'
  <2> SUFFICES ASSUME Inv(q), [SortNext]_q PROVE Inv(q')
    OBVIOUS
  <2>1. CASE Outer
    BY <2>1, OuterInv
  <2>2. CASE Middle
    BY <2>2, MiddleInv
  <2>3. CASE SearchUp
    BY <2>3, SearchUpInv
  <2>4. CASE SearchDown
    BY <2>4, SearchDownInv
  <2>5. CASE UNCHANGED q
    BY <2>5
  <2> QED
    BY <2>1, <2>2, <2>3, <2>4, <2>5 DEF SortNext
<1>3. I => Sorts
  BY InvSorts
<1> QED
  BY <1>1, <1>2, <1>3, PTL DEF SortSpec
-----------------------------------------------------------------------------

(* The free list as luaL_unref builds it and luaL_ref takes it down: f lists   *)
(* the m free ones of the n places in use so far, the newest last.  RefsKept   *)
(* does not say of the table that following its numbers meets each free place  *)
(* once and ends with nil; this does.                                          *)
Top(m, f) == IF m = 0 THEN 0 ELSE f[m]
Listed(n, m, f) ==
  /\ live \subseteq 1 .. n
  /\ \A i \in 1 .. m : f[i] \notin live
  /\ \A i, j \in 1 .. m : f[i] = f[j] => i = j
  /\ \A r \in (1 .. n) \ live : \E i \in 1 .. m : f[i] = r
  /\ reftable[FreeList] = Top(m, f)
  /\ \A i \in 1 .. m : reftable[f[i]] = Top(i - 1, f)
  /\ \A r \in live : reftable[r] = -r
  /\ \A r \in 1 .. MaxRef : r > n => reftable[r] = 0

IInv ==
  /\ reftable \in [0 .. MaxRef -> Int]
  /\ \E n \in 0 .. MaxRef, m \in Nat : \E f \in [1 .. m -> 1 .. n] : Listed(n, m, f)

(* The program holds every place when the free list is empty, and then the     *)
(* length of the table is known.                                               *)
LEMMA OneBorder ==
  ASSUME NEW n \in 0 .. MaxRef, NEW f \in [1 .. 0 -> 1 .. n], Listed(n, 0, f),
         NEW border \in Borders
  PROVE  border = n /\ live = 1 .. n
<1> USE MaxRefAssumption
<1>1. live = 1 .. n
  <2>1. live \subseteq 1 .. n
    BY DEF Listed
  <2>2. \A r \in (1 .. n) \ live : \E i \in 1 .. 0 : f[i] = r
    BY DEF Listed
  <2>3. (1 .. n) \ live = {}
    BY <2>2
  <2> QED
    BY <2>1, <2>3
<1>2. \A r \in 1 .. n : reftable[r] # 0
  BY <1>1 DEF Listed
<1>3. \A r \in 1 .. MaxRef : r > n => reftable[r] = 0
  BY DEF Listed
<1>4. border \in 0 .. MaxRef /\ (border > 0 => reftable[border] # 0)
        /\ (border < MaxRef => reftable[border + 1] = 0)
  BY DEF Borders, Nil
<1>5. ~(border > n)
  BY <1>3, <1>4
<1>6. ~(border < n)
  BY <1>2, <1>4
<1> QED
  BY <1>1, <1>4, <1>5, <1>6

(* A new table has no place in use and none in the list.                     *)
LEMMA InitRefs == RefsInit => IInv
<1> USE MaxRefAssumption
<1> SUFFICES ASSUME RefsInit PROVE IInv
  OBVIOUS
<1>1. reftable \in [0 .. MaxRef -> Int]
  BY DEF RefsInit, Nil
<1> DEFINE f == [i \in 1 .. 0 |-> 0]
<1>2. f \in [1 .. 0 -> 1 .. 0]
  OBVIOUS
<1>3. Listed(0, 0, f)
  BY DEF Listed, RefsInit, Top, Nil, FreeList
<1> QED
  BY <1>1, <1>2, <1>3 DEF IInv

(* luaL_ref takes the newest free place off the list. *)
LEMMA RefTakes ==
  ASSUME IInv, NEW n \in 0 .. MaxRef, NEW m \in Nat, NEW f \in [1 .. m -> 1 .. n], Listed(n, m, f),
         m # 0, Ref
  PROVE  IInv'
<1> USE MaxRefAssumption DEF FreeList, ToInteger, Value
<1> DEFINE free == f[m]
           f2 == [i \in 1 .. m - 1 |-> f[i]]
<1>1. free \in 1 .. n /\ reftable[0] = free /\ free # 0
  BY DEF Listed, Top
<1>2. reftable \in [0 .. MaxRef -> Int]
  BY DEF IInv
<1>3. /\ reftable' = [[reftable EXCEPT ![0] = reftable[free]] EXCEPT ![free] = -free]
      /\ live' = live \cup {free}
  BY <1>1 DEF Ref
<1>4. reftable' \in [0 .. MaxRef -> Int]
  BY <1>1, <1>2, <1>3
<1>5. f2 \in [1 .. m - 1 -> 1 .. n] /\ m - 1 \in Nat
  OBVIOUS
<1>6. Listed(n, m - 1, f2)'
  <2>1. reftable[free] = Top(m - 1, f)
    BY DEF Listed
  <2>2. \A i \in 1 .. m - 1 : f[i] # free
    BY DEF Listed
  <2>3. (live \subseteq 1 .. n)'
    BY <1>1, <1>3 DEF Listed
  <2>4. \A i \in 1 .. m - 1 : f2[i] \notin live'
    BY <2>2, <1>3 DEF Listed
  <2>5. \A i, j \in 1 .. m - 1 : f2[i] = f2[j] => i = j
    BY DEF Listed
  <2>6. \A r \in (1 .. n) \ live' : \E i \in 1 .. m - 1 : f2[i] = r
    <3> SUFFICES ASSUME NEW r \in (1 .. n) \ live' PROVE \E i \in 1 .. m - 1 : f2[i] = r
      OBVIOUS
    <3>1. PICK i \in 1 .. m : f[i] = r
      BY <1>3 DEF Listed
    <3>2. i # m
      BY <3>1, <1>3
    <3> QED
      BY <3>1, <3>2
  <2>7. reftable'[0] = Top(m - 1, f2)
    BY <2>1, <1>1, <1>2, <1>3 DEF Top
  <2>8. \A i \in 1 .. m - 1 : reftable'[f2[i]] = Top(i - 1, f2)
    <3> SUFFICES ASSUME NEW i \in 1 .. m - 1 PROVE reftable'[f2[i]] = Top(i - 1, f2)
      OBVIOUS
    <3>1. f2[i] = f[i] /\ f[i] # free /\ f[i] # 0 /\ f[i] \in 0 .. MaxRef
      BY <2>2
    <3>2. reftable'[f[i]] = reftable[f[i]]
      BY <3>1, <1>2, <1>3
    <3>3. reftable[f[i]] = Top(i - 1, f)
      BY DEF Listed
    <3> QED
      BY <3>1, <3>2, <3>3 DEF Top
  <2>9. \A r \in live' : reftable'[r] = -r
    <3> SUFFICES ASSUME NEW r \in live' PROVE reftable'[r] = -r
      OBVIOUS
    <3>1. CASE r = free
      BY <3>1, <1>1, <1>2, <1>3
    <3>2. CASE r # free
      <4>1. r \in live /\ r \in 1 .. n
        BY <3>2, <1>3 DEF Listed
      <4> QED
        BY <4>1, <3>2, <1>1, <1>2, <1>3 DEF Listed
    <3> QED
      BY <3>1, <3>2
  <2>10. \A r \in 1 .. MaxRef : r > n => reftable'[r] = 0
    BY <1>1, <1>2, <1>3 DEF Listed
  <2> QED
    BY <2>3, <2>4, <2>5, <2>6, <2>7, <2>8, <2>9, <2>10 DEF Listed
<1> QED
  BY <1>4, <1>5, <1>6 DEF IInv

(* Without a free place luaL_ref takes the one behind the last. *)
LEMMA RefExtends ==
  ASSUME IInv, NEW n \in 0 .. MaxRef, NEW f \in [1 .. 0 -> 1 .. n], Listed(n, 0, f), Ref
  PROVE  IInv'
<1> USE MaxRefAssumption DEF FreeList, ToInteger, Value
<1>1. reftable[0] = 0
  BY DEF Listed, Top
<1>2. PICK border \in Borders :
        /\ border + 1 <= MaxRef
        /\ reftable' = [reftable EXCEPT ![border + 1] = -(border + 1)]
        /\ live' = live \cup {border + 1}
  BY <1>1 DEF Ref
<1>3. border = n /\ live = 1 .. n
  BY OneBorder
<1>4. reftable \in [0 .. MaxRef -> Int]
  BY DEF IInv
<1>5. n + 1 \in 0 .. MaxRef /\ live' = 1 .. n + 1
  BY <1>2, <1>3
<1>6. reftable' = [reftable EXCEPT ![n + 1] = -(n + 1)]
  BY <1>2, <1>3
<1> DEFINE f2 == [i \in 1 .. 0 |-> 0]
<1>7. f2 \in [1 .. 0 -> 1 .. n + 1]
  OBVIOUS
<1>8. Listed(n + 1, 0, f2)'
  <2>1. \A r \in live' : reftable'[r] = -r
    <3> SUFFICES ASSUME NEW r \in live' PROVE reftable'[r] = -r
      OBVIOUS
    <3>1. CASE r = n + 1
      BY <3>1, <1>4, <1>5, <1>6
    <3>2. CASE r # n + 1
      BY <3>2, <1>3, <1>4, <1>5, <1>6 DEF Listed
    <3> QED
      BY <3>1, <3>2
  <2>2. reftable'[0] = 0
    BY <1>1, <1>4, <1>5, <1>6
  <2>3. \A r \in 1 .. MaxRef : r > n + 1 => reftable'[r] = 0
    BY <1>4, <1>5, <1>6 DEF Listed
  <2> QED
    BY <2>1, <2>2, <2>3, <1>5 DEF Listed, Top
<1>9. reftable' \in [0 .. MaxRef -> Int]
  BY <1>4, <1>5, <1>6
<1> QED
  BY <1>5, <1>7, <1>8, <1>9 DEF IInv

(* luaL_unref puts the place on top of the list. *)
LEMMA UnrefPuts ==
  ASSUME IInv, NEW n \in 0 .. MaxRef, NEW m \in Nat, NEW f \in [1 .. m -> 1 .. n], Listed(n, m, f),
         NEW ref \in live, reftable' = Release(ref), live' = live \ {ref}
  PROVE  IInv'
<1> USE MaxRefAssumption DEF FreeList
<1> DEFINE f2 == [i \in 1 .. m + 1 |-> IF i = m + 1 THEN ref ELSE f[i]]
<1>1. ref \in 1 .. n
  BY DEF Listed
<1>2. reftable \in [0 .. MaxRef -> Int]
  BY DEF IInv
<1>3. reftable' = [reftable EXCEPT ![0] = ref, ![ref] = reftable[0]]
  BY DEF Release
<1>4. /\ reftable' \in [0 .. MaxRef -> Int]
      /\ reftable'[0] = ref /\ reftable'[ref] = reftable[0]
      /\ \A r \in 1 .. MaxRef : r # ref => reftable'[r] = reftable[r]
  BY <1>1, <1>2, <1>3
<1>5. f2 \in [1 .. m + 1 -> 1 .. n] /\ m + 1 \in Nat
  BY <1>1
<1>6. \A i \in 1 .. m : f2[i] = f[i] /\ f[i] # ref /\ f[i] \in 1 .. MaxRef
  BY DEF Listed
<1>7. f2[m + 1] = ref
  OBVIOUS
<1> HIDE DEF f2
<1>8. Listed(n, m + 1, f2)'
  <2>1. \A i \in 1 .. m + 1 : f2[i] \notin live'
    BY <1>6, <1>7 DEF Listed
  <2>2. \A i, j \in 1 .. m + 1 : f2[i] = f2[j] => i = j
    <3>1. \A i, j \in 1 .. m : f[i] = f[j] => i = j
      BY DEF Listed
    <3>2. \A i \in 1 .. m + 1 : i \in 1 .. m \/ i = m + 1
      OBVIOUS
    <3> QED
      BY <1>6, <1>7, <3>1, <3>2
  <2>3. \A r \in (1 .. n) \ live' : \E i \in 1 .. m + 1 : f2[i] = r
    <3> SUFFICES ASSUME NEW r \in (1 .. n) \ live' PROVE \E i \in 1 .. m + 1 : f2[i] = r
      OBVIOUS
    <3>1. CASE r = ref
      BY <3>1, <1>7
    <3>2. CASE r # ref
      <4>1. PICK i \in 1 .. m : f[i] = r
        BY <3>2 DEF Listed
      <4> QED
        BY <4>1, <1>6
    <3> QED
      BY <3>1, <3>2
  <2>4. \A i \in 1 .. m + 1 : reftable'[f2[i]] = Top(i - 1, f2)
    <3> SUFFICES ASSUME NEW i \in 1 .. m + 1 PROVE reftable'[f2[i]] = Top(i - 1, f2)
      OBVIOUS
    <3>1. CASE i = m + 1
      BY <3>1, <1>4, <1>6, <1>7 DEF Listed, Top
    <3>2. CASE i # m + 1
      <4>1. i \in 1 .. m
        BY <3>2
      <4>2. reftable'[f[i]] = reftable[f[i]]
        BY <4>1, <1>4, <1>6
      <4>3. reftable[f[i]] = Top(i - 1, f)
        BY <4>1 DEF Listed
      <4> QED
        BY <4>1, <4>2, <4>3, <1>6 DEF Top
    <3> QED
      BY <3>1, <3>2
  <2>5. \A r \in live' : reftable'[r] = -r
    <3> SUFFICES ASSUME NEW r \in live' PROVE reftable'[r] = -r
      OBVIOUS
    <3>1. r \in live /\ r # ref /\ r \in 1 .. MaxRef
      BY DEF Listed
    <3> QED
      BY <3>1, <1>4 DEF Listed
  <2>6. \A r \in 1 .. MaxRef : r > n => reftable'[r] = 0
    BY <1>1, <1>4 DEF Listed
  <2>7. reftable'[0] = Top(m + 1, f2)
    BY <1>4, <1>7 DEF Top
  <2>8. live' \subseteq 1 .. n
    BY DEF Listed
  <2> QED
    BY <2>1, <2>2, <2>3, <2>4, <2>5, <2>6, <2>7, <2>8 DEF Listed
<1> QED
  BY <1>4, <1>5, <1>8 DEF IInv

(* Taking and releasing keep the list whole.                                 *)
LEMMA StepRefs == IInv /\ [RefsNext]_refvars => IInv'
<1> SUFFICES ASSUME IInv, [RefsNext]_refvars PROVE IInv'
  OBVIOUS
<1>1. PICK n \in 0 .. MaxRef, m \in Nat : \E f \in [1 .. m -> 1 .. n] : Listed(n, m, f)
  BY DEF IInv
<1>2. PICK f \in [1 .. m -> 1 .. n] : Listed(n, m, f)
  BY <1>1
<1>3. CASE Ref /\ m = 0
  BY <1>2, <1>3, RefExtends
<1>4. CASE Ref /\ m # 0
  BY <1>2, <1>4, RefTakes
<1>5. CASE Unref
  BY <1>2, <1>5, UnrefPuts DEF Unref
<1>6. CASE UNCHANGED refvars
  <2>1. reftable' = reftable /\ live' = live
    BY <1>6 DEF refvars
  <2>2. Listed(n, m, f)'
    BY <1>2, <2>1 DEF Listed
  <2> QED
    BY <2>1, <2>2 DEF IInv
<1> QED
  BY <1>3, <1>4, <1>5, <1>6 DEF RefsNext

(* luaL_ref and luaL_unref keep the free list whole, in every behaviour.       *)
THEOREM RefsInvariance == RefsSpec => []IInv
BY InitRefs, StepRefs, PTL DEF RefsSpec

(* A reference is of one value and is handed out to one holder at a time, and  *)
(* no reference is made in a hole, however many there are and in whatever      *)
(* order they are released (luaL_ref, luaL_unref).                             *)
THEOREM RefsKeptAlways == RefsSpec => []RefsKept
<1>1. IInv => RefsKept
  <2> SUFFICES ASSUME IInv PROVE RefsKept
    OBVIOUS
  <2> USE MaxRefAssumption DEF FreeList, Value
  <2>1. PICK n \in 0 .. MaxRef, m \in Nat : \E f \in [1 .. m -> 1 .. n] : Listed(n, m, f)
    BY DEF IInv
  <2>2. PICK f \in [1 .. m -> 1 .. n] : Listed(n, m, f)
    BY <2>1
  <2>3. \A r \in live : reftable[r] = -r
    BY <2>2 DEF Listed
  <2>4. \A r \in 1 .. MaxRef : reftable[r] < 0 => r \in live
    <3> SUFFICES ASSUME NEW r \in 1 .. MaxRef, reftable[r] < 0, r \notin live PROVE FALSE
      OBVIOUS
    <3>1. r <= n
      BY <2>2 DEF Listed
    <3>2. PICK i \in 1 .. m : f[i] = r
      BY <2>2, <3>1 DEF Listed
    <3>3. reftable[r] = Top(i - 1, f)
      BY <2>2, <3>2 DEF Listed
    <3>4. Top(i - 1, f) \in Nat
      <4>1. i - 1 = 0 \/ i - 1 \in 1 .. m
        OBVIOUS
      <4> QED
        BY <4>1 DEF Top
    <3> QED
      BY <3>3, <3>4
  <2>5. reftable[0] = Top(m, f) /\ Top(m, f) >= 0 /\ Top(m, f) \notin live
    BY <2>2 DEF Listed, Top
  <2>6. reftable[0] = 0 => \A b \in Borders : live = 1 .. b
    <3> SUFFICES ASSUME reftable[0] = 0, NEW b \in Borders PROVE live = 1 .. b
      OBVIOUS
    <3>1. m = 0
      BY <2>5 DEF Top
    <3> QED
      BY <2>2, <3>1, OneBorder
  <2> QED
    BY <2>3, <2>4, <2>5, <2>6 DEF RefsKept
<1> QED
  BY <1>1, RefsInvariance, PTL

-----------------------------------------------------------------------------
(* Coroutines.                                                                 *)

States == {"none", "suspended", "running", "normal", "dead"}
Active(c) == state[c] \in {"running", "normal"}

(* Control is with one thread, and whoever it came from waits: a coroutine    *)
(* that runs has somebody to go back to, whatever was resumed before.         *)
OneRuns ==
  /\ \E r \in Thread : \A c \in Thread : state[c] = "running" <=> c = r
  /\ \A c \in Thread : c # Main /\ Active(c) => state[resumer[c]] = "normal"

(* No two coroutines wait to go back to the same thread, and Main never ends. *)
CInv ==
  /\ state \in [Thread -> States]
  /\ resumer \in [Thread -> Thread]
  /\ OneRuns
  /\ Active(Main)
  /\ \A c, d \in Thread \ {Main} : Active(c) /\ Active(d) /\ resumer[c] = resumer[d] => c = d

(* Main runs alone at first. *)
LEMMA InitCInv ==
  ASSUME Main \in Thread, CInit
  PROVE  CInv
BY DEF CInit, CInv, OneRuns, Active, States

(* A thread that is created is suspended, and takes no part. *)
LEMMA CreateKeeps ==
  ASSUME Main \in Thread, CInv, NEW c \in Thread, Create(c)
  PROVE  CInv'
<1>1. state' \in [Thread -> States] /\ resumer' = resumer
  BY DEF Create, CInv, States
<1>2. \A d \in Thread : (state[d] \in {"running", "normal"} \/ state'[d] \in {"running", "normal"}) => state'[d] = state[d]
  BY DEF Create, CInv
<1>3. OneRuns'
  <2>1. PICK r \in Thread : \A d \in Thread : state[d] = "running" <=> d = r
    BY DEF CInv, OneRuns
  <2>2. \A d \in Thread : state'[d] = "running" <=> d = r
    BY <2>1, <1>2
  <2>3. \A d \in Thread : d # Main /\ Active(d)' => state'[resumer'[d]] = "normal"
    BY <1>1, <1>2 DEF CInv, OneRuns, Active
  <2> QED
    BY <2>2, <2>3 DEF OneRuns
<1> QED
  BY <1>1, <1>2, <1>3 DEF CInv, Active

(* r, which runs, comes to wait for c: r was nobody's resumer, since it ran. *)
LEMMA ResumeKeeps ==
  ASSUME Main \in Thread, CInv, NEW r \in Thread, NEW c \in Thread, Resume(r, c)
  PROVE  CInv'
<1>1. /\ state[r] = "running" /\ state[c] = "suspended" /\ r # c /\ c # Main
      /\ state'[r] = "normal" /\ state'[c] = "running"
      /\ \A d \in Thread \ {r, c} : state'[d] = state[d]
      /\ resumer'[c] = r /\ \A d \in Thread \ {c} : resumer'[d] = resumer[d]
      /\ state' \in [Thread -> States] /\ resumer' \in [Thread -> Thread]
  BY DEF Resume, CInv, States, Active
<1>2. \A d \in Thread : state[d] = "running" <=> d = r
  BY <1>1 DEF CInv, OneRuns
<1>3. \A d \in Thread : d # Main /\ Active(d) => resumer[d] \in Thread \ {r, c} /\ state[resumer[d]] = "normal"
  BY <1>1 DEF CInv, OneRuns
<1>4. \A d \in Thread : Active(d)' <=> Active(d) \/ d = c
  BY <1>1 DEF Active
<1>5. \A d \in Thread : d # Main /\ Active(d)' => state'[resumer'[d]] = "normal"
  BY <1>1, <1>3, <1>4
<1>6. \A d \in Thread : state'[d] = "running" <=> d = c
  BY <1>1, <1>2
<1>7. \A d, e \in Thread \ {Main} : Active(d)' /\ Active(e)' /\ resumer'[d] = resumer'[e] => d = e
  BY <1>1, <1>3, <1>4 DEF CInv
<1> QED
  BY <1>1, <1>4, <1>5, <1>6, <1>7 DEF CInv, OneRuns

(* The thread that waits for c goes on, and nobody else waited for it. *)
LEMMA LeaveKeeps ==
  ASSUME Main \in Thread, CInv, NEW c \in Thread, NEW as \in {"suspended", "dead"}, Leave(c, as)
  PROVE  CInv'
<1> DEFINE r == resumer[c]
<1>1. /\ state[c] = "running" /\ c # Main /\ r \in Thread /\ state[r] = "normal" /\ r # c
      /\ state'[c] = as /\ state'[r] = "running"
      /\ \A d \in Thread \ {r, c} : state'[d] = state[d]
      /\ \A d \in Thread \ {c} : resumer'[d] = resumer[d]
      /\ state' \in [Thread -> States] /\ resumer' \in [Thread -> Thread]
  BY DEF Leave, CInv, States
<1>2. \A d \in Thread : state[d] = "running" <=> d = c
  BY <1>1 DEF CInv, OneRuns
<1>3. \A d \in Thread : Active(d)' <=> Active(d) /\ d # c
  BY <1>1 DEF Active
<1>4. \A d \in Thread \ {c} : d # Main /\ Active(d) =>
        resumer[d] \in Thread \ {r, c} /\ state[resumer[d]] = "normal"
  BY <1>1 DEF CInv, OneRuns, Active
<1>5. \A d \in Thread : d # Main /\ Active(d)' => state'[resumer'[d]] = "normal"
  BY <1>1, <1>3, <1>4
<1>6. \A d \in Thread : state'[d] = "running" <=> d = r
  BY <1>1, <1>2
<1>7. \A d, e \in Thread \ {Main} : Active(d)' /\ Active(e)' /\ resumer'[d] = resumer'[e] => d = e
  BY <1>1, <1>3 DEF CInv
<1>8. Active(Main)'
  BY <1>1, <1>3 DEF CInv
<1> QED
  BY <1>1, <1>5, <1>6, <1>7, <1>8 DEF CInv, OneRuns

(* What is lost was suspended, and takes no part either. *)
LEMMA LoseKeeps ==
  ASSUME Main \in Thread, CInv, NEW c \in Thread, Lose(c)
  PROVE  CInv'
<1>1. state' \in [Thread -> States] /\ resumer' = resumer
  BY DEF Lose, CInv, States
<1>2. \A d \in Thread : (state[d] \in {"running", "normal"} \/ state'[d] \in {"running", "normal"}) => state'[d] = state[d]
  BY DEF Lose, CInv
<1>3. OneRuns'
  <2>1. PICK r \in Thread : \A d \in Thread : state[d] = "running" <=> d = r
    BY DEF CInv, OneRuns
  <2>2. \A d \in Thread : state'[d] = "running" <=> d = r
    BY <2>1, <1>2
  <2>3. \A d \in Thread : d # Main /\ Active(d)' => state'[resumer'[d]] = "normal"
    BY <1>1, <1>2 DEF CInv, OneRuns, Active
  <2> QED
    BY <2>2, <2>3 DEF OneRuns
<1> QED
  BY <1>1, <1>2, <1>3 DEF CInv, Active

(* One thread runs at any time, and the one it goes back to waits for it alone: *)
(* what resume, yield, ends and errors of lua/src/ldo.c leave a program to see. *)
THEOREM OneRunsAlways ==
  ASSUME Main \in Thread
  PROVE  CSpec => []OneRuns
<1>1. CInit => CInv
  BY InitCInv
<1>2. CInv /\ [CNext]_cvars => CInv'
  <2> SUFFICES ASSUME CInv, [CNext]_cvars PROVE CInv'
    OBVIOUS
  <2>1. CASE CNext
    BY <2>1, CreateKeeps, ResumeKeeps, LeaveKeeps, LoseKeeps DEF CNext
  <2>2. CASE UNCHANGED cvars
    BY <2>2 DEF cvars, CInv, OneRuns, Active
  <2> QED
    BY <2>1, <2>2
<1>3. CInv => OneRuns
  BY DEF CInv
<1> QED
  BY <1>1, <1>2, <1>3, PTL DEF CSpec

-----------------------------------------------------------------------------
(* A set with 0 and every successor has every number.                         *)
LEMMA NatSetInduction ==
  ASSUME NEW S, 0 \in S, \A n \in Nat : n \in S => n + 1 \in S
  PROVE  Nat \subseteq S
<1> SUFFICES ASSUME Nat \ S # {} PROVE FALSE
  OBVIOUS
<1> DEFINE R == {p \in Nat \X Nat : p[1] < p[2]}
<1>1. IsWellFoundedOn(R, Nat)
  BY NatLessThanWellFounded DEF OpToRel
<1>2. PICK n \in Nat \ S : \A m \in Nat \ S : <<m, n>> \notin R
  <2> HIDE DEF R
  <2> QED BY <1>1, WFMin
<1>3. \A m \in Nat \ S : ~(m < n)
  BY <1>2
<1> QED BY <1>3, n - 1 \in Nat

-----------------------------------------------------------------------------
(* Buffers: strings put behind each other.                                     *)
Strings(C) == Seq(Seq(C))

(* f[i] is the first i strings of u together.                                  *)
Joined(u, f) ==
  \A i \in 1 .. Len(u) : f[i] = IF i = 1 THEN u[i] ELSE f[i - 1] \o u[i]

(* The first m strings of u and v are the same; f and f2 join them to the same. *)
Agree(u, v, m) == m \in Nat /\ m <= Len(u) /\ m <= Len(v) /\ \A i \in 1 .. m : u[i] = v[i]
Same(C, f, f2, m) == \A i \in 1 .. m : f[i] = f2[i] /\ f[i] \in Seq(C)

(* Strings can be joined one after another. *)
LEMMA JoinedExists ==
  ASSUME NEW u, NEW n \in Nat
  PROVE  \E f : f = [i \in 1 .. n |-> IF i = 1 THEN u[i] ELSE f[i - 1] \o u[i]]
<1> DEFINE Is(f, j) == f = [i \in 1 .. j |-> IF i = 1 THEN u[i] ELSE f[i - 1] \o u[i]]
           S == {j \in Nat : \E f : Is(f, j)}
<1>1. 0 \in S
  <2> DEFINE f == [i \in 1 .. 0 |-> 0]
  <2>1. Is(f, 0)
    OBVIOUS
  <2> QED BY <2>1
<1>2. ASSUME NEW j \in Nat, j \in S PROVE j + 1 \in S
  <2>1. PICK f : Is(f, j)
    BY <1>2
  <2> DEFINE f2 == [i \in 1 .. j + 1 |-> IF i = 1 THEN u[i] ELSE f[i - 1] \o u[i]]
  <2>2. \A i \in 1 .. j : f[i] = IF i = 1 THEN u[i] ELSE f[i - 1] \o u[i]
    BY <2>1
  <2>3. \A i \in 1 .. j + 1 : i # 1 => i - 1 \in 1 .. j
    OBVIOUS
  <2>4. \A i \in 1 .. j : i \in 1 .. j + 1
    OBVIOUS
  <2>5. \A i \in 1 .. j : f2[i] = f[i]
    BY <2>2, <2>4
  <2>6. Is(f2, j + 1)
    <3> SUFFICES f2 = [i \in 1 .. j + 1 |-> IF i = 1 THEN u[i] ELSE f2[i - 1] \o u[i]]
      OBVIOUS
    <3> QED BY <2>3, <2>5
  <2>7. j + 1 \in Nat
    OBVIOUS
  <2> HIDE DEF f2, Is
  <2> QED BY <2>6, <2>7
<1> HIDE DEF S
<1>3. Nat \subseteq S
  BY <1>1, <1>2, NatSetInduction
<1> QED BY <1>3 DEF S

(* FlattenSeq joins them so. *)
LEMMA FlattenJoins ==
  ASSUME NEW C, NEW u \in Strings(C), u # <<>>
  PROVE  \E f : Joined(u, f) /\ FlattenSeq(u) = f[Len(u)]
<1> DEFINE n == Len(u)
           f == CHOOSE f2 : f2 = [i \in 1 .. n |-> IF i = 1 THEN u[i] ELSE f2[i - 1] \o u[i]]
<1>1. n \in Nat /\ n # 0
  BY DEF Strings
<1>2. f = [i \in 1 .. n |-> IF i = 1 THEN u[i] ELSE f[i - 1] \o u[i]]
  <2> HIDE DEF n
  <2> QED BY <1>1, JoinedExists
<1>3. FlattenSeq(u) = f[n]
  BY <1>1, ZenonT(30) DEF FlattenSeq
<1> HIDE DEF f
<1>4. Joined(u, f)
  BY <1>2 DEF Joined
<1> QED BY <1>3, <1>4

(* There is one way to join them, and it makes a string. *)
LEMMA JoinedOnce ==
  ASSUME NEW C, NEW u \in Strings(C), NEW v \in Strings(C), NEW m, Agree(u, v, m),
         NEW f, Joined(u, f), NEW f2, Joined(v, f2)
  PROVE  Same(C, f, f2, m)
<1> DEFINE S == {j \in Nat : j < m => f[j + 1] = f2[j + 1] /\ f[j + 1] \in Seq(C)}
<1>0. /\ Len(u) \in Nat /\ Len(v) \in Nat /\ m \in Nat
      /\ \A i \in 1 .. m : u[i] \in Seq(C) /\ u[i] = v[i] /\ i \in 1 .. Len(u) /\ i \in 1 .. Len(v)
  BY DEF Strings, Agree
<1>1. 0 \in S
  <2> SUFFICES ASSUME 0 < m PROVE f[1] = f2[1] /\ f[1] \in Seq(C)
    OBVIOUS
  <2>1. 1 \in 1 .. m
    BY <1>0
  <2>2. f[1] = u[1] /\ f2[1] = v[1]
    BY <1>0, <2>1 DEF Joined
  <2> QED BY <1>0, <2>1, <2>2
<1>2. ASSUME NEW j \in Nat, j \in S PROVE j + 1 \in S
  <2> SUFFICES ASSUME j + 1 < m PROVE f[(j + 1) + 1] = f2[(j + 1) + 1] /\ f[(j + 1) + 1] \in Seq(C)
    OBVIOUS
  <2> DEFINE i == (j + 1) + 1
  <2>1. i \in 1 .. m /\ i # 1 /\ i - 1 = j + 1 /\ j < m
    BY <1>0
  <2>2. f[j + 1] = f2[j + 1] /\ f[j + 1] \in Seq(C)
    BY <1>2, <2>1
  <2> HIDE DEF i
  <2>3. f[i] = f[i - 1] \o u[i] /\ f2[i] = f2[i - 1] \o v[i]
    BY <1>0, <2>1 DEF Joined
  <2>4. f[i - 1] = f2[i - 1] /\ f[i - 1] \in Seq(C) /\ u[i] = v[i] /\ u[i] \in Seq(C)
    BY <1>0, <2>1, <2>2
  <2>5. f[i] = f2[i] /\ f[i] \in Seq(C)
    BY <2>3, <2>4, ConcatProperties
  <2> QED BY <2>5 DEF i
<1> HIDE DEF S
<1>3. Nat \subseteq S
  BY <1>1, <1>2, NatSetInduction
<1>4. \A i \in 1 .. m : i - 1 \in Nat /\ (i - 1) + 1 = i /\ i - 1 < m
  BY <1>0
<1> QED BY <1>0, <1>3, <1>4 DEF S, Same

(* The strings joined are a string. *)
LEMMA FlattenType ==
  ASSUME NEW C, NEW u \in Strings(C)
  PROVE  FlattenSeq(u) \in Seq(C) /\ FlattenSeq(<<>>) = <<>>
<1>1. FlattenSeq(<<>>) = <<>>
  BY DEF FlattenSeq
<1>2. CASE u = <<>>
  <2>1. <<>> \in Seq(C)
    BY EmptySeq
  <2> QED BY <1>1, <1>2, <2>1
<1>3. CASE u # <<>>
  <2>1. PICK f : Joined(u, f) /\ FlattenSeq(u) = f[Len(u)]
    BY <1>3, FlattenJoins
  <2>2. Len(u) \in Nat /\ Len(u) \in 1 .. Len(u)
    BY <1>3 DEF Strings
  <2>3. Agree(u, u, Len(u))
    BY <2>2 DEF Agree
  <2>4. Same(C, f, f, Len(u))
    BY <2>1, <2>3, JoinedOnce
  <2> QED BY <1>1, <2>1, <2>2, <2>4 DEF Same
<1> QED BY <1>2, <1>3

(* It does not matter in what order strings are joined. *)
LEMMA ThreeJoined ==
  ASSUME NEW a \in Seq(Nat), NEW b \in Seq(Nat), NEW c \in Seq(Nat)
  PROVE  (a \o b) \o c = a \o (b \o c)
BY ConcatAssociative

(* One more string comes behind the others. *)
LEMMA FlattenAppend ==
  ASSUME NEW C, NEW u \in Strings(C), NEW e \in Seq(C)
  PROVE  Append(u, e) \in Strings(C) /\ FlattenSeq(Append(u, e)) = FlattenSeq(u) \o e
<1> DEFINE v == Append(u, e)
           n == Len(u)
<1>1. /\ v \in Strings(C) /\ v # <<>> /\ Len(v) = n + 1 /\ n \in Nat /\ v[n + 1] = e
      /\ \A i \in 1 .. n : v[i] = u[i]
  BY AppendProperties, LenProperties DEF Strings
<1> HIDE DEF v
<1>2. PICK f : Joined(v, f) /\ FlattenSeq(v) = f[n + 1]
  BY <1>1, FlattenJoins
<1>3. f[n + 1] = IF n + 1 = 1 THEN e ELSE f[(n + 1) - 1] \o e
  BY <1>1, <1>2 DEF Joined
<1>4. CASE n = 0
  <2>1. u = <<>>
    BY <1>4 DEF Strings
  <2>2. FlattenSeq(v) = e
    BY <1>2, <1>3, <1>4
  <2> QED BY <1>1, <2>1, <2>2, FlattenType, ConcatEmptySeq DEF v
<1>5. CASE n # 0
  <2>1. u # <<>> /\ n \in 1 .. n
    BY <1>1, <1>5
  <2>2. PICK f2 : Joined(u, f2) /\ FlattenSeq(u) = f2[n]
    BY <2>1, FlattenJoins
  <2>3. f2[n] = f[n]
    <3>1. Agree(u, v, n)
      BY <1>1 DEF Agree
    <3> HIDE DEF n
    <3>2. Same(C, f2, f, n)
      BY <1>1, <1>2, <2>2, <3>1, JoinedOnce
    <3> QED BY <2>1, <3>2 DEF Same
  <2>4. f[n + 1] = f[n] \o e
    BY <1>1, <1>3, <1>5
  <2> QED BY <1>1, <1>2, <2>2, <2>3, <2>4 DEF v
<1> QED BY <1>4, <1>5

(* The strings up to k joined, and those behind, are all joined. *)
LEMMA FlattenSplit ==
  ASSUME NEW C, NEW u \in Strings(C), NEW k \in 0 .. Len(u)
  PROVE  /\ SubSeq(u, 1, k) \in Strings(C) /\ SubSeq(u, k + 1, Len(u)) \in Strings(C)
         /\ FlattenSeq(u) = FlattenSeq(SubSeq(u, 1, k)) \o FlattenSeq(SubSeq(u, k + 1, Len(u)))
<1> DEFINE n == Len(u)
           Here(j) == FlattenSeq(SubSeq(u, 1, k + j)) = FlattenSeq(SubSeq(u, 1, k)) \o FlattenSeq(SubSeq(u, k + 1, k + j))
           S == {j \in Nat : k + j <= n => Here(j)}
<1>1. n \in Nat /\ \A i \in 1 .. n : u[i] \in Seq(C)
  BY DEF Strings
<1>2. \A a, b \in Nat : 1 <= a /\ b <= n => SubSeq(u, a, b) \in Strings(C)
  <2> SUFFICES ASSUME NEW a \in Nat, NEW b \in Nat, 1 <= a, b <= n PROVE SubSeq(u, a, b) \in Strings(C)
    OBVIOUS
  <2>1. \A i \in a .. b : u[i] \in Seq(C)
    BY <1>1
  <2>2. a \in Int /\ b \in Int
    OBVIOUS
  <2> QED BY <2>1, <2>2, SubSeqProperties DEF Strings
<1>3. \A a, b \in Nat : 1 <= a /\ a <= b + 1 /\ b + 1 <= n => SubSeq(u, a, b + 1) = Append(SubSeq(u, a, b), u[b + 1])
  <2> SUFFICES ASSUME NEW a \in Nat, NEW b \in Nat, 1 <= a, a <= b + 1, b + 1 <= n
               PROVE  SubSeq(u, a, b + 1) = Append(SubSeq(u, a, b), u[b + 1])
    OBVIOUS
  <2>1. a \in 1 .. Len(u) /\ b + 1 \in a .. Len(u) /\ (b + 1) - 1 = b /\ u \in Seq(Seq(C)) /\ u[b + 1] \in Seq(C)
    BY <1>1 DEF Strings
  <2>2. SubSeq(u, a, b + 1) = SubSeq(u, a, (b + 1) - 1) \o <<u[b + 1]>>
    BY <2>1, SubSeqRecursiveSecond
  <2>3. SubSeq(u, a, b) \in Seq(Seq(C))
    BY <1>2, <2>1 DEF Strings
  <2>4. Append(SubSeq(u, a, b), u[b + 1]) = SubSeq(u, a, b) \o <<u[b + 1]>>
    BY <2>1, <2>3, AppendIsConcat
  <2> QED BY <2>1, <2>2, <2>4
<1>4. 0 \in S
  <2>1. SubSeq(u, k + 1, k + 0) = <<>> /\ k + 0 = k
    BY SubSeqEmpty
  <2>2. SubSeq(u, 1, k) \in Strings(C)
    BY <1>1, <1>2
  <2>3. FlattenSeq(SubSeq(u, 1, k)) \in Seq(C) /\ FlattenSeq(<<>>) = <<>>
    BY <2>2, FlattenType
  <2>4. FlattenSeq(SubSeq(u, 1, k)) \o <<>> = FlattenSeq(SubSeq(u, 1, k))
    BY <2>3, ConcatEmptySeq
  <2>5. Here(0)
    BY <2>1, <2>3, <2>4
  <2> QED BY <2>5
<1>5. ASSUME NEW j \in Nat, j \in S PROVE j + 1 \in S
  <2> SUFFICES ASSUME k + (j + 1) <= n PROVE Here(j + 1)
    OBVIOUS
  <2> DEFINE e == u[(k + j) + 1]
             a == SubSeq(u, 1, k)
             b == SubSeq(u, k + 1, k + j)
             c == SubSeq(u, 1, k + j)
  <2>1. k + (j + 1) = (k + j) + 1 /\ k + j <= n /\ k + j \in Nat /\ (k + j) + 1 \in 1 .. n /\ k + 1 <= (k + j) + 1 /\ k \in Nat
        /\ k + 1 \in Nat /\ 1 <= k + 1 /\ k <= n
    BY <1>1
  <2>2. FlattenSeq(c) = FlattenSeq(a) \o FlattenSeq(b)
    BY <1>5, <2>1
  <2>3. a \in Strings(C) /\ b \in Strings(C) /\ c \in Strings(C) /\ e \in Seq(C)
    BY <1>1, <1>2, <2>1
  <2>4. SubSeq(u, 1, (k + j) + 1) = Append(c, e) /\ SubSeq(u, k + 1, (k + j) + 1) = Append(b, e)
    BY <1>3, <2>1
  <2> HIDE DEF a, b, c, e
  <2>5. FlattenSeq(Append(c, e)) = FlattenSeq(c) \o e /\ FlattenSeq(Append(b, e)) = FlattenSeq(b) \o e
    BY <2>3, FlattenAppend
  <2>6. FlattenSeq(a) \in Seq(C) /\ FlattenSeq(b) \in Seq(C)
    BY <2>3, FlattenType
  <2>7. (FlattenSeq(a) \o FlattenSeq(b)) \o e = FlattenSeq(a) \o (FlattenSeq(b) \o e)
    BY <2>3, <2>6, ConcatAssociative
  <2>8. FlattenSeq(SubSeq(u, 1, (k + j) + 1)) = FlattenSeq(a) \o FlattenSeq(SubSeq(u, k + 1, (k + j) + 1))
    BY <2>2, <2>4, <2>5, <2>7
  <2> QED BY <2>1, <2>8 DEF a
<1> HIDE DEF S, Here
<1>6. Nat \subseteq S
  BY <1>4, <1>5, NatSetInduction
<1>7. n - k \in Nat /\ k + (n - k) = n
  BY <1>1
<1>8. Here(n - k)
  BY <1>6, <1>7 DEF S
<1>9. SubSeq(u, 1, n) = u
  BY SubSeqFull DEF Strings
<1>10. SubSeq(u, 1, k) \in Strings(C) /\ SubSeq(u, k + 1, n) \in Strings(C)
  BY <1>1, <1>2
<1> QED BY <1>7, <1>8, <1>9, <1>10 DEF Here

-----------------------------------------------------------------------------
(* What a buffer holds, and the numbers of the characters that were added.     *)
Content(b) == FlattenSeq(b.lvl) \o b.p
Upto(n) == [k \in 1 .. n |-> k]
BufferType(b) == b \in [p : Seq(Nat), lvl : Strings(Nat), added : Nat, peak : Nat, pc : {"open", "done"}]

(* The levels are below the limit, and the stack was never more than two above. *)
Low(b) == Len(b.lvl) < Limit /\ b.peak <= Limit + 1
BufferInv ==
  /\ BufferType(buff)
  /\ Content(buff) = Upto(buff.added)
  /\ buff.pc = "done" => Len(buff.lvl) = 1
  /\ Len(buff.p) <= BufferSize
  /\ Low(buff)

(* c is b with other strings: in the same state, with the same number added. *)
SameCount(b, c) == BufferType(c) /\ c.added = b.added /\ c.pc = b.pc

(* High notes how high the stack is, and nothing else. *)
LEMMA HighHeld ==
  ASSUME NEW b, BufferType(b)
  PROVE  /\ SameCount(b, High(b)) /\ High(b).p = b.p /\ High(b).lvl = b.lvl
         /\ Len(b.lvl) <= Limit + 1 /\ b.peak <= Limit + 1 => High(b).peak <= Limit + 1
<1>1. Len(b.lvl) \in Nat
  BY DEF BufferType, Strings
<1>2. High(b) = [b EXCEPT !.peak = IF Len(b.lvl) > b.peak THEN Len(b.lvl) ELSE b.peak]
  BY DEF High, BufferType
<1> QED BY <1>1, <1>2 DEF BufferType, SameCount

(* emptybuffer moves the characters to a string on the stack. *)
LEMMA EmptyHeld ==
  ASSUME NEW b, BufferType(b), Low(b)
  PROVE  /\ SameCount(b, EmptyBuffer(b)) /\ EmptyBuffer(b).p = <<>>
         /\ FlattenSeq(EmptyBuffer(b).lvl) = Content(b)
         /\ Len(EmptyBuffer(b).lvl) <= Limit /\ EmptyBuffer(b).peak <= Limit + 1
<1>1. b.p \in Seq(Nat) /\ b.lvl \in Strings(Nat) /\ Len(b.lvl) \in Nat /\ FlattenSeq(b.lvl) \in Seq(Nat) /\ Limit \in Nat
  BY FlattenType, BufferAssumption DEF BufferType, Strings
<1>2. CASE b.p = <<>>
  <2>1. EmptyBuffer(b) = b
    BY <1>2 DEF EmptyBuffer
  <2>2. FlattenSeq(b.lvl) \o <<>> = FlattenSeq(b.lvl)
    BY <1>1, ConcatEmptySeq
  <2> QED BY <1>1, <1>2, <2>1, <2>2 DEF Content, Low, SameCount
<1>3. CASE b.p # <<>>
  <2> DEFINE e == [b EXCEPT !.p = <<>>, !.lvl = Append(b.lvl, b.p)]
  <2>1. EmptyBuffer(b) = High(e)
    BY <1>3 DEF EmptyBuffer
  <2>2. Append(b.lvl, b.p) \in Strings(Nat) /\ FlattenSeq(Append(b.lvl, b.p)) = FlattenSeq(b.lvl) \o b.p
    BY <1>1, FlattenAppend
  <2>3. Len(Append(b.lvl, b.p)) = Len(b.lvl) + 1
    BY <1>1 DEF Strings
  <2>4. <<>> \in Seq(Nat)
    BY EmptySeq
  <2>5. SameCount(b, e) /\ e.p = <<>> /\ e.lvl = Append(b.lvl, b.p) /\ e.peak = b.peak
    BY <2>2, <2>4 DEF BufferType, SameCount
  <2>6. Len(b.lvl) + 1 <= Limit /\ Len(b.lvl) + 1 <= Limit + 1 /\ b.peak <= Limit + 1
    BY <1>1 DEF Low
  <2> HIDE DEF e
  <2>7. BufferType(e)
    BY <2>5 DEF SameCount
  <2>8. /\ SameCount(e, High(e)) /\ High(e).p = e.p /\ High(e).lvl = e.lvl
        /\ Len(e.lvl) <= Limit + 1 /\ e.peak <= Limit + 1 => High(e).peak <= Limit + 1
    BY <2>7, HighHeld
  <2> QED BY <2>1, <2>2, <2>3, <2>5, <2>6, <2>8 DEF Content, SameCount
<1> QED BY <1>2, <1>3

(* adjuststack's loop ends, below the level that is not joined. *)
LEMMA ToGetIs ==
  ASSUME NEW lvl, Len(lvl) \in Nat \ {0}
  PROVE  ToGet(lvl) \in 1 .. Len(lvl) /\ (ToGet(lvl) < Len(lvl) => ~Joins(lvl, ToGet(lvl)))
<1> DEFINE n == Len(lvl)
           Here(k) == (\A j \in 1 .. k - 1 : Joins(lvl, j)) /\ (k < n => ~Joins(lvl, k))
           S == {k \in Nat : \A j \in 1 .. n - 1 : j <= k => Joins(lvl, j)}
<1>1. \E k \in 1 .. n : Here(k)
  <2> SUFFICES ASSUME \A k \in 1 .. n : ~Here(k) PROVE FALSE
    OBVIOUS
  <2>1. 0 \in S
    OBVIOUS
  <2>2. ASSUME NEW k \in Nat, k \in S PROVE k + 1 \in S
    <3> SUFFICES ASSUME NEW j \in 1 .. n - 1, j <= k + 1 PROVE Joins(lvl, j)
      OBVIOUS
    <3>1. CASE j <= k
      BY <2>2, <3>1
    <3>2. CASE j = k + 1
      <4>1. \A i \in 1 .. j - 1 : i \in 1 .. n - 1 /\ i <= k
        BY <3>2
      <4>2. \A i \in 1 .. j - 1 : Joins(lvl, i)
        BY <2>2, <4>1
      <4>3. j \in 1 .. n /\ j < n
        OBVIOUS
      <4> HIDE DEF n
      <4> QED BY <4>2, <4>3
    <3> QED BY <3>1, <3>2
  <2>3. n \in S
    <3> HIDE DEF S
    <3> QED BY <2>1, <2>2, NatSetInduction
  <2>4. \A j \in 1 .. n - 1 : j <= n
    OBVIOUS
  <2>5. \A j \in 1 .. n - 1 : Joins(lvl, j)
    BY <2>3, <2>4
  <2>6. n \in 1 .. n /\ ~(n < n)
    OBVIOUS
  <2> QED BY <2>5, <2>6
<1>2. ToGet(lvl) = CHOOSE k \in 1 .. n : Here(k)
  BY DEF ToGet
<1> HIDE DEF Here
<1>3. ToGet(lvl) \in 1 .. n /\ Here(ToGet(lvl))
  BY <1>1, <1>2
<1> QED BY <1>3 DEF Here

(* adjuststack joins the levels on top until the stack is below its limit, and *)
(* loses nothing.                                                              *)
LEMMA AdjustHeld ==
  ASSUME NEW b, BufferType(b)
  PROVE  /\ SameCount(b, AdjustStack(b)) /\ AdjustStack(b).p = b.p /\ AdjustStack(b).peak = b.peak
         /\ FlattenSeq(AdjustStack(b).lvl) = FlattenSeq(b.lvl)
         /\ Len(AdjustStack(b).lvl) < Limit
<1>1. b.lvl \in Strings(Nat) /\ Len(b.lvl) \in Nat /\ Limit \in Nat /\ Limit > 1
  BY BufferAssumption DEF BufferType, Strings
<1>2. CASE Len(b.lvl) <= 1
  BY <1>1, <1>2 DEF AdjustStack, SameCount
<1>3. CASE ~(Len(b.lvl) <= 1)
  <2> DEFINE n == Len(b.lvl)
             got == ToGet(b.lvl)
             low == SubSeq(b.lvl, 1, n - got)
             top == SubSeq(b.lvl, (n - got) + 1, n)
             l == Append(low, FlattenSeq(top))
  <2>1. AdjustStack(b) = [b EXCEPT !.lvl = l]
    BY <1>3 DEF AdjustStack, BufferType
  <2>2. got \in 1 .. n /\ (got < n => ~Joins(b.lvl, got))
    <3>1. Len(b.lvl) \in Nat \ {0}
      BY <1>1, <1>3
    <3> QED BY <3>1, ToGetIs
  <2>3. (n - got) + 1 < Limit
    <3>1. CASE got < n
      BY <2>2, <3>1, <1>1 DEF Joins
    <3>2. CASE got = n
      BY <1>1, <3>2
    <3> QED BY <1>1, <2>2, <3>1, <3>2
  <2>4. n - got \in 0 .. n
    BY <1>1, <2>2
  <2>5. low \in Strings(Nat) /\ top \in Strings(Nat) /\ FlattenSeq(b.lvl) = FlattenSeq(low) \o FlattenSeq(top)
    <3> HIDE DEF got
    <3>1. n - got \in 0 .. Len(b.lvl)
      BY <2>4
    <3> DEFINE k == n - got
    <3>2. k \in 0 .. Len(b.lvl)
      BY <3>1
    <3> HIDE DEF k
    <3>3. /\ SubSeq(b.lvl, 1, k) \in Strings(Nat) /\ SubSeq(b.lvl, k + 1, Len(b.lvl)) \in Strings(Nat)
          /\ FlattenSeq(b.lvl) = FlattenSeq(SubSeq(b.lvl, 1, k)) \o FlattenSeq(SubSeq(b.lvl, k + 1, Len(b.lvl)))
      BY <1>1, <3>2, FlattenSplit
    <3> QED BY <3>3 DEF k
  <2>6. Len(low) = n - got
    <3>1. \A i \in 1 .. n - got : b.lvl[i] \in Seq(Nat)
      BY <1>1, <2>4 DEF Strings
    <3>2. Len(low) = IF 1 <= n - got THEN (n - got) - 1 + 1 ELSE 0
      <4> HIDE DEF got
      <4>1. 1 \in Int /\ n - got \in Int
        BY <2>4
      <4> DEFINE k == n - got
      <4> HIDE DEF k
      <4>2. \A i \in 1 .. k : b.lvl[i] \in Seq(Nat)
        BY <3>1 DEF k
      <4>3. Len(SubSeq(b.lvl, 1, k)) = IF 1 <= k THEN k - 1 + 1 ELSE 0
        BY <4>1, <4>2, SubSeqProperties DEF k
      <4> QED BY <4>3 DEF k
    <3> QED BY <2>4, <3>2
  <2>7. FlattenSeq(top) \in Seq(Nat)
    BY <2>5, FlattenType
  <2>8. l \in Strings(Nat) /\ FlattenSeq(l) = FlattenSeq(low) \o FlattenSeq(top)
    <3> HIDE DEF low, top
    <3> QED BY <2>5, <2>7, FlattenAppend
  <2>9. Len(l) = (n - got) + 1
    <3> HIDE DEF low, top
    <3>1. Len(Append(low, FlattenSeq(top))) = Len(low) + 1
      BY <2>5, <2>7, AppendProperties DEF Strings
    <3> QED BY <2>6, <3>1
  <2> HIDE DEF l, low, top, n, got
  <2> QED BY <2>1, <2>3, <2>5, <2>8, <2>9 DEF BufferType, SameCount
<1> QED BY <1>2, <1>3

(* The next characters come after those that were added. *)
LEMMA FreshFollows ==
  ASSUME buff.added \in Nat, NEW n \in Nat
  PROVE  /\ Fresh(n) \in Seq(Nat) /\ Len(Fresh(n)) = n
         /\ Upto(buff.added) \o Fresh(n) = Upto(buff.added + n)
<1> DEFINE a == buff.added
           s == Upto(a)
           t == [k \in 1 .. n |-> a + k]
           u == Upto(a + n)
<1>1. Fresh(n) = t
  BY DEF Fresh
<1>2. \A c, d \in Nat : \A w \in [1 .. c -> Nat] : w \in Seq(Nat) /\ Len(w) = c
  OBVIOUS
<1>3. s \in [1 .. a -> Nat] /\ t \in [1 .. n -> Nat] /\ u \in [1 .. a + n -> Nat] /\ a + n \in Nat
  BY DEF Upto
<1>4. s \in Seq(Nat) /\ t \in Seq(Nat) /\ u \in Seq(Nat) /\ Len(s) = a /\ Len(t) = n /\ Len(u) = a + n
  <2> HIDE DEF s, t, u
  <2> QED BY <1>2, <1>3
<1>5. \A i \in 1 .. a + n : u[i] = i
  BY DEF Upto
<1>6. \A i \in 1 .. a : s[i] = i
  BY DEF Upto
<1>7. \A i \in 1 .. n : t[i] = a + i
  OBVIOUS
<1> HIDE DEF s, t, u
<1>8. s \o t \in Seq(Nat) /\ Len(s \o t) = a + n /\ \A i \in 1 .. a + n : (s \o t)[i] = IF i <= a THEN s[i] ELSE t[i - a]
  <2>1. /\ s \o t \in Seq(Nat) /\ Len(s \o t) = Len(s) + Len(t)
        /\ \A i \in 1 .. Len(s) + Len(t) : (s \o t)[i] = IF i <= Len(s) THEN s[i] ELSE t[i - Len(s)]
    BY <1>4, ConcatProperties
  <2> QED BY <1>4, <2>1
<1>9. \A i \in 1 .. a + n : (s \o t)[i] = u[i]
  <2> SUFFICES ASSUME NEW i \in 1 .. a + n PROVE (s \o t)[i] = u[i]
    OBVIOUS
  <2>1. CASE i <= a
    BY <1>5, <1>6, <1>8, <2>1
  <2>2. CASE ~(i <= a)
    <3>1. i - a \in 1 .. n /\ a + (i - a) = i
      BY <2>2
    <3> QED BY <1>5, <1>7, <1>8, <2>2, <3>1
  <2> QED BY <2>1, <2>2
<1>10. s \o t = u
  BY <1>4, <1>8, <1>9, SeqEqual
<1> QED BY <1>1, <1>4, <1>10 DEF s, u

(* What b holds, and the next characters, are all that was added. *)
LEMMA ContentFollows ==
  ASSUME NEW u \in Seq(Nat), NEW w \in Seq(Nat), buff.added \in Nat, NEW n \in Nat,
         u \o w = Upto(buff.added)
  PROVE  w \o Fresh(n) \in Seq(Nat) /\ Len(w \o Fresh(n)) = Len(w) + n /\ u \o (w \o Fresh(n)) = Upto(buff.added + n)
<1>1. Fresh(n) \in Seq(Nat) /\ Len(Fresh(n)) = n /\ Upto(buff.added) \o Fresh(n) = Upto(buff.added + n)
  BY FreshFollows
<1>2. PICK f \in Seq(Nat) : f = Fresh(n)
  BY <1>1
<1>3. (u \o w) \o f = u \o (w \o f)
  BY ThreeJoined
<1>4. w \o f \in Seq(Nat) /\ Len(w \o f) = Len(w) + Len(f)
  BY ConcatProperties
<1> QED BY <1>1, <1>2, <1>3, <1>4

(* luaL_addchar keeps the invariant. *)
LEMMA AddCharHolds == BufferInv /\ AddChar => BufferInv'
<1> SUFFICES ASSUME BufferInv, AddChar PROVE BufferInv'
  OBVIOUS
<1> DEFINE room == IF Len(buff.p) < BufferSize THEN buff ELSE PrepBuffer(buff)
           e == EmptyBuffer(buff)
           a == AdjustStack(e)
<1>1. BufferType(buff) /\ Low(buff) /\ Content(buff) = Upto(buff.added) /\ Len(buff.p) <= BufferSize /\ buff.pc = "open"
  BY DEF BufferInv, AddChar
<1>2. buff' = [room EXCEPT !.p = room.p \o Fresh(1), !.added = room.added + 1]
  BY DEF AddChar
<1>3. BufferSize \in Nat \ {0} /\ Limit \in Nat
  BY BufferAssumption
<1>4. /\ SameCount(buff, room) /\ Low(room) /\ Len(room.p) < BufferSize
      /\ Content(room) = Content(buff)
  <2>1. CASE Len(buff.p) < BufferSize
    BY <1>1, <2>1 DEF SameCount
  <2>2. CASE ~(Len(buff.p) < BufferSize)
    <3>1. buff.p # <<>>
      BY <1>3, <2>2
    <3>2. room = a
      BY <2>2, <3>1 DEF PrepBuffer
    <3>3. /\ SameCount(buff, e) /\ e.p = <<>> /\ FlattenSeq(e.lvl) = Content(buff)
          /\ Len(e.lvl) <= Limit /\ e.peak <= Limit + 1
      BY <1>1, EmptyHeld
    <3>4. BufferType(e)
      BY <3>3 DEF SameCount
    <3> HIDE DEF e
    <3>5. /\ SameCount(e, a) /\ a.p = e.p /\ a.peak = e.peak
          /\ FlattenSeq(a.lvl) = FlattenSeq(e.lvl) /\ Len(a.lvl) < Limit
      BY <3>4, AdjustHeld
    <3> HIDE DEF a
    <3>6. FlattenSeq(e.lvl) \in Seq(Nat)
      BY <3>4, FlattenType DEF BufferType
    <3>7. FlattenSeq(e.lvl) \o <<>> = FlattenSeq(e.lvl)
      BY <3>6, ConcatEmptySeq
    <3>8. Content(a) = Content(buff)
      BY <3>3, <3>5, <3>7 DEF Content
    <3>9. Len(<<>>) = 0
      BY EmptySeq
    <3> HIDE DEF room
    <3> QED BY <1>3, <3>2, <3>3, <3>5, <3>8, <3>9 DEF SameCount, Low
  <2> QED BY <2>1, <2>2
<1> HIDE DEF room
<1>5. /\ BufferType(room) /\ room.added = buff.added /\ room.pc = "open" /\ room.p \in Seq(Nat) /\ Len(room.p) \in Nat
      /\ room.lvl \in Strings(Nat) /\ FlattenSeq(room.lvl) \in Seq(Nat) /\ buff.added \in Nat
  BY <1>1, <1>4, FlattenType DEF SameCount, BufferType
<1>6. FlattenSeq(room.lvl) \o room.p = Upto(buff.added)
  BY <1>1, <1>4 DEF Content
<1>7. /\ room.p \o Fresh(1) \in Seq(Nat) /\ Len(room.p \o Fresh(1)) = Len(room.p) + 1
      /\ FlattenSeq(room.lvl) \o (room.p \o Fresh(1)) = Upto(buff.added + 1)
  BY <1>5, <1>6, ContentFollows
<1>8. /\ buff'.p = room.p \o Fresh(1) /\ buff'.lvl = room.lvl /\ buff'.added = buff.added + 1 /\ buff'.peak = room.peak
      /\ buff'.pc = "open" /\ BufferType(buff')
  <2> DEFINE w == room.p \o Fresh(1)
  <2>1. w \in Seq(Nat) /\ buff' = [room EXCEPT !.p = w, !.added = room.added + 1]
    BY <1>2, <1>7
  <2> HIDE DEF w
  <2>2. buff'.p = w /\ buff'.lvl = room.lvl /\ buff'.added = buff.added + 1 /\ buff'.peak = room.peak /\ buff'.pc = "open"
    BY <1>5, <2>1 DEF BufferType
  <2>3. BufferType(buff')
    <3>1. room \in [p : Seq(Nat), lvl : Strings(Nat), added : Nat, peak : Nat, pc : {"open", "done"}]
      BY <1>5 DEF BufferType
    <3>2. room.added + 1 \in Nat
      BY <3>1
    <3> QED BY <2>1, <3>1, <3>2 DEF BufferType
  <2> QED BY <2>2, <2>3 DEF w
<1>9. Len(room.p) + 1 <= BufferSize
  BY <1>3, <1>4, <1>5
<1>10. Content(buff') = Upto(buff'.added)
  BY <1>7, <1>8 DEF Content
<1>11. Low(buff')
  BY <1>4, <1>8 DEF Low
<1> QED BY <1>7, <1>8, <1>9, <1>10, <1>11 DEF BufferInv

(* luaL_addvalue keeps the invariant. *)
LEMMA AddValueHolds == BufferInv /\ AddValue => BufferInv'
<1> SUFFICES ASSUME BufferInv, AddValue PROVE BufferInv'
  OBVIOUS
<1> DEFINE e == EmptyBuffer(buff)
<1>1. /\ BufferType(buff) /\ Low(buff) /\ Content(buff) = Upto(buff.added) /\ Len(buff.p) <= BufferSize /\ buff.pc = "open"
      /\ buff.added \in Nat /\ buff.p \in Seq(Nat) /\ Len(buff.p) \in Nat /\ buff.lvl \in Strings(Nat)
      /\ FlattenSeq(buff.lvl) \in Seq(Nat)
  BY FlattenType DEF BufferInv, AddValue, BufferType
<1>2. BufferSize \in Nat \ {0} /\ Limit \in Nat /\ MaxAdded \in Nat
  BY BufferAssumption
<1>3. PICK n \in 0 .. MaxAdded - buff.added :
        LET fits == n <= BufferSize - Len(buff.p)
            under == High([e EXCEPT !.lvl = Append(@, Fresh(n))])
            b == IF fits THEN [buff EXCEPT !.p = @ \o Fresh(n)] ELSE AdjustStack(under)
        IN  buff' = [b EXCEPT !.added = @ + n]
  BY DEF AddValue
<1>4. n \in Nat
  BY <1>1, <1>2
<1>5. CASE n <= BufferSize - Len(buff.p)
  <2>1. buff' = [[buff EXCEPT !.p = buff.p \o Fresh(n)] EXCEPT !.added = [buff EXCEPT !.p = buff.p \o Fresh(n)].added + n]
    BY <1>3, <1>5
  <2>2. FlattenSeq(buff.lvl) \o buff.p = Upto(buff.added)
    BY <1>1 DEF Content
  <2>3. /\ buff.p \o Fresh(n) \in Seq(Nat) /\ Len(buff.p \o Fresh(n)) = Len(buff.p) + n
        /\ FlattenSeq(buff.lvl) \o (buff.p \o Fresh(n)) = Upto(buff.added + n)
    BY <1>1, <1>4, <2>2, ContentFollows
  <2>4. /\ buff'.p = buff.p \o Fresh(n) /\ buff'.lvl = buff.lvl /\ buff'.added = buff.added + n /\ buff'.peak = buff.peak
        /\ buff'.pc = "open" /\ BufferType(buff')
    <3> DEFINE w == buff.p \o Fresh(n)
    <3>1. w \in Seq(Nat) /\ buff' = [[buff EXCEPT !.p = w] EXCEPT !.added = [buff EXCEPT !.p = w].added + n]
      BY <2>1, <2>3
    <3> HIDE DEF w
    <3>2. buff' = [buff EXCEPT !.p = w, !.added = buff.added + n]
      BY <1>1, <3>1 DEF BufferType
    <3>3. buff'.p = w /\ buff'.lvl = buff.lvl /\ buff'.added = buff.added + n /\ buff'.peak = buff.peak /\ buff'.pc = "open"
      BY <1>1, <3>2 DEF BufferType
    <3>4. BufferType(buff')
      <4>1. buff \in [p : Seq(Nat), lvl : Strings(Nat), added : Nat, peak : Nat, pc : {"open", "done"}]
        BY <1>1 DEF BufferType
      <4>2. buff.added + n \in Nat
        BY <1>1, <1>4
      <4> QED BY <3>1, <3>2, <4>1, <4>2 DEF BufferType
    <3> QED BY <3>3, <3>4 DEF w
  <2>5. Len(buff.p) + n <= BufferSize
    BY <1>1, <1>2, <1>4, <1>5
  <2>6. Content(buff') = Upto(buff'.added)
    BY <2>3, <2>4 DEF Content
  <2>7. Low(buff')
    BY <1>1, <2>4 DEF Low
  <2> QED BY <2>3, <2>4, <2>5, <2>6, <2>7 DEF BufferInv
<1>6. CASE ~(n <= BufferSize - Len(buff.p))
  <2> DEFINE h == [e EXCEPT !.lvl = Append(e.lvl, Fresh(n))]
             under == High(h)
             a == AdjustStack(under)
  <2>1. buff' = [a EXCEPT !.added = a.added + n]
    BY <1>3, <1>6
  <2>2. /\ SameCount(buff, e) /\ e.p = <<>> /\ FlattenSeq(e.lvl) = Upto(buff.added)
        /\ Len(e.lvl) <= Limit /\ e.peak <= Limit + 1
    BY <1>1, EmptyHeld
  <2> HIDE DEF e
  <2>3. BufferType(e) /\ e.lvl \in Strings(Nat) /\ Len(e.lvl) \in Nat
    BY <2>2 DEF SameCount, BufferType, Strings
  <2>4. Fresh(n) \in Seq(Nat) /\ Upto(buff.added) \o Fresh(n) = Upto(buff.added + n)
    BY <1>1, <1>4, FreshFollows
  <2>5. Append(e.lvl, Fresh(n)) \in Strings(Nat) /\ FlattenSeq(Append(e.lvl, Fresh(n))) = FlattenSeq(e.lvl) \o Fresh(n)
    BY <2>3, <2>4, FlattenAppend
  <2>6. Len(Append(e.lvl, Fresh(n))) = Len(e.lvl) + 1
    BY <2>3, <2>4 DEF Strings
  <2>7. /\ SameCount(e, h) /\ h.p = <<>> /\ h.peak = e.peak /\ h.lvl = Append(e.lvl, Fresh(n))
    BY <2>2, <2>3, <2>5 DEF BufferType, SameCount
  <2>8. Len(h.lvl) <= Limit + 1 /\ h.peak <= Limit + 1 /\ FlattenSeq(h.lvl) = Upto(buff.added + n)
    BY <1>2, <2>2, <2>3, <2>4, <2>5, <2>6, <2>7
  <2> HIDE DEF h
  <2>9. BufferType(h)
    BY <2>7 DEF SameCount
  <2>10. /\ SameCount(h, under) /\ under.p = h.p /\ under.lvl = h.lvl
         /\ Len(h.lvl) <= Limit + 1 /\ h.peak <= Limit + 1 => under.peak <= Limit + 1
    BY <2>9, HighHeld
  <2> HIDE DEF under
  <2>11. BufferType(under)
    BY <2>10 DEF SameCount
  <2>12. /\ SameCount(under, a) /\ a.p = under.p /\ a.peak = under.peak
         /\ FlattenSeq(a.lvl) = FlattenSeq(under.lvl) /\ Len(a.lvl) < Limit
    BY <2>11, AdjustHeld
  <2> HIDE DEF a
  <2>13. a.added = buff.added /\ a.pc = "open" /\ a.p = <<>> /\ a.peak <= Limit + 1 /\ FlattenSeq(a.lvl) = Upto(buff.added + n)
    BY <1>1, <2>2, <2>7, <2>8, <2>10, <2>12 DEF SameCount
  <2>14. BufferType(a)
    BY <2>12 DEF SameCount
  <2>15. /\ buff'.p = <<>> /\ buff'.lvl = a.lvl /\ buff'.added = buff.added + n /\ buff'.peak = a.peak
         /\ buff'.pc = "open" /\ BufferType(buff')
    BY <1>1, <1>4, <2>1, <2>13, <2>14 DEF BufferType
  <2>16. FlattenSeq(a.lvl) \in Seq(Nat) /\ Len(<<>>) = 0
    BY <2>14, FlattenType, EmptySeq DEF BufferType
  <2>17. FlattenSeq(a.lvl) \o <<>> = FlattenSeq(a.lvl)
    BY <2>16, ConcatEmptySeq
  <2>18. Content(buff') = Upto(buff'.added)
    BY <2>13, <2>15, <2>17 DEF Content
  <2>19. Low(buff')
    BY <2>12, <2>13, <2>15 DEF Low
  <2>20. Len(buff'.p) <= BufferSize
    BY <1>2, <2>15, <2>16
  <2> QED BY <2>15, <2>18, <2>19, <2>20 DEF BufferInv
<1> QED BY <1>5, <1>6

(* luaL_pushresult keeps the invariant. *)
LEMMA PushResultHolds == BufferInv /\ PushResult => BufferInv'
<1> SUFFICES ASSUME BufferInv, PushResult PROVE BufferInv'
  OBVIOUS
<1> DEFINE e == EmptyBuffer(buff)
           l == <<FlattenSeq(e.lvl)>>
<1>1. BufferType(buff) /\ Low(buff) /\ Content(buff) = Upto(buff.added)
  BY DEF BufferInv
<1>2. buff' = [e EXCEPT !.lvl = l, !.pc = "done"]
  BY DEF PushResult
<1>3. /\ SameCount(buff, e) /\ e.p = <<>> /\ FlattenSeq(e.lvl) = Upto(buff.added)
      /\ Len(e.lvl) <= Limit /\ e.peak <= Limit + 1
  BY <1>1, EmptyHeld
<1> HIDE DEF e
<1>4. BufferType(e) /\ e.lvl \in Strings(Nat) /\ e.added = buff.added
  BY <1>3 DEF SameCount, BufferType
<1>5. FlattenSeq(e.lvl) \in Seq(Nat)
  BY <1>4, FlattenType
<1>6. <<>> \in Strings(Nat) /\ <<>> \in Seq(Nat) /\ Len(<<>>) = 0
  BY EmptySeq DEF Strings
<1>7. FlattenSeq(Append(<<>>, FlattenSeq(e.lvl))) = FlattenSeq(<<>>) \o FlattenSeq(e.lvl)
  BY <1>5, <1>6, FlattenAppend
<1>8. FlattenSeq(<<>>) = <<>>
  BY <1>6, FlattenType
<1>9. <<>> \o FlattenSeq(e.lvl) = FlattenSeq(e.lvl) /\ FlattenSeq(e.lvl) \o <<>> = FlattenSeq(e.lvl)
  BY <1>5, ConcatEmptySeq
<1>10. Append(<<>>, FlattenSeq(e.lvl)) = l /\ l \in Strings(Nat) /\ Len(l) = 1
  BY <1>5 DEF Strings
<1>11. FlattenSeq(l) = FlattenSeq(e.lvl)
  BY <1>7, <1>8, <1>9, <1>10
<1> HIDE DEF l
<1>12. /\ buff'.p = <<>> /\ buff'.lvl = l /\ buff'.added = buff.added /\ buff'.peak = e.peak /\ buff'.pc = "done"
       /\ BufferType(buff')
  BY <1>2, <1>3, <1>4, <1>10 DEF BufferType
<1>13. Content(buff') = Upto(buff'.added)
  BY <1>3, <1>9, <1>11, <1>12 DEF Content
<1>14. Len(buff'.p) <= BufferSize /\ Low(buff')
  <2>1. Len(buff'.p) = 0 /\ Len(buff'.lvl) = 1 /\ buff'.peak <= Limit + 1
    BY <1>3, <1>6, <1>10, <1>12
  <2>2. 0 <= BufferSize /\ 1 < Limit
    BY BufferAssumption
  <2> QED BY <2>1, <2>2 DEF Low
<1> QED BY <1>10, <1>12, <1>13, <1>14 DEF BufferInv

(* What was added to a buffer comes out of it in order, the array in the C     *)
(* stack is never overrun, and the Lua stack never holds more than the limit   *)
(* of its strings and the value that is being added: emptybuffer, adjuststack  *)
(* and the functions of lauxlib.c that call them, for every size of the array  *)
(* and every limit.                                                            *)
THEOREM BufferHolds == BufferInit /\ [][BufferNext]_buff => []Buffered
<1>1. BufferInit => BufferInv
  <2> SUFFICES ASSUME BufferInit PROVE BufferInv
    OBVIOUS
  <2>1. <<>> \in Strings(Nat) /\ <<>> \in Seq(Nat) /\ Len(<<>>) = 0
    BY EmptySeq DEF Strings
  <2>2. FlattenSeq(<<>>) = <<>>
    BY <2>1, FlattenType
  <2>3. <<>> \o <<>> = <<>>
    BY <2>1, ConcatEmptySeq
  <2>4. Upto(0) = <<>>
    BY DEF Upto
  <2>5. BufferType(buff) /\ buff.p = <<>> /\ buff.lvl = <<>> /\ buff.added = 0 /\ buff.peak = 0 /\ buff.pc = "open"
    BY <2>1 DEF BufferInit, BufferType
  <2> QED BY <2>1, <2>2, <2>3, <2>4, <2>5, BufferAssumption DEF BufferInv, Content, Low
<1>2. BufferInv /\ [BufferNext]_buff => BufferInv'
  <2>1. ASSUME BufferInv, UNCHANGED buff PROVE BufferInv'
    BY <2>1 DEF BufferInv, BufferType, Content, Low
  <2> QED BY <2>1, AddCharHolds, AddValueHolds, PushResultHolds DEF BufferNext
<1>3. BufferInv => Buffered
  BY DEF BufferInv, Buffered, Content, Upto, Low
<1> QED BY <1>1, <1>2, <1>3, PTL

-----------------------------------------------------------------------------
(* find, gmatch and gsub, for whatever match makes of a pattern.               *)

Here(x, i) == Matched(x.s, i, x.p)
Hit(x, i) == Got(Here(x, i))
Places(x) == 1 .. Len(x.s) + 1
PiecesOf(x) == {Found(i, Here(x, i)) : i \in Places(x)} \cup {Kept(i) : i \in 1 .. Len(x.s)}
GTyped(x) ==
  /\ x \in [s : Subjects, p : Patterns, anchor : BOOLEAN, max : Nat, start : Nat, found : Seq(PiecesOf(x)),
            src : Nat, n : Nat, out : Seq(PiecesOf(x)), pc : {"gmatch", "gsub", "done", "error"}]
  /\ x.start >= 1 /\ x.src \in Places(x)

(* Where the search for the next match begins behind the first k.              *)
StartOf(x, k) == IF k = 0 THEN 1 ELSE NewStart(x.found[k][1], x.found[k][2])
NoHits(x, i, j) == \A k \in i .. j - 1 : ~Hit(x, k)

(* The k-th match of gmatch is the first behind the one before it.             *)
FoundAt(x, k) ==
  LET a == x.found[k][1]
  IN  /\ a \in Places(x) /\ k <= a
      /\ Hit(x, a) /\ ~Raises(Here(x, a)) /\ x.found[k] = Found(a, Here(x, a))
      /\ StartOf(x, k - 1) <= a /\ NoHits(x, StartOf(x, k - 1), a)
FoundInv(x) ==
  /\ \A k \in 1 .. Len(x.found) : FoundAt(x, k)
  /\ x.start = StartOf(x, Len(x.found))
  /\ x.pc \in {"gsub", "done"} => NoHits(x, x.start, Len(x.s) + 2)

(* The pieces of gsub follow one another up to where it is; its matches go on. *)
Follows(out, end) ==
  /\ \A k \in 1 .. Len(out) - 1 : out[k][2] = out[k + 1][1]
  /\ out # <<>> => out[1][1] = 1 /\ out[Len(out)][2] = end
  /\ out = <<>> => end = 1
Ordered(out) ==
  \A j, k \in 1 .. Len(out) : j < k /\ IsMatch(out[j]) /\ IsMatch(out[k]) => out[j][1] < out[k][1]
Below(out, m) == \A k \in 1 .. Len(out) : IsMatch(out[k]) => out[k][1] < m
OutInv(x) ==
  /\ Ordered(x.out)
  /\ IF x.pc = "done" THEN Follows(x.out, Len(x.s) + 1) ELSE Follows(x.out, x.src) /\ Below(x.out, x.src)

(* A gsub of everything has made the matches up to where it is.                *)
Made(out) == {out[k] : k \in {j \in DOMAIN out : IsMatch(out[j])}}
FirstFound(x, n) == {x.found[k] : k \in 1 .. n}
Everything(x) == ~x.anchor /\ x.max > Len(x.s)
MadeInv(x) ==
  /\ x.pc = "gmatch" => x.n = 0 /\ x.out = <<>> /\ x.src = 1
  /\ x.pc \in {"gmatch", "gsub"} /\ Everything(x) =>
       /\ x.n <= Len(x.found) /\ Made(x.out) = FirstFound(x, x.n)
       /\ StartOf(x, x.n) <= x.src /\ NoHits(x, StartOf(x, x.n), x.src)
  /\ x.pc = "done" /\ Everything(x) => Made(x.out) = FirstFound(x, Len(x.found))

GInv(x) == GTyped(x) /\ FoundInv(x) /\ OutInv(x) /\ MadeInv(x)

(* Subjects have a length.                                                     *)
LEMMA SubjectLen ==
  ASSUME NEW s \in Subjects
  PROVE  Len(s) \in Nat /\ (s # <<>> => Len(s) >= 1) /\ (s = <<>> => Len(s) = 0)
<1> DEFINE S == {s[k] : k \in DOMAIN s}
<1>1. s \in Seq(S)
  BY MatchAssumption
<1> HIDE DEF S
<1> QED BY <1>1, EmptySeq, LenProperties

(* A match that is not refused goes on or stays, and is a piece that no kept   *)
(* character is.                                                               *)
LEMMA PieceFacts ==
  ASSUME NEW x, GTyped(x), NEW i \in Places(x)
  PROVE  /\ Len(x.s) \in Nat
         /\ Hit(x, i) /\ ~Raises(Here(x, i)) => Here(x, i).e \in i .. Len(x.s) + 1
         /\ Found(i, Here(x, i)) \in PiecesOf(x) /\ IsMatch(Found(i, Here(x, i)))
         /\ Found(i, Here(x, i))[1] = i /\ Found(i, Here(x, i))[2] = Here(x, i).e
         /\ i <= Len(x.s) => Kept(i) \in PiecesOf(x)
         /\ Kept(i)[1] = i /\ Kept(i)[2] = i + 1 /\ ~IsMatch(Kept(i))
<1>1. x.s \in Subjects /\ x.p \in Patterns /\ Len(x.s) \in Nat
  BY SubjectLen DEF GTyped
<1>2. Here(x, i).e \in {Fail, Error} \cup i .. Len(x.s) + 1 /\ Here(x, i).ms.level \in Nat
  BY <1>1, MatchAssumption DEF Here, Places
<1>3. Hit(x, i) /\ ~Raises(Here(x, i)) => Here(x, i).e \in i .. Len(x.s) + 1
  BY <1>2 DEF Hit, Raises, Got
<1>4. PushCaptures(Here(x, i), i) # <<>>
  <2>1. CASE Here(x, i).ms.level = 0
    BY <2>1 DEF PushCaptures
  <2>2. CASE Here(x, i).ms.level # 0
    <3>1. 1 \in DOMAIN CapsOf(Here(x, i))
      BY <1>2, <2>2 DEF CapsOf
    <3>2. DOMAIN <<>> = {}
      BY EmptySeq, LenProperties
    <3> QED BY <2>2, <3>1, <3>2 DEF PushCaptures
  <2> QED BY <2>1, <2>2
<1>5. /\ IsMatch(Found(i, Here(x, i))) /\ Found(i, Here(x, i))[1] = i /\ Found(i, Here(x, i))[2] = Here(x, i).e
      /\ Kept(i)[1] = i /\ Kept(i)[2] = i + 1 /\ ~IsMatch(Kept(i))
  BY <1>4 DEF IsMatch, Found, Kept
<1>6. Found(i, Here(x, i)) \in PiecesOf(x)
  BY DEF PiecesOf
<1>7. i <= Len(x.s) => Kept(i) \in PiecesOf(x)
  BY <1>1 DEF PiecesOf, Places
<1> QED BY <1>1, <1>3, <1>5, <1>6, <1>7

(* The first place from i on where p matches.                                  *)
FirstHit(s, i, p) ==
  {k \in i .. Len(s) + 1 : Got(Matched(s, k, p)) /\ \A m \in i .. k - 1 : ~Got(Matched(s, m, p))}

(* What the search from i on should answer.                                    *)
FoundFirst(f, s, i, p) ==
  \/ f.at = Fail /\ \A k \in i .. Len(s) + 1 : ~Got(Matched(s, k, p))
  \/ f.at \in FirstHit(s, i, p) /\ f.r = Matched(s, f.at, p)

(* One turn of the search.                                                     *)
Turn(f, s, j, p) ==
  IF Got(Matched(s, j, p)) THEN [at |-> j, r |-> Matched(s, j, p)]
  ELSE IF j <= Len(s) /\ ~FALSE THEN f[j + 1]
  ELSE [at |-> Fail, r |-> Matched(s, j, p)]

(* There is a search. *)
LEMMA SearchExists ==
  ASSUME NEW s \in Subjects, NEW p, NEW i \in Nat
  PROVE  \E f : f = [j \in i .. Len(s) + 1 |-> Turn(f, s, j, p)]
<1>0. Len(s) \in Nat
  BY SubjectLen
<1> DEFINE f == [j \in i .. Len(s) + 1 |->
                   IF FirstHit(s, j, p) # {} THEN [at |-> CHOOSE k : k \in FirstHit(s, j, p),
                                                   r  |-> Matched(s, CHOOSE k : k \in FirstHit(s, j, p), p)]
                   ELSE [at |-> Fail, r |-> Matched(s, Len(s) + 1, p)]]
<1>1. ASSUME NEW j \in i .. Len(s) + 1 PROVE f[j] = Turn(f, s, j, p)
  <2>1. CASE Got(Matched(s, j, p))
    <3>1. FirstHit(s, j, p) = {j}
      BY <1>0, <1>1, <2>1 DEF FirstHit
    <3>2. (CHOOSE k : k \in FirstHit(s, j, p)) = j
      BY <3>1
    <3> QED BY <2>1, <3>1, <3>2 DEF Turn
  <2>2. CASE ~Got(Matched(s, j, p)) /\ j <= Len(s)
    <3>1. j + 1 \in i .. Len(s) + 1
      BY <1>0, <1>1, <2>2
    <3>2. FirstHit(s, j, p) = FirstHit(s, j + 1, p)
      <4>1. \A k : k \in FirstHit(s, j, p) => k \in FirstHit(s, j + 1, p)
        BY <1>0, <1>1, <2>2 DEF FirstHit
      <4>2. \A k : k \in FirstHit(s, j + 1, p) => k \in FirstHit(s, j, p)
        BY <1>0, <1>1, <2>2 DEF FirstHit
      <4> QED BY <4>1, <4>2
    <3>3. f[j] = f[j + 1]
      BY <1>1, <3>1, <3>2
    <3> HIDE DEF f
    <3> QED BY <2>2, <3>3 DEF Turn
  <2>3. CASE ~Got(Matched(s, j, p)) /\ ~(j <= Len(s))
    <3>1. j = Len(s) + 1
      BY <1>0, <1>1, <2>3
    <3>2. FirstHit(s, j, p) = {}
      BY <1>0, <2>3, <3>1 DEF FirstHit
    <3> QED BY <2>3, <3>1, <3>2 DEF Turn
  <2> QED BY <2>1, <2>2, <2>3
<1>2. f = [j \in i .. Len(s) + 1 |-> f[j]]
  OBVIOUS
<1> HIDE DEF f
<1>3. f = [j \in i .. Len(s) + 1 |-> Turn(f, s, j, p)]
  BY <1>1, <1>2, Zenon
<1> QED BY <1>3

(* It answers the first match.                                                 *)
LEMMA FindsFirst ==
  ASSUME NEW s \in Subjects, NEW p, NEW i \in 1 .. Len(s) + 1
  PROVE  FoundFirst(FindFrom(s, i, p, FALSE), s, i, p)
<1>0. Len(s) \in Nat /\ i \in Nat
  BY SubjectLen
<1> DEFINE from == CHOOSE f : f = [j \in i .. Len(s) + 1 |-> Turn(f, s, j, p)]
           L == Len(s) + 1
<1>1. FindFrom(s, i, p, FALSE) = from[i]
  BY DEF FindFrom, Turn
<1>2. from = [j \in i .. Len(s) + 1 |-> Turn(from, s, j, p)]
  BY <1>0, SearchExists
<1> HIDE DEF from
<1>3. \A j \in i .. L : from[j] = Turn(from, s, j, p)
  BY <1>2
<1> DEFINE S == {d \in Nat : d <= L - i => FoundFirst(from[L - d], s, L - d, p)}
<1>4. 0 \in S
  <2>1. L - 0 = L /\ L \in i .. L /\ ~(L <= Len(s))
    BY <1>0
  <2>2. from[L] = Turn(from, s, L, p)
    BY <1>3, <2>1
  <2>3. \A k \in L .. L : k = L
    BY <1>0
  <2>4. CASE Got(Matched(s, L, p))
    <3>1. from[L] = [at |-> L, r |-> Matched(s, L, p)]
      BY <2>2, <2>4 DEF Turn
    <3>2. L \in FirstHit(s, L, p)
      BY <1>0, <2>4 DEF FirstHit
    <3> HIDE DEF L
    <3> QED BY <2>1, <3>1, <3>2 DEF FoundFirst
  <2>5. CASE ~Got(Matched(s, L, p))
    <3>1. from[L].at = Fail
      BY <2>1, <2>2, <2>5 DEF Turn
    <3>2. \A k \in L .. Len(s) + 1 : ~Got(Matched(s, k, p))
      BY <2>3, <2>5
    <3> HIDE DEF L
    <3> QED BY <2>1, <3>1, <3>2 DEF FoundFirst
  <2> QED BY <2>4, <2>5
<1>5. ASSUME NEW d \in Nat, d \in S PROVE d + 1 \in S
  <2> SUFFICES ASSUME d + 1 <= L - i PROVE FoundFirst(from[L - (d + 1)], s, L - (d + 1), p)
    OBVIOUS
  <2> DEFINE j == L - (d + 1)
  <2>1. j \in i .. L /\ j <= Len(s) /\ j + 1 = L - d /\ d <= L - i /\ j \in Nat
    BY <1>0
  <2>2. FoundFirst(from[j + 1], s, j + 1, p)
    BY <1>5, <2>1
  <2> HIDE DEF j
  <2>3. from[j] = Turn(from, s, j, p)
    BY <1>3, <2>1
  <2>4. ASSUME Got(Matched(s, j, p)) PROVE FoundFirst(from[j], s, j, p)
    <3>1. from[j] = [at |-> j, r |-> Matched(s, j, p)]
      BY <2>3, <2>4 DEF Turn
    <3>2. j \in FirstHit(s, j, p)
      BY <1>0, <2>1, <2>4 DEF FirstHit
    <3> QED BY <3>1, <3>2 DEF FoundFirst
  <2>5. ASSUME ~Got(Matched(s, j, p)) PROVE FoundFirst(from[j], s, j, p)
    <3>1. from[j] = from[j + 1]
      BY <2>1, <2>3, <2>5 DEF Turn
    <3>2. \A k \in j .. Len(s) + 1 : k = j \/ k \in j + 1 .. Len(s) + 1
      BY <1>0, <2>1
    <3>3. FirstHit(s, j + 1, p) \subseteq FirstHit(s, j, p)
      BY <1>0, <2>1, <2>5 DEF FirstHit
    <3> QED BY <2>2, <2>5, <3>1, <3>2, <3>3 DEF FoundFirst
  <2> QED BY <2>4, <2>5 DEF j
<1> HIDE DEF S
<1>6. Nat \subseteq S
  BY <1>4, <1>5, NatSetInduction
<1>7. L - i \in Nat /\ L - (L - i) = i /\ L - i <= L - i
  BY <1>0
<1>8. FoundFirst(from[L - (L - i)], s, L - (L - i), p)
  BY <1>6, <1>7 DEF S
<1> QED BY <1>1, <1>7, <1>8

(* What one more piece makes of the pieces so far.                             *)
LEMMA OnePiece ==
  ASSUME NEW S, NEW out \in Seq(S), NEW piece \in S, Follows(out, piece[1]), Ordered(out),
         IsMatch(piece) => Below(out, piece[1])
  PROVE  /\ Append(out, piece) \in Seq(S)
         /\ Follows(Append(out, piece), piece[2])
         /\ Ordered(Append(out, piece))
         /\ \A m : Below(out, m) /\ (IsMatch(piece) => piece[1] < m) => Below(Append(out, piece), m)
         /\ Made(Append(out, piece)) = Made(out) \cup (IF IsMatch(piece) THEN {piece} ELSE {})
<1> DEFINE new == Append(out, piece)
           n == Len(out)
<1>1. /\ new \in Seq(S) /\ n \in Nat /\ Len(new) = n + 1 /\ new[n + 1] = piece
      /\ \A k \in 1 .. n : new[k] = out[k]
      /\ DOMAIN out = 1 .. n /\ DOMAIN new = 1 .. n + 1
  OBVIOUS
<1>2. new # <<>> /\ (out = <<>> <=> n = 0)
  BY <1>1, EmptySeq
<1> HIDE DEF new, n
<1>3. Follows(new, piece[2])
  <2>1. ASSUME NEW k \in 1 .. Len(new) - 1 PROVE new[k][2] = new[k + 1][1]
    <3>1. CASE k = n
      BY <1>1, <1>2, <2>1, <3>1 DEF Follows, n
    <3>2. CASE k # n
      <4>1. k \in 1 .. n - 1 /\ k \in 1 .. n /\ k + 1 \in 1 .. n
        BY <1>1, <2>1, <3>2
      <4> QED BY <1>1, <4>1 DEF Follows, n
    <3> QED BY <3>1, <3>2
  <2>2. new[1][1] = 1
    <3>1. CASE n = 0
      BY <1>1, <1>2, <3>1 DEF Follows
    <3>2. CASE n # 0
      <4>1. 1 \in 1 .. n
        BY <1>1, <3>2
      <4> QED BY <1>1, <1>2, <3>2, <4>1 DEF Follows
    <3> QED BY <3>1, <3>2
  <2> QED BY <1>1, <1>2, <2>1, <2>2 DEF Follows
<1>4. Ordered(new)
  <2> SUFFICES ASSUME NEW j \in 1 .. n + 1, NEW k \in 1 .. n + 1, j < k, IsMatch(new[j]), IsMatch(new[k])
               PROVE  new[j][1] < new[k][1]
    BY <1>1 DEF Ordered
  <2>1. j \in 1 .. n
    BY <1>1
  <2>2. CASE k = n + 1
    BY <1>1, <2>1, <2>2 DEF Below, n
  <2>3. CASE k # n + 1
    <3>1. k \in 1 .. n
      BY <1>1, <2>3
    <3> QED BY <1>1, <2>1, <3>1 DEF Ordered, n
  <2> QED BY <2>2, <2>3
<1>5. ASSUME NEW m, Below(out, m), IsMatch(piece) => piece[1] < m PROVE Below(new, m)
  <2> SUFFICES ASSUME NEW k \in 1 .. n + 1, IsMatch(new[k]) PROVE new[k][1] < m
    BY <1>1 DEF Below
  <2>1. CASE k = n + 1
    BY <1>1, <1>5, <2>1
  <2>2. CASE k # n + 1
    <3>1. k \in 1 .. n
      BY <1>1, <2>2
    <3> QED BY <1>1, <1>5, <3>1 DEF Below, n
  <2> QED BY <2>1, <2>2
<1>6. Made(new) = Made(out) \cup (IF IsMatch(piece) THEN {piece} ELSE {})
  <2>1. ASSUME NEW e \in Made(new) PROVE e \in Made(out) \cup (IF IsMatch(piece) THEN {piece} ELSE {})
    <3>1. PICK k \in 1 .. n + 1 : IsMatch(new[k]) /\ e = new[k]
      BY <1>1, <2>1 DEF Made
    <3>2. CASE k = n + 1
      BY <1>1, <3>1, <3>2
    <3>3. CASE k # n + 1
      <4>1. k \in 1 .. n
        BY <1>1, <3>3
      <4> QED BY <1>1, <3>1, <4>1 DEF Made
    <3> QED BY <3>2, <3>3
  <2>2. ASSUME NEW e \in Made(out) PROVE e \in Made(new)
    <3>1. PICK k \in 1 .. n : IsMatch(out[k]) /\ e = out[k]
      BY <1>1, <2>2 DEF Made
    <3>2. k \in 1 .. n + 1
      BY <1>1
    <3> QED BY <1>1, <3>1, <3>2 DEF Made
  <2>3. ASSUME IsMatch(piece) PROVE piece \in Made(new)
    <3>1. n + 1 \in 1 .. n + 1
      BY <1>1
    <3> QED BY <1>1, <2>3, <3>1 DEF Made
  <2> QED BY <2>1, <2>2, <2>3
<1> QED BY <1>1, <1>3, <1>4, <1>5, <1>6 DEF new

(* What the rest of the subject, kept, makes of them.                          *)
LEMMA RestPieces ==
  ASSUME NEW S, NEW out \in Seq(S), NEW L \in Nat, NEW i \in 1 .. L + 1, Follows(out, i), Ordered(out),
         \A j \in 1 .. L : Kept(j) \in S /\ ~IsMatch(Kept(j))
  PROVE  LET all == out \o [k \in 1 .. L + 1 - i |-> Kept(i + k - 1)]
         IN  /\ all \in Seq(S)
             /\ Follows(all, L + 1) /\ Ordered(all) /\ Made(all) = Made(out)
<1> DEFINE m == L + 1 - i
           rest == [k \in 1 .. m |-> Kept(i + k - 1)]
           all == out \o rest
           n == Len(out)
<1>0. i \in Nat /\ m \in Nat /\ i + m = L + 1 /\ i >= 1
  OBVIOUS
<1>1. rest \in Seq(S) /\ Len(rest) = m /\ \A k \in 1 .. m : rest[k] = Kept(i + k - 1) /\ i + k - 1 \in 1 .. L
  OBVIOUS
<1> HIDE DEF rest, m
<1>2. /\ all \in Seq(S) /\ n \in Nat /\ Len(all) = n + m
      /\ \A k \in 1 .. n : all[k] = out[k]
      /\ \A k \in n + 1 .. n + m : all[k] = Kept(i + (k - n) - 1) /\ k - n \in 1 .. m
      /\ DOMAIN out = 1 .. n /\ DOMAIN all = 1 .. n + m
  <2>1. /\ all \in Seq(S) /\ n \in Nat /\ Len(all) = n + m
        /\ \A k \in 1 .. n + m : all[k] = IF k <= n THEN out[k] ELSE rest[k - n]
    <3>1. /\ all \in Seq(S) /\ Len(all) = Len(out) + Len(rest)
          /\ \A k \in 1 .. Len(out) + Len(rest) : all[k] = IF k <= Len(out) THEN out[k] ELSE rest[k - Len(out)]
      BY <1>1, ConcatProperties
    <3>2. Len(out) \in Nat
      BY LenProperties
    <3> HIDE DEF all
    <3> QED BY <1>1, <3>1, <3>2
  <2> HIDE DEF all, n
  <2>2. \A k \in 1 .. n : k \in 1 .. n + m /\ k <= n
    BY <1>0, <2>1
  <2>3. \A k \in n + 1 .. n + m : k \in 1 .. n + m /\ ~(k <= n) /\ k - n \in 1 .. m
    BY <1>0, <2>1
  <2>4. DOMAIN out = 1 .. n /\ DOMAIN all = 1 .. n + m
    BY <2>1, LenProperties DEF n
  <2> QED BY <1>1, <2>1, <2>2, <2>3, <2>4
<1> HIDE DEF all
<1>3. (out = <<>> <=> n = 0) /\ (all = <<>> <=> n + m = 0)
  BY <1>0, <1>2, EmptySeq
<1> HIDE DEF n
<1>4. \A j : Kept(j)[1] = j /\ Kept(j)[2] = j + 1
  BY DEF Kept
<1>5. \A k \in n + 1 .. n + m : all[k][1] = i + (k - n) - 1 /\ all[k][2] = i + (k - n) /\ ~IsMatch(all[k])
  <2> SUFFICES ASSUME NEW k \in n + 1 .. n + m
               PROVE  all[k][1] = i + (k - n) - 1 /\ all[k][2] = i + (k - n) /\ ~IsMatch(all[k])
    OBVIOUS
  <2>1. i + (k - n) - 1 \in 1 .. L /\ (i + (k - n) - 1) + 1 = i + (k - n)
    BY <1>0, <1>2
  <2> QED BY <1>2, <1>4, <2>1
<1>6. Follows(all, L + 1)
  <2>1. ASSUME NEW k \in 1 .. Len(all) - 1 PROVE all[k][2] = all[k + 1][1]
    <3>1. CASE k < n
      <4>1. k \in 1 .. n - 1 /\ k \in 1 .. n /\ k + 1 \in 1 .. n
        BY <1>2, <3>1
      <4> QED BY <1>2, <4>1 DEF Follows, n
    <3>2. CASE k = n
      <4>1. k \in 1 .. n /\ n + 1 \in n + 1 .. n + m /\ n # 0
        BY <1>0, <1>2, <2>1, <3>2
      <4>2. all[k][2] = i
        BY <1>2, <1>3, <3>2, <4>1 DEF Follows, n
      <4>3. all[n + 1][1] = i
        BY <1>0, <1>2, <1>5, <4>1
      <4> QED BY <3>2, <4>2, <4>3
    <3>3. CASE k > n
      <4>1. k \in n + 1 .. n + m /\ k + 1 \in n + 1 .. n + m /\ i + ((k + 1) - n) - 1 = i + (k - n)
        BY <1>0, <1>2, <2>1, <3>3
      <4> QED BY <1>5, <4>1
    <3> QED BY <1>2, <2>1, <3>1, <3>2, <3>3
  <2>2. ASSUME all # <<>> PROVE all[1][1] = 1 /\ all[Len(all)][2] = L + 1
    <3>1. all[1][1] = 1
      <4>1. CASE n = 0
        <5>1. 1 \in n + 1 .. n + m /\ i = 1
          BY <1>0, <1>2, <1>3, <2>2, <4>1 DEF Follows
        <5> QED BY <1>2, <1>5, <4>1, <5>1
      <4>2. CASE n # 0
        <5>1. 1 \in 1 .. n
          BY <1>2, <4>2
        <5> QED BY <1>2, <1>3, <4>2, <5>1 DEF Follows
      <4> QED BY <4>1, <4>2
    <3>2. all[Len(all)][2] = L + 1
      <4>1. CASE m = 0
        <5>1. n \in 1 .. n /\ Len(all) = n /\ i = L + 1 /\ n # 0
          BY <1>0, <1>2, <1>3, <2>2, <4>1
        <5> QED BY <1>2, <1>3, <5>1 DEF Follows, n
      <4>2. CASE m # 0
        <5>1. n + m \in n + 1 .. n + m /\ i + ((n + m) - n) = L + 1
          BY <1>0, <1>2, <4>2
        <5> QED BY <1>2, <1>5, <5>1
      <4> QED BY <4>1, <4>2
    <3> QED BY <3>1, <3>2
  <2>3. ASSUME all = <<>> PROVE L + 1 = 1
    BY <1>0, <1>2, <1>3, <2>3 DEF Follows
  <2> QED BY <2>1, <2>2, <2>3 DEF Follows
<1>7. \A k \in 1 .. n + m : IsMatch(all[k]) => k \in 1 .. n
  BY <1>0, <1>2, <1>5
<1>8. Ordered(all)
  BY <1>2, <1>7 DEF Ordered, n
<1>9. Made(all) = Made(out)
  <2>1. ASSUME NEW e \in Made(all) PROVE e \in Made(out)
    <3>1. PICK k \in 1 .. n + m : IsMatch(all[k]) /\ e = all[k]
      BY <1>2, <2>1 DEF Made
    <3> QED BY <1>2, <1>7, <3>1 DEF Made
  <2>2. ASSUME NEW e \in Made(out) PROVE e \in Made(all)
    <3>1. PICK k \in 1 .. n : IsMatch(out[k]) /\ e = out[k]
      BY <1>2, <2>2 DEF Made
    <3>2. k \in 1 .. n + m
      BY <1>0, <1>2
    <3> QED BY <1>2, <3>1, <3>2 DEF Made
  <2> QED BY <2>1, <2>2
<1> QED BY <1>2, <1>6, <1>8, <1>9 DEF all, rest, m

(* How far a match of gmatch takes the search.                                 *)
LEMMA FoundFacts ==
  ASSUME NEW x, GTyped(x), NEW k \in 1 .. Len(x.found), FoundAt(x, k)
  PROVE  /\ Len(x.s) \in Nat /\ Len(x.found) \in Nat
         /\ x.found[k][1] \in k .. Len(x.s) + 1
         /\ x.found[k][2] \in x.found[k][1] .. Len(x.s) + 1
         /\ StartOf(x, k) \in x.found[k][1] + 1 .. Len(x.s) + 2
         /\ x.found[k][2] <= StartOf(x, k)
<1> DEFINE a == x.found[k][1]
<1>1. a \in Places(x) /\ k <= a /\ Hit(x, a) /\ ~Raises(Here(x, a)) /\ x.found[k] = Found(a, Here(x, a))
  BY DEF FoundAt
<1>2. Len(x.found) \in Nat /\ k \in Nat /\ k # 0
  BY LenProperties DEF GTyped
<1> HIDE DEF a
<1>3. /\ Len(x.s) \in Nat
      /\ Here(x, a).e \in a .. Len(x.s) + 1
      /\ Found(a, Here(x, a))[2] = Here(x, a).e
  BY <1>1, PieceFacts
<1>4. x.found[k][2] \in a .. Len(x.s) + 1
  BY <1>1, <1>3
<1>5. StartOf(x, k) = IF x.found[k][2] = a THEN x.found[k][2] + 1 ELSE x.found[k][2]
  BY <1>2 DEF StartOf, NewStart, a
<1> QED BY <1>1, <1>2, <1>3, <1>4, <1>5 DEF a, Places

(* gmatch finds the next match, or that there is none.                         *)
LEMMA GMatchHolds ==
  ASSUME GInv(g), GMatch
  PROVE  GInv(g')
<1> DEFINE L == Len(g.s)
           n == Len(g.found)
           f == IF g.start > L + 1 THEN [at |-> Fail] ELSE FindFrom(g.s, g.start, g.p, FALSE)
<1>1. /\ g.pc = "gmatch" /\ GTyped(g) /\ FoundInv(g) /\ OutInv(g) /\ MadeInv(g)
      /\ g.s \in Subjects /\ L \in Nat /\ n \in Nat /\ g.start \in Nat /\ g.start >= 1
  BY SubjectLen, LenProperties DEF GMatch, GInv, GTyped
<1>2. g.n = 0 /\ g.out = <<>> /\ g.src = 1
  BY <1>1 DEF MadeInv
<1>3. Made(<<>>) = {} /\ \A x : FirstFound(x, 0) = {}
  <2>1. DOMAIN <<>> = {}
    BY EmptySeq, LenProperties
  <2> QED BY <2>1 DEF Made, FirstFound
<1>4. g' = IF f.at = Fail THEN [g EXCEPT !.pc = "gsub"]
           ELSE IF Raises(f.r) THEN Stop(g)
           ELSE [g EXCEPT !.found = Append(@, Found(f.at, f.r)), !.start = NewStart(f.at, f.r.e)]
  BY DEF GMatch
<1>5. \/ f.at = Fail /\ NoHits(g, g.start, L + 2)
      \/ /\ f.at \in g.start .. L + 1 /\ f.at # Fail
         /\ Hit(g, f.at) /\ NoHits(g, g.start, f.at) /\ f.r = Here(g, f.at)
  <2>1. CASE g.start > L + 1
    BY <1>1, <2>1 DEF NoHits
  <2>2. CASE ~(g.start > L + 1)
    <3>1. g.start \in 1 .. L + 1
      BY <1>1, <2>2
    <3>2. FoundFirst(f, g.s, g.start, g.p)
      BY <1>1, <2>2, <3>1, FindsFirst
    <3> HIDE DEF f
    <3>3. (L + 2) - 1 = L + 1
      BY <1>1
    <3> QED BY <1>1, <3>2, <3>3 DEF FoundFirst, FirstHit, NoHits, Hit, Here, Fail
  <2> QED BY <2>1, <2>2
<1> HIDE DEF f
<1>6. CASE f.at = Fail
  <2>1. g' = [g EXCEPT !.pc = "gsub"]
    BY <1>4, <1>6
  <2>2. NoHits(g, g.start, L + 2)
    BY <1>5, <1>6
  <2>3. /\ g'.s = g.s /\ g'.p = g.p /\ g'.found = g.found /\ g'.start = g.start /\ g'.out = g.out /\ g'.src = g.src
        /\ g'.n = g.n /\ g'.pc = "gsub"
    BY <1>1, <2>1 DEF GTyped
  <2>4. GTyped(g')
    BY <1>1, <2>1, <2>3 DEF GTyped, PiecesOf, Places, Here
  <2>5. FoundInv(g')
    BY <1>1, <2>2, <2>3 DEF FoundInv, FoundAt, StartOf, NoHits, Hit, Here, Places
  <2>6. OutInv(g')
    BY <1>1, <2>3 DEF OutInv
  <2>7. MadeInv(g')
    <3>1. StartOf(g', 0) = 1 /\ NoHits(g', 1, 1)
      BY DEF StartOf, NoHits
    <3> QED BY <1>1, <1>2, <1>3, <2>3, <3>1 DEF MadeInv
  <2> QED BY <2>4, <2>5, <2>6, <2>7 DEF GInv
<1>7. CASE f.at # Fail /\ Raises(f.r)
  <2>1. g' = [g EXCEPT !.pc = "error"]
    BY <1>4, <1>7 DEF Stop
  <2>3. /\ g'.s = g.s /\ g'.p = g.p /\ g'.found = g.found /\ g'.start = g.start /\ g'.out = g.out /\ g'.src = g.src
        /\ g'.n = g.n /\ g'.pc = "error"
    BY <1>1, <2>1 DEF GTyped
  <2>4. GTyped(g')
    BY <1>1, <2>1, <2>3 DEF GTyped, PiecesOf, Places, Here
  <2>5. FoundInv(g')
    BY <1>1, <2>3 DEF FoundInv, FoundAt, StartOf, NoHits, Hit, Here, Places
  <2>6. OutInv(g')
    BY <1>1, <2>3 DEF OutInv
  <2>7. MadeInv(g')
    BY <2>3 DEF MadeInv
  <2> QED BY <2>4, <2>5, <2>6, <2>7 DEF GInv
<1>8. CASE f.at # Fail /\ ~Raises(f.r)
  <2> DEFINE a == f.at
             piece == Found(a, Here(g, a))
  <2>1. /\ a \in g.start .. L + 1 /\ a \in Places(g) /\ a \in Nat
        /\ Hit(g, a) /\ NoHits(g, g.start, a) /\ ~Raises(Here(g, a)) /\ f.r = Here(g, a)
    BY <1>1, <1>5, <1>8 DEF Places
  <2>2. g' = [g EXCEPT !.found = Append(@, piece), !.start = NewStart(a, Here(g, a).e)]
    BY <1>4, <1>8, <2>1
  <2> HIDE DEF a
  <2>3. /\ piece \in PiecesOf(g) /\ piece[1] = a /\ piece[2] = Here(g, a).e
        /\ Here(g, a).e \in a .. L + 1
    BY <1>1, <2>1, PieceFacts
  <2> HIDE DEF piece
  <2>4. /\ g'.s = g.s /\ g'.p = g.p /\ g'.found = Append(g.found, piece) /\ g'.start = NewStart(a, piece[2])
        /\ g'.out = g.out /\ g'.src = g.src /\ g'.n = g.n /\ g'.pc = "gmatch"
    BY <1>1, <2>2, <2>3 DEF GTyped
  <2>5. /\ g'.found \in Seq(PiecesOf(g)) /\ Len(g'.found) = n + 1 /\ g'.found[n + 1] = piece
        /\ \A k \in 1 .. n : g'.found[k] = g.found[k]
    <3>1. g.found \in Seq(PiecesOf(g))
      BY <1>1 DEF GTyped
    <3> QED BY <2>3, <2>4, <3>1
  <2>6. NewStart(a, piece[2]) \in Nat /\ NewStart(a, piece[2]) >= 1
    BY <2>1, <2>3 DEF NewStart
  <2>7. PiecesOf(g') = PiecesOf(g) /\ Places(g') = Places(g)
    BY <2>4 DEF PiecesOf, Places, Here
  <2>8. GTyped(g')
    <3>1. g' \in [s : Subjects, p : Patterns, anchor : BOOLEAN, max : Nat, start : Nat, found : Seq(PiecesOf(g)),
                  src : Nat, n : Nat, out : Seq(PiecesOf(g)), pc : {"gmatch", "gsub", "done", "error"}]
      BY <1>1, <2>2, <2>3, <2>4, <2>5, <2>6 DEF GTyped
    <3> QED BY <1>1, <2>4, <2>6, <2>7, <3>1 DEF GTyped
  <2>9. \A k \in 0 .. n : StartOf(g', k) = StartOf(g, k)
    BY <1>1, <2>5 DEF StartOf
  <2>10. FoundInv(g')
    <3>1. ASSUME NEW k \in 1 .. n PROVE FoundAt(g', k)
      <4>1. k - 1 \in 0 .. n /\ FoundAt(g, k)
        BY <1>1 DEF FoundInv
      <4> QED BY <2>4, <2>5, <2>7, <2>9, <4>1 DEF FoundAt, NoHits, Hit, Here
    <3>2. n + 1 <= a
      <4>1. CASE n = 0
        BY <1>1, <2>1, <4>1
      <4>2. CASE n # 0
        <5>1. n \in 1 .. Len(g.found)
          BY <1>1, <4>2
        <5>2. FoundAt(g, n) /\ g.start = StartOf(g, n)
          BY <1>1, <5>1 DEF FoundInv
        <5>3. g.found[n][1] \in n .. L + 1 /\ StartOf(g, n) \in g.found[n][1] + 1 .. L + 2
          BY <1>1, <5>1, <5>2, FoundFacts
        <5> QED BY <1>1, <2>1, <5>2, <5>3
      <4> QED BY <4>1, <4>2
    <3>3. FoundAt(g', n + 1)
      <4>1. (n + 1) - 1 = n /\ n \in 0 .. n
        BY <1>1
      <4>2. StartOf(g', n) = g.start
        BY <1>1, <2>9, <4>1 DEF FoundInv
      <4>3. g'.found[n + 1][1] = a
        BY <2>3, <2>5
      <4>4. StartOf(g', (n + 1) - 1) <= a /\ NoHits(g', StartOf(g', (n + 1) - 1), a)
        BY <1>1, <2>1, <2>4, <4>1, <4>2 DEF NoHits, Hit, Here
      <4> QED BY <2>1, <2>4, <2>5, <2>7, <3>2, <4>3, <4>4 DEF FoundAt, Hit, Here, piece
    <3>4. g'.start = StartOf(g', Len(g'.found))
      BY <1>1, <2>3, <2>4, <2>5 DEF StartOf
    <3>5. \A k \in 1 .. n + 1 : k \in 1 .. n \/ k = n + 1
      BY <1>1
    <3> QED BY <2>4, <2>5, <3>1, <3>3, <3>4, <3>5 DEF FoundInv
  <2>11. OutInv(g')
    BY <1>1, <2>4 DEF OutInv
  <2>12. MadeInv(g')
    <3>1. StartOf(g', 0) = 1 /\ NoHits(g', 1, 1)
      BY DEF StartOf, NoHits
    <3> QED BY <1>1, <1>2, <1>3, <2>4, <2>5, <3>1 DEF MadeInv
  <2> QED BY <2>8, <2>10, <2>11, <2>12 DEF GInv
<1> QED BY <1>6, <1>7, <1>8

(* A match of a gsub of everything is the next of gmatch.                      *)
LEMMA NextFound ==
  ASSUME NEW x, GInv(x), x.pc = "gsub", Everything(x), Hit(x, x.src), ~Raises(Here(x, x.src))
  PROVE  /\ x.n + 1 <= Len(x.found)
         /\ x.found[x.n + 1] = Found(x.src, Here(x, x.src))
<1> DEFINE n == x.n
<1>1. /\ GTyped(x) /\ FoundInv(x) /\ Len(x.s) \in Nat /\ Len(x.found) \in Nat /\ n \in Nat /\ x.src \in Nat
      /\ x.src <= Len(x.s) + 1 /\ n <= Len(x.found) /\ StartOf(x, n) <= x.src /\ NoHits(x, StartOf(x, n), x.src)
  BY SubjectLen, LenProperties DEF GInv, GTyped, MadeInv, Places
<1>2. ASSUME n = Len(x.found) PROVE FALSE
  <2>1. NoHits(x, StartOf(x, n), Len(x.s) + 2)
    BY <1>1, <1>2 DEF FoundInv
  <2>2. StartOf(x, n) \in Int
    <3>1. CASE n = 0
      BY <3>1 DEF StartOf
    <3>2. CASE n # 0
      <4>1. n \in 1 .. Len(x.found) /\ FoundAt(x, n)
        BY <1>1, <1>2, <3>2 DEF FoundInv
      <4> QED BY <1>1, <4>1, FoundFacts
    <3> QED BY <3>1, <3>2
  <2>3. x.src \in StartOf(x, n) .. (Len(x.s) + 2) - 1
    BY <1>1, <2>2
  <2> QED BY <2>1, <2>3 DEF NoHits
<1>3. n + 1 \in 1 .. Len(x.found) /\ (n + 1) - 1 = n
  BY <1>1, <1>2
<1> DEFINE a == x.found[n + 1][1]
<1>4. /\ a \in Places(x) /\ Hit(x, a) /\ x.found[n + 1] = Found(a, Here(x, a))
      /\ StartOf(x, n) <= a /\ NoHits(x, StartOf(x, n), a)
  BY <1>1, <1>3 DEF FoundInv, FoundAt
<1>5. StartOf(x, n) \in Int
  <2>1. CASE n = 0
    BY <2>1 DEF StartOf
  <2>2. CASE n # 0
    <3>1. n \in 1 .. Len(x.found) /\ FoundAt(x, n)
      BY <1>1, <2>2 DEF FoundInv
    <3> QED BY <1>1, <3>1, FoundFacts
  <2> QED BY <2>1, <2>2
<1> HIDE DEF a, n
<1>6. a \in Nat
  BY <1>1, <1>4 DEF Places
<1>7. ~(a < x.src)
  <2> SUFFICES ASSUME a < x.src PROVE FALSE
    OBVIOUS
  <2>1. a \in StartOf(x, n) .. x.src - 1
    BY <1>1, <1>4, <1>5, <1>6
  <2> QED BY <1>1, <1>4, <2>1 DEF NoHits
<1>8. ~(x.src < a)
  <2> SUFFICES ASSUME x.src < a PROVE FALSE
    OBVIOUS
  <2>1. x.src \in StartOf(x, n) .. a - 1
    BY <1>1, <1>4, <1>5, <1>6
  <2> QED BY <1>4, <2>1 DEF NoHits
<1>9. a = x.src
  BY <1>1, <1>6, <1>7, <1>8
<1> QED BY <1>1, <1>3, <1>4, <1>9 DEF n

(* The matches of gmatch begin at different places, so there are not more of   *)
(* them than places.                                                           *)
LEMMA FoundFew ==
  ASSUME NEW x, GTyped(x), FoundInv(x)
  PROVE  Len(x.found) <= Len(x.s) + 1
<1> DEFINE n == Len(x.found)
<1>1. Len(x.s) \in Nat /\ n \in Nat
  BY SubjectLen, LenProperties DEF GTyped
<1>2. CASE n = 0
  BY <1>1, <1>2
<1>3. CASE n # 0
  <2>1. n \in 1 .. Len(x.found) /\ FoundAt(x, n)
    BY <1>1, <1>3 DEF FoundInv
  <2>2. x.found[n][1] \in n .. Len(x.s) + 1
    BY <2>1, FoundFacts
  <2> QED BY <1>1, <2>2
<1> QED BY <1>2, <1>3

(* What is below a place is below one further on.                              *)
LEMMA BelowMore ==
  ASSUME NEW x, GTyped(x), NEW out \in Seq(PiecesOf(x)), NEW m \in Nat, Below(out, m), NEW n \in Nat, m <= n
  PROVE  Below(out, n)
<1> SUFFICES ASSUME NEW k \in 1 .. Len(out), IsMatch(out[k]) PROVE out[k][1] < n
  BY DEF Below
<1>1. out[k] \in PiecesOf(x)
  BY LenProperties
<1>2. out[k][1] \in Nat
  <2>1. CASE \E i \in Places(x) : out[k] = Found(i, Here(x, i))
    BY <2>1, PieceFacts DEF Places
  <2>2. CASE \E i \in 1 .. Len(x.s) : out[k] = Kept(i)
    BY <2>2 DEF Kept
  <2> QED BY <1>1, <2>1, <2>2 DEF PiecesOf
<1> QED BY <1>2 DEF Below

(* gsub where it stands, its match added, and where that ends.                 *)
Replaced(x) == IF Hit(x, x.src) THEN Add(x, Here(x, x.src)) ELSE x
EndOf(x) == IF Hit(x, x.src) THEN Here(x, x.src).e ELSE x.src

(* Its pieces are in order, and the matches among them those of gmatch.        *)
LEMMA ReplacedFacts ==
  ASSUME NEW x, GInv(x), x.pc = "gsub", ~Raises(Here(x, x.src))
  PROVE  LET y == Replaced(x)
         IN  /\ GTyped(y) /\ y.s = x.s /\ y.p = x.p /\ y.found = x.found /\ y.start = x.start /\ y.src = x.src
             /\ y.pc = "gsub" /\ y.anchor = x.anchor /\ y.max = x.max
             /\ y.n = IF Hit(x, x.src) THEN x.n + 1 ELSE x.n
             /\ EndOf(x) \in x.src .. Len(x.s) + 1
             /\ Follows(y.out, EndOf(x)) /\ Ordered(y.out) /\ Below(y.out, x.src + 1)
             /\ Everything(x) => y.n <= Len(x.found) /\ Made(y.out) = FirstFound(x, y.n)
<1> DEFINE y == Replaced(x)
           piece == Found(x.src, Here(x, x.src))
<1>1. /\ GTyped(x) /\ x.src \in Places(x) /\ Len(x.s) \in Nat /\ x.src \in Nat /\ x.src <= Len(x.s) + 1
      /\ x.n \in Nat /\ x.out \in Seq(PiecesOf(x)) /\ Follows(x.out, x.src) /\ Ordered(x.out) /\ Below(x.out, x.src)
      /\ Everything(x) => x.n <= Len(x.found) /\ Made(x.out) = FirstFound(x, x.n)
  BY SubjectLen DEF GInv, GTyped, OutInv, MadeInv, Places
<1>2. /\ piece \in PiecesOf(x) /\ piece[1] = x.src /\ piece[2] = Here(x, x.src).e /\ IsMatch(piece)
      /\ Hit(x, x.src) => Here(x, x.src).e \in x.src .. Len(x.s) + 1
  BY <1>1, PieceFacts
<1>3. CASE ~Hit(x, x.src)
  <2>1. y = x /\ EndOf(x) = x.src
    BY <1>3 DEF Replaced, EndOf
  <2>2. Below(x.out, x.src + 1)
    BY <1>1, BelowMore
  <2> QED BY <1>1, <1>3, <2>1, <2>2
<1>4. CASE Hit(x, x.src)
  <2>1. y = [x EXCEPT !.out = Append(@, piece), !.n = @ + 1] /\ EndOf(x) = piece[2]
    BY <1>2, <1>4 DEF Replaced, EndOf, Add
  <2> HIDE DEF y, piece
  <2>2. /\ y.s = x.s /\ y.p = x.p /\ y.found = x.found /\ y.start = x.start /\ y.src = x.src
        /\ y.pc = "gsub" /\ y.anchor = x.anchor /\ y.max = x.max /\ y.n = x.n + 1 /\ y.out = Append(x.out, piece)
    BY <1>1, <2>1 DEF GTyped
  <2>3. /\ y.out \in Seq(PiecesOf(x)) /\ Follows(y.out, piece[2]) /\ Ordered(y.out)
        /\ \A m : Below(x.out, m) /\ (IsMatch(piece) => piece[1] < m) => Below(y.out, m)
        /\ Made(y.out) = Made(x.out) \cup {piece}
    BY <1>1, <1>2, <2>2, OnePiece
  <2>4. Below(x.out, x.src + 1)
    BY <1>1, BelowMore
  <2>5. Below(y.out, x.src + 1)
    BY <1>1, <1>2, <2>3, <2>4
  <2>6. GTyped(y)
    <3>1. PiecesOf(y) = PiecesOf(x) /\ Places(y) = Places(x)
      BY <2>2 DEF PiecesOf, Places, Here
    <3>2. y \in [s : Subjects, p : Patterns, anchor : BOOLEAN, max : Nat, start : Nat, found : Seq(PiecesOf(x)),
                 src : Nat, n : Nat, out : Seq(PiecesOf(x)), pc : {"gmatch", "gsub", "done", "error"}]
      <4>1. x \in [s : Subjects, p : Patterns, anchor : BOOLEAN, max : Nat, start : Nat, found : Seq(PiecesOf(x)),
                   src : Nat, n : Nat, out : Seq(PiecesOf(x)), pc : {"gmatch", "gsub", "done", "error"}]
        BY <1>1 DEF GTyped
      <4>2. y = [x EXCEPT !.out = y.out, !.n = x.n + 1] /\ x.n + 1 \in Nat
        BY <1>1, <2>1, <2>2
      <4> QED BY <2>3, <4>1, <4>2
    <3> QED BY <1>1, <2>2, <3>1, <3>2 DEF GTyped
  <2>7. ASSUME Everything(x) PROVE y.n <= Len(x.found) /\ Made(y.out) = FirstFound(x, y.n)
    <3>1. x.n + 1 <= Len(x.found) /\ x.found[x.n + 1] = piece
      BY <1>4, <2>7, NextFound DEF piece
    <3>2. FirstFound(x, x.n + 1) = FirstFound(x, x.n) \cup {piece}
      <4>1. \A k \in 1 .. x.n + 1 : k \in 1 .. x.n \/ k = x.n + 1
        BY <1>1
      <4>2. x.n + 1 \in 1 .. x.n + 1 /\ \A k \in 1 .. x.n : k \in 1 .. x.n + 1
        BY <1>1
      <4> QED BY <3>1, <4>1, <4>2 DEF FirstFound
    <3> QED BY <1>1, <2>2, <2>3, <2>7, <3>1, <3>2
  <2> QED BY <1>2, <1>4, <2>1, <2>2, <2>3, <2>5, <2>6, <2>7 DEF y
<1> QED BY <1>3, <1>4

(* Then it goes on behind the match, or one character further.                 *)
LEMMA SkippedFacts ==
  ASSUME NEW x, GInv(x), x.pc = "gsub", ~Raises(Here(x, x.src)), EndOf(x) = x.src => x.src <= Len(x.s)
  PROVE  LET y == Skipped(Replaced(x), Here(x, x.src))
         IN  /\ GTyped(y) /\ y.s = x.s /\ y.p = x.p /\ y.found = x.found /\ y.start = x.start
             /\ y.pc = "gsub" /\ y.anchor = x.anchor /\ y.max = x.max /\ y.n = Replaced(x).n
             /\ y.src = IF EndOf(x) = x.src THEN x.src + 1 ELSE EndOf(x)
             /\ Follows(y.out, y.src) /\ Ordered(y.out) /\ Below(y.out, y.src)
             /\ Made(y.out) = Made(Replaced(x).out)
<1> DEFINE z == Replaced(x)
           y == Skipped(z, Here(x, x.src))
           end == EndOf(x)
<1>1. /\ GTyped(z) /\ z.s = x.s /\ z.p = x.p /\ z.found = x.found /\ z.start = x.start /\ z.src = x.src
      /\ z.pc = "gsub" /\ z.anchor = x.anchor /\ z.max = x.max
      /\ end \in x.src .. Len(x.s) + 1
      /\ Follows(z.out, end) /\ Ordered(z.out) /\ Below(z.out, x.src + 1)
  BY ReplacedFacts
<1>2. GTyped(x) /\ Len(x.s) \in Nat /\ x.src \in Nat /\ x.src \in Places(x) /\ x.src >= 1 /\ x.src <= Len(x.s) + 1
  BY SubjectLen DEF GInv, GTyped, Places
<1>3. z.out \in Seq(PiecesOf(z)) /\ x.src \in Places(z)
  BY <1>1, <1>2 DEF GTyped, Places
<1>4. y = IF end # x.src THEN [z EXCEPT !.src = end] ELSE Keep(z)
  <2>1. CASE Hit(x, x.src)
    BY <1>1, <1>2, <2>1 DEF Skipped, EndOf, Hit
  <2>2. CASE ~Hit(x, x.src)
    BY <2>2 DEF Skipped, EndOf, Hit
  <2> QED BY <2>1, <2>2
<1>5. z \in [s : Subjects, p : Patterns, anchor : BOOLEAN, max : Nat, start : Nat, found : Seq(PiecesOf(z)),
             src : Nat, n : Nat, out : Seq(PiecesOf(z)), pc : {"gmatch", "gsub", "done", "error"}]
  BY <1>1 DEF GTyped
<1> HIDE DEF z, y, end
<1>6. CASE end # x.src
  <2>1. y = [z EXCEPT !.src = end] /\ end \in Nat /\ end \in Places(x) /\ x.src + 1 \in Nat /\ x.src + 1 <= end
    BY <1>1, <1>2, <1>4, <1>6 DEF Places
  <2>2. /\ y.s = z.s /\ y.p = z.p /\ y.found = z.found /\ y.start = z.start /\ y.pc = z.pc /\ y.anchor = z.anchor
        /\ y.max = z.max /\ y.n = z.n /\ y.out = z.out /\ y.src = end
    BY <1>5, <2>1
  <2>3. PiecesOf(y) = PiecesOf(z) /\ Places(y) = Places(x)
    BY <1>1, <2>2 DEF PiecesOf, Places, Here
  <2>4. y \in [s : Subjects, p : Patterns, anchor : BOOLEAN, max : Nat, start : Nat, found : Seq(PiecesOf(z)),
               src : Nat, n : Nat, out : Seq(PiecesOf(z)), pc : {"gmatch", "gsub", "done", "error"}]
    BY <1>5, <2>1
  <2>5. GTyped(y)
    BY <1>1, <2>1, <2>2, <2>3, <2>4 DEF GTyped
  <2>6. Below(z.out, end)
    BY <1>1, <1>3, <2>1, BelowMore
  <2> QED BY <1>1, <1>6, <2>2, <2>5, <2>6 DEF z, y, end
<1>7. CASE end = x.src
  <2> DEFINE piece == Kept(x.src)
  <2>1. /\ piece \in PiecesOf(z) /\ piece[1] = x.src /\ piece[2] = x.src + 1 /\ ~IsMatch(piece)
        /\ x.src <= Len(x.s)
    BY <1>1, <1>3, <1>7, PieceFacts DEF end
  <2>2. y = [z EXCEPT !.out = Append(@, piece), !.src = @ + 1]
    BY <1>1, <1>4, <1>7 DEF Keep
  <2> HIDE DEF piece
  <2>3. /\ y.s = z.s /\ y.p = z.p /\ y.found = z.found /\ y.start = z.start /\ y.pc = z.pc /\ y.anchor = z.anchor
        /\ y.max = z.max /\ y.n = z.n /\ y.out = Append(z.out, piece) /\ y.src = x.src + 1
    BY <1>1, <1>5, <2>2
  <2>4. PiecesOf(y) = PiecesOf(z) /\ Places(y) = Places(x)
    BY <1>1, <2>3 DEF PiecesOf, Places, Here
  <2>5. /\ y.out \in Seq(PiecesOf(z)) /\ Follows(y.out, x.src + 1) /\ Ordered(y.out) /\ Made(y.out) = Made(z.out)
        /\ Below(y.out, x.src + 1)
    BY <1>1, <1>3, <1>7, <2>1, <2>3, OnePiece
  <2>6. y \in [s : Subjects, p : Patterns, anchor : BOOLEAN, max : Nat, start : Nat, found : Seq(PiecesOf(z)),
               src : Nat, n : Nat, out : Seq(PiecesOf(z)), pc : {"gmatch", "gsub", "done", "error"}]
    <3>1. y = [z EXCEPT !.out = y.out, !.src = x.src + 1] /\ x.src + 1 \in Nat
      BY <1>1, <1>2, <2>2, <2>3
    <3> QED BY <1>5, <2>5, <3>1
  <2>7. GTyped(y)
    <3>1. x.src + 1 \in Places(x)
      BY <1>2, <2>1 DEF Places
    <3> QED BY <1>1, <2>3, <2>4, <2>6, <3>1 DEF GTyped
  <2> QED BY <1>1, <1>7, <2>3, <2>5, <2>7 DEF z, y, end
<1> QED BY <1>6, <1>7

(* The rest is kept, and the pieces reach the end.                             *)
LEMMA RestKept ==
  ASSUME NEW x, GTyped(x), x.pc = "gsub", Follows(x.out, x.src), Ordered(x.out)
  PROVE  LET y == KeepRest(x)
         IN  /\ GTyped(y) /\ y.s = x.s /\ y.p = x.p /\ y.found = x.found /\ y.start = x.start
             /\ y.pc = "done" /\ y.anchor = x.anchor /\ y.max = x.max
             /\ OutInv(y) /\ Made(y.out) = Made(x.out)
<1> DEFINE y == KeepRest(x)
           L == Len(x.s)
           all == x.out \o [k \in 1 .. L + 1 - x.src |-> Kept(x.src + k - 1)]
<1>1. L \in Nat /\ x.src \in 1 .. L + 1 /\ x.out \in Seq(PiecesOf(x)) /\ x.src \in Places(x)
  BY SubjectLen DEF GTyped, Places
<1>2. \A j \in 1 .. L : Kept(j) \in PiecesOf(x) /\ ~IsMatch(Kept(j))
  BY DEF PiecesOf, Kept, IsMatch
<1>3. all \in Seq(PiecesOf(x)) /\ Follows(all, L + 1) /\ Ordered(all) /\ Made(all) = Made(x.out)
  BY <1>1, <1>2, RestPieces
<1>4. y = [x EXCEPT !.pc = "done", !.out = all]
  BY DEF KeepRest
<1> HIDE DEF y, all
<1>5. x \in [s : Subjects, p : Patterns, anchor : BOOLEAN, max : Nat, start : Nat, found : Seq(PiecesOf(x)),
             src : Nat, n : Nat, out : Seq(PiecesOf(x)), pc : {"gmatch", "gsub", "done", "error"}]
  BY DEF GTyped
<1>6. /\ y.s = x.s /\ y.p = x.p /\ y.found = x.found /\ y.start = x.start /\ y.pc = "done" /\ y.anchor = x.anchor
      /\ y.max = x.max /\ y.out = all /\ y.src = x.src
  BY <1>4, <1>5
<1>7. PiecesOf(y) = PiecesOf(x) /\ Places(y) = Places(x)
  BY <1>6 DEF PiecesOf, Places, Here
<1>8. y \in [s : Subjects, p : Patterns, anchor : BOOLEAN, max : Nat, start : Nat, found : Seq(PiecesOf(x)),
             src : Nat, n : Nat, out : Seq(PiecesOf(x)), pc : {"gmatch", "gsub", "done", "error"}]
  BY <1>3, <1>4, <1>5
<1>9. GTyped(y)
  BY <1>6, <1>7, <1>8 DEF GTyped
<1> QED BY <1>3, <1>6, <1>9 DEF OutInv, y

(* What is the same for gmatch is as it was.                                   *)
LEMMA FoundKept ==
  ASSUME NEW x, NEW y, FoundInv(x), x.pc = "gsub", y.s = x.s, y.p = x.p, y.found = x.found, y.start = x.start
  PROVE  FoundInv(y) /\ \A n, i, j : StartOf(y, n) = StartOf(x, n) /\ FirstFound(y, n) = FirstFound(x, n)
                                    /\ (NoHits(y, i, j) <=> NoHits(x, i, j))
<1>1. \A n, i, j : /\ StartOf(y, n) = StartOf(x, n) /\ FirstFound(y, n) = FirstFound(x, n)
                   /\ NoHits(y, i, j) <=> NoHits(x, i, j)
  BY DEF StartOf, FirstFound, NoHits, Hit, Here
<1>2. ASSUME NEW k \in 1 .. Len(y.found) PROVE FoundAt(y, k)
  <2>1. FoundAt(x, k)
    BY DEF FoundInv
  <2> QED BY <1>1, <2>1 DEF FoundAt, Places, Hit, Here
<1> QED BY <1>1, <1>2 DEF FoundInv

(* When gsub is at its end no match of gmatch is left.                         *)
LEMMA NoneLeft ==
  ASSUME NEW x, GInv(x), x.pc = "gsub", Everything(x), ~Raises(Here(x, x.src)),
         EndOf(x) = x.src, x.src > Len(x.s)
  PROVE  Replaced(x).n = Len(x.found)
<1> DEFINE n == Replaced(x).n
           L == Len(x.s)
<1>1. /\ GTyped(x) /\ FoundInv(x) /\ L \in Nat /\ Len(x.found) \in Nat /\ x.n \in Nat /\ x.src = L + 1
      /\ NoHits(x, StartOf(x, x.n), x.src)
  BY SubjectLen, LenProperties DEF GInv, GTyped, MadeInv, Places
<1>2. n \in Nat /\ n <= Len(x.found) /\ n = IF Hit(x, x.src) THEN x.n + 1 ELSE x.n
  BY <1>1, ReplacedFacts
<1> HIDE DEF n
<1> SUFFICES ASSUME n < Len(x.found) PROVE FALSE
  BY <1>1, <1>2 DEF n
<1>3. n + 1 \in 1 .. Len(x.found) /\ (n + 1) - 1 = n
  BY <1>1, <1>2
<1> DEFINE a == x.found[n + 1][1]
<1>4. a \in Places(x) /\ Hit(x, a) /\ StartOf(x, n) <= a
  BY <1>1, <1>3 DEF FoundInv, FoundAt
<1> HIDE DEF a
<1>5. a \in Nat /\ a <= L + 1
  BY <1>1, <1>4 DEF Places
<1>6. CASE Hit(x, x.src)
  <2>1. x.found[n] = Found(x.src, Here(x, x.src))
    BY <1>2, <1>6, NextFound
  <2>2. Found(x.src, Here(x, x.src))[1] = x.src /\ Found(x.src, Here(x, x.src))[2] = x.src
    BY <1>6 DEF Found, EndOf
  <2>3. StartOf(x, n) = x.src + 1
    BY <1>1, <1>2, <1>6, <2>1, <2>2 DEF StartOf, NewStart
  <2> QED BY <1>1, <1>4, <1>5, <2>3
<1>7. CASE ~Hit(x, x.src)
  <2>1. n = x.n /\ a # x.src
    BY <1>2, <1>4, <1>7
  <2>2. StartOf(x, n) \in Int
    <3>1. CASE n = 0
      BY <3>1 DEF StartOf
    <3>2. CASE n # 0
      <4>1. n \in 1 .. Len(x.found)
        BY <1>1, <1>2, <3>2
      <4>2. FoundAt(x, n)
        BY <1>1, <4>1 DEF FoundInv
      <4> QED BY <1>1, <4>1, <4>2, FoundFacts
    <3> QED BY <3>1, <3>2
  <2>3. a \in StartOf(x, n) .. x.src - 1
    BY <1>1, <1>4, <1>5, <2>1, <2>2
  <2> QED BY <1>1, <1>4, <2>1, <2>3 DEF NoHits
<1> QED BY <1>6, <1>7

(* A turn of gsub.                                                             *)
LEMMA GSubHolds ==
  ASSUME GInv(g), GSub
  PROVE  GInv(g')
<1> DEFINE r == Here(g, g.src)
           x == Replaced(g)
           y == Skipped(x, r)
           L == Len(g.s)
<1>1. /\ g.pc = "gsub" /\ GTyped(g) /\ FoundInv(g) /\ OutInv(g) /\ MadeInv(g) /\ L \in Nat /\ g.src \in Nat
      /\ g.src \in Places(g) /\ g.src <= L + 1 /\ g.n \in Nat /\ g.max \in Nat /\ Len(g.found) \in Nat
      /\ g.anchor \in BOOLEAN
  BY SubjectLen, LenProperties DEF GSub, GInv, GTyped, Places
<1>2. x = IF Got(r) THEN Add(g, r) ELSE g
  BY DEF Replaced, Hit
<1>3. (~Got(r) \/ r.e = g.src) <=> EndOf(g) = g.src
  BY DEF EndOf, Hit
<1>4. g' = IF g.n >= g.max THEN KeepRest(g)
           ELSE IF Raises(r) THEN Stop(g)
           ELSE IF EndOf(g) = g.src /\ g.src > L THEN KeepRest(x)
           ELSE IF g.anchor THEN KeepRest(y) ELSE y
  BY <1>2, <1>3 DEF GSub, Here
<1>5. CASE g.n >= g.max
  <2>1. g' = KeepRest(g) /\ Follows(g.out, g.src) /\ Ordered(g.out)
    BY <1>1, <1>4, <1>5 DEF OutInv
  <2>2. /\ GTyped(g') /\ g'.s = g.s /\ g'.p = g.p /\ g'.found = g.found /\ g'.start = g.start
        /\ g'.pc = "done" /\ g'.anchor = g.anchor /\ g'.max = g.max
        /\ OutInv(g') /\ Made(g'.out) = Made(g.out)
    BY <1>1, <2>1, RestKept
  <2>3. FoundInv(g') /\ \A n : FirstFound(g', n) = FirstFound(g, n)
    BY <1>1, <2>2, FoundKept
  <2>4. ASSUME Everything(g) PROVE g.n = Len(g.found)
    <3>1. Len(g.found) <= L + 1
      BY <1>1, FoundFew
    <3>2. g.n <= Len(g.found) /\ g.max > L
      BY <1>1, <2>4 DEF MadeInv, Everything
    <3> QED BY <1>1, <1>5, <3>1, <3>2
  <2>5. MadeInv(g')
    BY <1>1, <2>2, <2>3, <2>4 DEF MadeInv, Everything
  <2> QED BY <2>2, <2>3, <2>5 DEF GInv
<1>6. CASE ~(g.n >= g.max) /\ Raises(r)
  <2>1. g' = [g EXCEPT !.pc = "error"]
    BY <1>4, <1>6 DEF Stop
  <2>2. /\ g'.s = g.s /\ g'.p = g.p /\ g'.found = g.found /\ g'.start = g.start /\ g'.out = g.out /\ g'.src = g.src
        /\ g'.n = g.n /\ g'.pc = "error"
    BY <1>1, <2>1 DEF GTyped
  <2>3. GTyped(g')
    BY <1>1, <2>1, <2>2 DEF GTyped, PiecesOf, Places, Here
  <2>4. FoundInv(g')
    BY <1>1, <2>2, FoundKept
  <2> QED BY <1>1, <2>2, <2>3, <2>4 DEF GInv, OutInv, MadeInv
<1>7. CASE ~(g.n >= g.max) /\ ~Raises(r) /\ EndOf(g) = g.src /\ g.src > L
  <2>1. g' = KeepRest(x)
    BY <1>4, <1>7
  <2>2. /\ GTyped(x) /\ x.s = g.s /\ x.p = g.p /\ x.found = g.found /\ x.start = g.start /\ x.src = g.src
        /\ x.pc = "gsub" /\ x.anchor = g.anchor /\ x.max = g.max
        /\ Follows(x.out, x.src) /\ Ordered(x.out)
        /\ Everything(g) => Made(x.out) = FirstFound(g, x.n)
    BY <1>1, <1>7, ReplacedFacts
  <2> HIDE DEF x
  <2>3. /\ GTyped(g') /\ g'.s = x.s /\ g'.p = x.p /\ g'.found = x.found /\ g'.start = x.start
        /\ g'.pc = "done" /\ g'.anchor = x.anchor /\ g'.max = x.max
        /\ OutInv(g') /\ Made(g'.out) = Made(x.out)
    BY <2>1, <2>2, RestKept
  <2>4. FoundInv(g') /\ \A n : FirstFound(g', n) = FirstFound(g, n)
    BY <1>1, <2>2, <2>3, FoundKept
  <2>5. ASSUME Everything(g) PROVE x.n = Len(g.found)
    BY <1>1, <1>7, <2>5, NoneLeft DEF x
  <2>6. MadeInv(g')
    BY <1>1, <2>2, <2>3, <2>4, <2>5 DEF MadeInv, Everything
  <2> QED BY <2>3, <2>4, <2>6 DEF GInv
<1>8. CASE ~(g.n >= g.max) /\ ~Raises(r) /\ ~(EndOf(g) = g.src /\ g.src > L)
  <2>1. EndOf(g) = g.src => g.src <= L
    BY <1>1, <1>8
  <2>2. /\ GTyped(y) /\ y.s = g.s /\ y.p = g.p /\ y.found = g.found /\ y.start = g.start
        /\ y.pc = "gsub" /\ y.anchor = g.anchor /\ y.max = g.max /\ y.n = x.n
        /\ y.src = IF EndOf(g) = g.src THEN g.src + 1 ELSE EndOf(g)
        /\ Follows(y.out, y.src) /\ Ordered(y.out) /\ Below(y.out, y.src)
        /\ Made(y.out) = Made(x.out)
    BY <1>1, <1>8, <2>1, SkippedFacts
  <2>3. /\ x.n = IF Hit(g, g.src) THEN g.n + 1 ELSE g.n
        /\ EndOf(g) \in g.src .. L + 1
        /\ Everything(g) => x.n <= Len(g.found) /\ Made(x.out) = FirstFound(g, x.n)
    BY <1>1, <1>8, ReplacedFacts
  <2> HIDE DEF x, y
  <2>4. CASE g.anchor
    <3>1. g' = KeepRest(y)
      BY <1>4, <1>8, <2>4
    <3>2. /\ GTyped(g') /\ g'.s = y.s /\ g'.p = y.p /\ g'.found = y.found /\ g'.start = y.start
          /\ g'.pc = "done" /\ g'.anchor = y.anchor /\ OutInv(g')
      BY <2>2, <3>1, RestKept
    <3>3. FoundInv(g')
      BY <1>1, <2>2, <3>2, FoundKept
    <3> QED BY <2>2, <2>4, <3>2, <3>3 DEF GInv, MadeInv, Everything
  <2>5. CASE ~g.anchor
    <3>1. g' = y
      BY <1>4, <1>8, <2>5
    <3>2. FoundInv(y) /\ \A n, i, j : StartOf(y, n) = StartOf(g, n) /\ FirstFound(y, n) = FirstFound(g, n)
                                      /\ (NoHits(y, i, j) <=> NoHits(g, i, j))
      BY <1>1, <2>2, FoundKept
    <3>3. OutInv(y)
      BY <2>2 DEF OutInv
    <3>4. ASSUME Everything(g) PROVE StartOf(g, x.n) <= y.src /\ NoHits(g, StartOf(g, x.n), y.src)
      <4>1. CASE Hit(g, g.src)
        <5>1. /\ g.n + 1 <= Len(g.found) /\ g.found[g.n + 1] = Found(g.src, r)
          BY <1>1, <1>8, <3>4, <4>1, NextFound
        <5>2. Found(g.src, r)[1] = g.src /\ Found(g.src, r)[2] = EndOf(g)
          BY <4>1 DEF Found, EndOf
        <5>3. StartOf(g, x.n) = y.src
          BY <1>1, <2>2, <2>3, <4>1, <5>1, <5>2 DEF StartOf, NewStart
        <5>4. y.src \in Int
          BY <2>2 DEF GTyped
        <5> QED BY <5>3, <5>4 DEF NoHits
      <4>2. CASE ~Hit(g, g.src)
        <5>1. EndOf(g) = g.src /\ y.src = g.src + 1 /\ x.n = g.n
          BY <2>2, <2>3, <4>2 DEF EndOf
        <5>2. StartOf(g, g.n) <= g.src /\ NoHits(g, StartOf(g, g.n), g.src)
          BY <1>1, <3>4 DEF MadeInv
        <5>3. StartOf(g, g.n) \in Int
          <6>1. CASE g.n = 0
            BY <6>1 DEF StartOf
          <6>2. CASE g.n # 0
            <7>1. g.n \in 1 .. Len(g.found)
              BY <1>1, <2>3, <3>4, <5>1, <6>2
            <7>2. FoundAt(g, g.n)
              BY <1>1, <7>1 DEF FoundInv
            <7> QED BY <1>1, <7>1, <7>2, FoundFacts
          <6> QED BY <6>1, <6>2
        <5>4. \A k \in StartOf(g, g.n) .. (g.src + 1) - 1 : k \in StartOf(g, g.n) .. g.src - 1 \/ k = g.src
          BY <1>1, <5>3
        <5> QED BY <1>1, <4>2, <5>1, <5>2, <5>3, <5>4 DEF NoHits
      <4> QED BY <4>1, <4>2
    <3>5. MadeInv(y)
      BY <2>2, <2>3, <3>2, <3>4 DEF MadeInv, Everything
    <3> QED BY <2>2, <3>1, <3>2, <3>3, <3>5 DEF GInv
  <2> QED BY <1>1, <2>4, <2>5
<1> QED BY <1>5, <1>6, <1>7, <1>8

(* It begins with nothing found and nothing made.                              *)
LEMMA GInit ==
  ASSUME PatternInit
  PROVE  GInv(g)
<1>1. PICK s \in Subjects, p \in Patterns, anchor \in BOOLEAN, once \in BOOLEAN :
        g = Began(s, p, anchor, IF once THEN 1 ELSE Len(s) + 1)
  BY DEF PatternInit
<1>2. Len(s) \in Nat /\ Len(s) + 1 \in Nat /\ (IF once THEN 1 ELSE Len(s) + 1) \in Nat
  BY SubjectLen
<1>3. /\ g.s = s /\ g.p = p /\ g.anchor = anchor /\ g.start = 1 /\ g.found = <<>> /\ g.src = 1 /\ g.n = 0
      /\ g.out = <<>> /\ g.pc = "gmatch"
  BY <1>1 DEF Began
<1>4. \A S : <<>> \in Seq(S) /\ Len(<<>>) = 0
  BY EmptySeq
<1>5. GTyped(g)
  BY <1>1, <1>2, <1>3, <1>4 DEF GTyped, Began, Places
<1>6. FoundInv(g)
  BY <1>3, <1>4 DEF FoundInv, StartOf
<1>7. OutInv(g)
  BY <1>3, <1>4 DEF OutInv, Follows, Ordered, Below
<1>8. DOMAIN <<>> = {}
  BY EmptySeq, LenProperties
<1>9. Made(<<>>) = {} /\ FirstFound(g, 0) = {}
  BY <1>8 DEF Made, FirstFound
<1>10. StartOf(g, 0) = 1 /\ NoHits(g, 1, 1)
  BY DEF StartOf, NoHits
<1>11. MadeInv(g)
  <2>1. Made(g.out) = FirstFound(g, g.n)
    BY <1>3, <1>9
  <2>2. StartOf(g, g.n) = 1 /\ g.src = 1
    BY <1>3, <1>10
  <2>3. NoHits(g, StartOf(g, g.n), g.src)
    BY <1>10, <2>2
  <2>4. Len(g.found) = 0 /\ g.n = 0
    BY <1>3, <1>4
  <2>5. g.pc = "gmatch" /\ g.out = <<>> /\ g.pc # "done"
    BY <1>3
  <2>6. g.n <= Len(g.found) /\ StartOf(g, g.n) <= g.src
    BY <2>2, <2>4
  <2> HIDE DEF StartOf, NoHits
  <2> QED BY <2>1, <2>2, <2>3, <2>4, <2>5, <2>6 DEF MadeInv
<1> QED BY <1>5, <1>6, <1>7, <1>11 DEF GInv

(* The invariant says what Substitutes does.                                   *)
LEMMA GInvSubstitutes ==
  ASSUME GInv(g)
  PROVE  Substitutes
<1>1. /\ GTyped(g) /\ FoundInv(g) /\ OutInv(g) /\ MadeInv(g) /\ Len(g.s) \in Nat /\ Len(g.found) \in Nat
      /\ g.s \in Subjects
  BY SubjectLen, LenProperties DEF GInv, GTyped
<1>2. ASSUME NEW k \in 1 .. Len(g.found) - 1
      PROVE  g.found[k][1] < g.found[k + 1][1] /\ g.found[k][2] <= g.found[k + 1][1]
  <2>1. k \in 1 .. Len(g.found) /\ k + 1 \in 1 .. Len(g.found) /\ (k + 1) - 1 = k
    BY <1>1
  <2>2. FoundAt(g, k) /\ FoundAt(g, k + 1)
    BY <1>1, <2>1 DEF FoundInv
  <2>3. /\ g.found[k][1] \in k .. Len(g.s) + 1 /\ g.found[k][2] \in g.found[k][1] .. Len(g.s) + 1
        /\ StartOf(g, k) \in g.found[k][1] + 1 .. Len(g.s) + 2 /\ g.found[k][2] <= StartOf(g, k)
    BY <1>1, <2>1, <2>2, FoundFacts
  <2>4. StartOf(g, k) <= g.found[k + 1][1] /\ g.found[k + 1][1] \in Nat
    BY <1>1, <2>1, <2>2 DEF FoundAt, Places
  <2> QED BY <1>1, <2>1, <2>3, <2>4
<1>3. ASSUME g.pc = "done"
      PROVE  /\ \A k \in 1 .. Len(g.out) - 1 : g.out[k][2] = g.out[k + 1][1]
             /\ g.out # <<>> => g.out[1][1] = 1 /\ g.out[Len(g.out)][2] = Len(g.s) + 1
             /\ g.s # <<>> => g.out # <<>>
             /\ \A j, k \in DOMAIN g.out : j < k /\ IsMatch(g.out[j]) /\ IsMatch(g.out[k]) => g.out[j][1] < g.out[k][1]
             /\ ~g.anchor /\ g.max > Len(g.s) =>
                  {g.out[k] : k \in {j \in DOMAIN g.out : IsMatch(g.out[j])}} = {g.found[k] : k \in DOMAIN g.found}
  <2>1. Follows(g.out, Len(g.s) + 1) /\ Ordered(g.out)
    BY <1>1, <1>3 DEF OutInv
  <2>2. DOMAIN g.out = 1 .. Len(g.out) /\ DOMAIN g.found = 1 .. Len(g.found)
    BY <1>1, LenProperties DEF GTyped
  <2>3. g.s # <<>> => g.out # <<>>
    BY <1>1, <2>1, SubjectLen DEF Follows
  <2>4. Everything(g) => Made(g.out) = FirstFound(g, Len(g.found))
    BY <1>1, <1>3 DEF MadeInv
  <2> QED BY <2>1, <2>2, <2>3, <2>4 DEF Follows, Ordered, Made, FirstFound, Everything
<1> QED BY <1>2, <1>3 DEF Substitutes

(* Whatever match makes of a pattern: the matches of gmatch do not overlap, an *)
(* empty one is not found twice, what gsub leaves is the whole subject, and it *)
(* replaces just the matches that gmatch lists: gmatch_aux and str_gsub of     *)
(* lstrlib.c, for every subject and pattern.                                   *)
THEOREM SubstitutesAlways == PatternInit /\ [][PatternNext]_g => []Substitutes
<1>1. PatternInit => GInv(g)
  BY GInit
<1>2. GInv(g) /\ [PatternNext]_g => GInv(g)'
  <2>1. ASSUME GInv(g), UNCHANGED g PROVE GInv(g')
    BY <2>1
  <2>2. GInv(g) /\ [PatternNext]_g => GInv(g')
    BY <2>1, GMatchHolds, GSubHolds DEF PatternNext
  <2>3. GInv(g)' <=> GInv(g')
    BY DEF GInv, GTyped, FoundInv, FoundAt, OutInv, MadeInv, Everything
  <2> QED BY <2>2, <2>3
<1>3. GInv(g) => Substitutes
  BY GInvSubstitutes
<1> QED BY <1>1, <1>2, <1>3, PTL

-----------------------------------------------------------------------------
(* The lexer on its stream.                                                    *)

LexFields == {"text", "size", "at", "n", "cur", "past", "line", "buff", "toks", "written", "any", "pc", "del", "bracket",
              "count", "keep", "sep", "i", "code"}

\* A sequence of characters.
IsText(t) == t \in Seq({t[k] : k \in DOMAIN t} \ {EOZ})

(* The current character is the one before the next, unless the stream is at   *)
(* its end; the unread ones of a piece are in the text.                        *)
Streams(s) ==
  /\ DOMAIN s = LexFields /\ IsText(s.text) /\ s.size \in Nat \ {0} /\ ~s.past
  /\ s.at \in 1 .. Len(s.text) + 1 /\ s.n \in Nat \cup {Wrapped}
  /\ s.cur = EOZ <=> s.n = Wrapped
  /\ s.cur = EOZ => s.at = Len(s.text) + 1
  /\ s.cur # EOZ => 1 < s.at /\ s.cur = s.text[s.at - 1] /\ s.n <= Len(s.text) + 1 - s.at

(* The line is the one the current character is on; and it is not the second   *)
(* of a break.                                                                 *)
Before(t, p) == {k \in BreaksOf(t) : k < p}
Lined(s) ==
  /\ s.line = 1 + Cardinality(Before(s.text, Place(s)))
  /\ CurrIsNewline(s) => Place(s) \in BreaksOf(s.text)

\* skip_sep's count, and what read_long_string and read_string are called with.
Counts(s) == s.count \in Nat /\ s.sep \in Nat \cup {NoSep} /\ s.bracket \in {"[", "]"} /\ s.del \in {Quote, "'"}

Fits(s) == Streams(s) /\ Lined(s) /\ Counts(s)
Goes(s, y) == Fits(y) /\ y.any = s.any

(* A text has places and characters in them.                                   *)
LEMMA TextFacts ==
  ASSUME NEW t, IsText(t)
  PROVE  Len(t) \in Nat /\ DOMAIN t = 1 .. Len(t) /\ \A k \in 1 .. Len(t) : t[k] # EOZ
<1>1. Len(t) \in Nat /\ DOMAIN t = 1 .. Len(t)
  BY LenProperties DEF IsText
<1>2. ASSUME NEW k \in 1 .. Len(t) PROVE t[k] # EOZ
  BY <1>1, ElementOfSeq DEF IsText
<1> QED BY <1>1, <1>2

Seconds(f, t, n) == f = [k \in 1 .. n |-> k > 1 /\ {t[k - 1], t[k]} = Breaks /\ ~f[k - 1]]

(* Which character is the second of a break can be told from the first on.     *)
LEMMA SecondExists ==
  ASSUME NEW t, NEW n \in Nat
  PROVE  \E f : Seconds(f, t, n)
<1> DEFINE Is(f, j) == f = [k \in 1 .. j |-> k > 1 /\ {t[k - 1], t[k]} = Breaks /\ ~f[k - 1]]
           S == {j \in Nat : \E f : Is(f, j)}
<1>1. 0 \in S
  <2> DEFINE f == [k \in 1 .. 0 |-> FALSE]
  <2>1. Is(f, 0)
    OBVIOUS
  <2> QED BY <2>1
<1>2. ASSUME NEW j \in Nat, j \in S PROVE j + 1 \in S
  <2>1. PICK f : Is(f, j)
    BY <1>2
  <2> DEFINE Turned(h, k) == k > 1 /\ {t[k - 1], t[k]} = Breaks /\ ~h[k - 1]
             f2 == [k \in 1 .. j + 1 |-> Turned(f, k)]
  <2>2. \A k \in 1 .. j : f[k] = Turned(f, k)
    BY <2>1
  <2>3. ASSUME NEW k \in 1 .. j + 1 PROVE f2[k] = Turned(f2, k)
    <3>1. CASE k = 1
      BY <3>1
    <3>2. CASE k # 1
      <4>1. k - 1 \in 1 .. j /\ k - 1 \in 1 .. j + 1
        BY <3>2
      <4>2. f2[k - 1] = f[k - 1]
        BY <2>2, <4>1
      <4> QED BY <4>2
    <3> QED BY <3>1, <3>2
  <2>4. f2 = [k \in 1 .. j + 1 |-> f2[k]]
    OBVIOUS
  <2> HIDE DEF f2
  <2>5. f2 = [k \in 1 .. j + 1 |-> Turned(f2, k)]
    BY <2>3, <2>4, Zenon
  <2>6. Is(f2, j + 1) /\ j + 1 \in Nat
    BY <2>5
  <2> HIDE DEF Is
  <2> QED BY <2>6
<1> HIDE DEF S
<1>3. Nat \subseteq S
  BY <1>1, <1>2, NatSetInduction
<1> QED BY <1>3 DEF S, Seconds

(* A break begins at each of its characters but those that are the second of   *)
(* one.                                                                        *)
LEMMA BreakFacts ==
  ASSUME NEW t, IsText(t)
  PROVE  /\ BreaksOf(t) \subseteq 1 .. Len(t)
         /\ \A k \in 1 .. Len(t) :
              k \in BreaksOf(t) <=> t[k] \in Breaks /\ ~(k > 1 /\ {t[k - 1], t[k]} = Breaks /\ k - 1 \in BreaksOf(t))
<1>1. Len(t) \in Nat
  BY TextFacts
<1> DEFINE second == CHOOSE f : f = [k \in 1 .. Len(t) |-> k > 1 /\ {t[k - 1], t[k]} = Breaks /\ ~f[k - 1]]
<1>2. second = [k \in 1 .. Len(t) |-> k > 1 /\ {t[k - 1], t[k]} = Breaks /\ ~second[k - 1]]
  <2>1. \E f : Seconds(f, t, Len(t))
    BY <1>1, SecondExists
  <2> QED BY <2>1 DEF Seconds
<1>3. BreaksOf(t) = {k \in 1 .. Len(t) : t[k] \in Breaks /\ ~second[k]}
  BY DEF BreaksOf
<1> HIDE DEF second
<1>4. \A k \in 1 .. Len(t) : second[k] <=> k > 1 /\ {t[k - 1], t[k]} = Breaks /\ ~second[k - 1]
  BY <1>2
<1>5. ASSUME NEW k \in 1 .. Len(t)
      PROVE  k \in BreaksOf(t) <=> t[k] \in Breaks /\ ~(k > 1 /\ {t[k - 1], t[k]} = Breaks /\ k - 1 \in BreaksOf(t))
  <2>1. CASE k > 1 /\ {t[k - 1], t[k]} = Breaks
    <3>1. k - 1 \in 1 .. Len(t) /\ t[k - 1] \in Breaks
      BY <1>1, <2>1
    <3> QED BY <1>3, <1>4, <2>1, <3>1
  <2>2. CASE ~(k > 1 /\ {t[k - 1], t[k]} = Breaks)
    BY <1>3, <1>4, <2>2
  <2> QED BY <2>1, <2>2
<1> QED BY <1>3, <1>5

(* The next character: what is read, and what stays as it was.                 *)
Rest(s, y) ==
  /\ y.text = s.text /\ y.size = s.size /\ y.written = s.written /\ y.any = s.any
  /\ y.buff = s.buff /\ y.toks = s.toks /\ y.pc = s.pc /\ y.del = s.del /\ y.i = s.i /\ y.code = s.code
  /\ y.count = s.count /\ y.sep = s.sep /\ y.bracket = s.bracket /\ y.keep = s.keep
Moved(s, y) ==
  /\ Streams(y) /\ Rest(s, y) /\ y.line = s.line
  /\ Place(s) \in 1 .. Len(s.text) /\ Place(s) = s.at - 1 /\ s.cur = s.text[Place(s)]
  /\ Place(y) = Place(s) + 1
  /\ Place(y) <= Len(s.text) => y.cur # EOZ
  /\ y.cur # EOZ => Place(y) \in 1 .. Len(s.text) /\ y.cur = s.text[Place(y)]
  /\ y.cur = EOZ => Place(y) = Len(s.text) + 1

(* The next character of a stream that is not at its end.                      *)
LEMMA NextMoves ==
  ASSUME NEW s, Streams(s), s.cur # EOZ
  PROVE  Moved(s, NextChar(s))
<1> DEFINE y == NextChar(s)
           L == Len(s.text)
           left == L + 1 - s.at
<1>1. /\ L \in Nat /\ DOMAIN s.text = 1 .. L /\ (\A k \in 1 .. L : s.text[k] # EOZ)
      /\ s.at \in 1 .. L + 1 /\ s.size \in Nat /\ s.size # 0 /\ s.n \in Nat /\ 1 < s.at /\ s.cur = s.text[s.at - 1]
      /\ s.n <= left /\ DOMAIN s = LexFields /\ s.n # Wrapped /\ ~s.past
  BY TextFacts DEF Streams, Wrapped
<1>2. Place(s) = s.at - 1 /\ Place(s) \in 1 .. L
  BY <1>1 DEF Place
<1>3. Fill(s) \in Nat /\ Fill(s) <= left /\ (Fill(s) = 0 <=> s.at = L + 1)
  <2>1. Fill(s) = IF left < s.size THEN left ELSE s.size
    BY DEF Fill
  <2>2. left \in Nat /\ (left = 0 <=> s.at = L + 1)
    BY <1>1
  <2> HIDE DEF left
  <2>3. CASE left < s.size
    BY <2>1, <2>2, <2>3
  <2>4. CASE ~(left < s.size)
    BY <1>1, <2>1, <2>2, <2>4
  <2> QED BY <2>3, <2>4
<1> HIDE DEF y
<1>4. CASE s.n = 0 /\ Fill(s) = 0
  <2>1. y = [s EXCEPT !.cur = EOZ, !.n = Wrapped]
    BY <1>1, <1>4 DEF NextChar, y
  <2>2. /\ DOMAIN y = LexFields /\ y.cur = EOZ /\ y.n = Wrapped /\ y.at = s.at /\ y.past = s.past /\ y.line = s.line
        /\ Rest(s, y)
    BY <1>1, <2>1 DEF LexFields, Rest
  <2>3. s.at = L + 1 /\ Place(y) = L + 1
    BY <1>3, <1>4, <2>2 DEF Place, Rest
  <2>4. Streams(y)
    BY <1>1, <2>2, <2>3 DEF Streams, Rest, Wrapped
  <2>5. Moved(s, y)
    BY <1>1, <1>2, <2>2, <2>3, <2>4 DEF Moved
  <2> QED BY <2>5 DEF y
<1>5. CASE ~(s.n = 0 /\ Fill(s) = 0)
  <2> DEFINE m == (IF s.n = 0 THEN Fill(s) ELSE s.n) - 1
  <2>1. y = [s EXCEPT !.cur = s.text[s.at], !.at = s.at + 1, !.n = m]
    BY <1>1, <1>5 DEF NextChar, y
  <2>2. m \in Nat /\ m <= L + 1 - (s.at + 1)
    <3>1. CASE s.n = 0
      BY <1>1, <1>3, <1>5, <3>1
    <3>2. CASE s.n # 0
      BY <1>1, <3>2
    <3> QED BY <3>1, <3>2
  <2> HIDE DEF m
  <2>3. s.at \in 1 .. L
    BY <1>1, <2>2
  <2>4. /\ DOMAIN y = LexFields /\ y.cur = s.text[s.at] /\ y.n = m /\ y.at = s.at + 1 /\ y.past = s.past
        /\ y.line = s.line /\ Rest(s, y)
    BY <1>1, <2>1 DEF LexFields, Rest
  <2>5. y.cur # EOZ /\ y.n # Wrapped /\ y.at - 1 = s.at /\ Place(y) = s.at
    BY <1>1, <2>2, <2>3, <2>4 DEF Place, Wrapped
  <2>6. y.text = s.text /\ y.size = s.size
    BY <2>4 DEF Rest
  <2>7. Streams(y)
    <3>1. y.at \in 1 .. Len(y.text) + 1 /\ y.n <= Len(y.text) + 1 - y.at /\ 1 < y.at
      <4>1. s.at + 1 \in 1 .. L + 1 /\ m <= L + 1 - (s.at + 1) /\ 1 < s.at + 1
        BY <1>1, <2>2, <2>3
      <4>2. y.at = s.at + 1 /\ y.n = m /\ L = Len(y.text)
        BY <2>4, <2>6
      <4> HIDE DEF L
      <4> QED BY <4>1, <4>2
    <3>2. IsText(y.text) /\ y.size \in Nat \ {0} /\ ~y.past
      BY <2>4, <2>6 DEF Streams
    <3>3. y.n \in Nat /\ y.cur = y.text[y.at - 1]
      BY <2>2, <2>4, <2>5, <2>6
    <3> QED BY <2>4, <2>5, <3>1, <3>2, <3>3 DEF Streams
  <2>8. Moved(s, y)
    BY <1>1, <1>2, <2>2, <2>3, <2>4, <2>5, <2>6, <2>7 DEF Moved
  <2> QED BY <2>8 DEF y
<1> QED BY <1>4, <1>5

(* A place further, there is one line more where a break begins at the place.   *)
LEMMA BeforeFacts ==
  ASSUME NEW t, IsText(t), NEW p \in 1 .. Len(t)
  PROVE  /\ Cardinality(Before(t, p)) \in Nat /\ Before(t, 1) = {}
         /\ Cardinality(Before(t, p + 1)) = Cardinality(Before(t, p)) + (IF p \in BreaksOf(t) THEN 1 ELSE 0)
<1>1. Len(t) \in Nat /\ BreaksOf(t) \subseteq 1 .. Len(t) /\ p \in Nat
  BY TextFacts, BreakFacts
<1>2. IsFiniteSet(Before(t, p)) /\ Cardinality(Before(t, p)) \in Nat
  <2>1. IsFiniteSet(1 .. Len(t)) /\ Before(t, p) \subseteq 1 .. Len(t)
    BY <1>1, FS_Interval DEF Before
  <2> QED BY <2>1, FS_Subset, FS_CardinalityType
<1>3. Before(t, 1) = {}
  BY <1>1 DEF Before
<1>4. CASE p \in BreaksOf(t)
  <2>1. Before(t, p + 1) = Before(t, p) \cup {p} /\ p \notin Before(t, p)
    BY <1>1, <1>4 DEF Before
  <2> QED BY <1>2, <1>3, <1>4, <2>1, FS_AddElement
<1>5. CASE p \notin BreaksOf(t)
  <2>1. Before(t, p + 1) = Before(t, p)
    BY <1>1, <1>5 DEF Before
  <2> QED BY <1>2, <1>3, <1>5, <2>1
<1> QED BY <1>4, <1>5

(* What is not a break leaves the line as it is.                               *)
LEMMA NextFits ==
  ASSUME NEW s, Fits(s), s.cur # EOZ, ~CurrIsNewline(s)
  PROVE  Fits(NextChar(s)) /\ Moved(s, NextChar(s))
<1> DEFINE y == NextChar(s)
           p == Place(s)
<1>1. Streams(s) /\ Lined(s) /\ IsText(s.text) /\ Moved(s, y)
  BY NextMoves DEF Fits, Streams
<1> HIDE DEF y
<1>2. p \in 1 .. Len(s.text) /\ s.cur = s.text[p] /\ Place(y) = p + 1 /\ y.text = s.text /\ y.line = s.line /\ Streams(y)
  BY <1>1 DEF Moved, Rest
<1>3. p \notin BreaksOf(s.text) /\ s.text[p] \notin Breaks
  BY <1>1, <1>2, BreakFacts DEF CurrIsNewline
<1> HIDE DEF p
<1>4. Cardinality(Before(s.text, p + 1)) = Cardinality(Before(s.text, p)) + 0 /\ Cardinality(Before(s.text, p)) \in Nat
  BY <1>1, <1>2, <1>3, BeforeFacts
<1>5. y.line = 1 + Cardinality(Before(y.text, Place(y)))
  BY <1>1, <1>2, <1>4 DEF Lined, p
<1>6. ASSUME CurrIsNewline(y) PROVE Place(y) \in BreaksOf(y.text)
  <2>1. y.cur \in Breaks /\ y.cur # EOZ
    BY <1>6 DEF CurrIsNewline, Breaks, LF, CR, EOZ
  <2>2. p + 1 \in 1 .. Len(s.text) /\ y.cur = s.text[p + 1]
    BY <1>1, <1>2, <2>1 DEF Moved
  <2>3. (p + 1) - 1 = p /\ p \in Int
    BY <1>2
  <2>4. {s.text[(p + 1) - 1], s.text[p + 1]} # Breaks
    BY <1>3, <2>3
  <2> QED BY <1>1, <1>2, <2>1, <2>2, <2>4, BreakFacts
<1>7. Counts(y)
  BY <1>1 DEF Counts, Fits, Moved, Rest
<1>8. Fits(y)
  BY <1>2, <1>5, <1>6, <1>7 DEF Fits, Lined
<1> QED BY <1>1, <1>8 DEF y

(* A break is one line more, and both its characters are read.                 *)
Broken(s, y) ==
  LET n == NextChar(s)
  IN  /\ Fits(y) /\ Rest(s, y) /\ y.line = s.line + 1
      /\ n.cur \notin Breaks \ {s.cur} => Place(y) = Place(s) + 1 /\ y.at = n.at /\ y.cur = n.cur

(* inclinenumber reads it so, also where the two come in different pieces.     *)
LEMMA IncFits ==
  ASSUME NEW s, Fits(s), CurrIsNewline(s)
  PROVE  Broken(s, IncLine(s))
<1> DEFINE n == NextChar(s)
           m == NextChar(n)
           p == Place(s)
           both == IF CurrIsNewline(n) /\ n.cur # s.cur THEN m ELSE n
           y == IncLine(s)
<1>1. Streams(s) /\ Lined(s) /\ IsText(s.text) /\ s.cur # EOZ /\ s.cur \in Breaks
  BY DEF Fits, Streams, CurrIsNewline, Breaks, LF, CR, EOZ
<1>2. Moved(s, n)
  BY <1>1, NextMoves
<1>3. y = [both EXCEPT !.line = @ + 1]
  BY DEF IncLine
<1> HIDE DEF n, m, y
<1>4. /\ p \in 1 .. Len(s.text) /\ s.cur = s.text[p] /\ Place(n) = p + 1 /\ n.text = s.text /\ n.line = s.line /\ Streams(n)
      /\ Rest(s, n)
  BY <1>2 DEF Moved, Rest
<1>5. p \in BreaksOf(s.text) /\ s.line = 1 + Cardinality(Before(s.text, p))
  BY <1>1 DEF Lined, CurrIsNewline
<1> HIDE DEF p
<1>6. Cardinality(Before(s.text, p + 1)) = Cardinality(Before(s.text, p)) + 1 /\ Cardinality(Before(s.text, p)) \in Nat
  BY <1>1, <1>4, <1>5, BeforeFacts
<1>7. (p + 1) - 1 = p /\ p \in Int /\ p + 1 > 1
  BY <1>4
<1>8. CASE CurrIsNewline(n) /\ n.cur # s.cur
  <2>1. n.cur \in Breaks /\ n.cur # EOZ /\ {s.cur, n.cur} = Breaks
    BY <1>1, <1>8 DEF CurrIsNewline, Breaks, LF, CR, EOZ
  <2>2. p + 1 \in 1 .. Len(s.text) /\ n.cur = s.text[p + 1]
    BY <1>2, <1>4, <2>1 DEF Moved
  <2>3. p + 1 \notin BreaksOf(s.text)
    BY <1>1, <1>4, <1>5, <1>7, <2>1, <2>2, BreakFacts
  <2>4. Moved(n, m)
    BY <1>4, <2>1, NextMoves DEF m
  <2>5. /\ Streams(m) /\ m.text = s.text /\ m.line = s.line /\ Place(m) = (p + 1) + 1 /\ Rest(s, m)
        /\ m.cur # EOZ => (p + 1) + 1 \in 1 .. Len(s.text) /\ m.cur = s.text[(p + 1) + 1]
    BY <1>4, <2>4 DEF Moved, Rest
  <2>6. Cardinality(Before(s.text, (p + 1) + 1)) = Cardinality(Before(s.text, p + 1)) + 0
    BY <1>1, <2>2, <2>3, BeforeFacts
  <2>7. y = [m EXCEPT !.line = @ + 1]
    BY <1>3, <1>8
  <2>8. /\ DOMAIN y = LexFields /\ y.line = s.line + 1 /\ y.cur = m.cur /\ y.at = m.at /\ y.n = m.n /\ y.past = m.past
        /\ y.size = m.size /\ y.text = s.text /\ Rest(m, y) /\ Rest(s, y)
    BY <2>5, <2>7 DEF Streams, LexFields, Rest
  <2>9. Streams(y) /\ Place(y) = (p + 1) + 1
    BY <2>5, <2>8 DEF Streams, Place
  <2>10. y.line = 1 + Cardinality(Before(y.text, Place(y)))
    BY <1>5, <1>6, <2>6, <2>8, <2>9
  <2>11. ASSUME CurrIsNewline(y) PROVE Place(y) \in BreaksOf(y.text)
    <3>1. m.cur \in Breaks /\ m.cur # EOZ
      BY <2>8, <2>11 DEF CurrIsNewline, Breaks, LF, CR, EOZ
    <3>2. (p + 1) + 1 \in 1 .. Len(s.text) /\ s.text[(p + 1) + 1] \in Breaks /\ ((p + 1) + 1) - 1 = p + 1
      BY <1>7, <2>5, <3>1
    <3> QED BY <1>1, <2>3, <2>8, <2>9, <3>2, BreakFacts
  <2>12. Fits(y)
    <3>1. Counts(y)
      BY <2>8 DEF Counts, Fits, Rest
    <3> QED BY <2>9, <2>10, <2>11, <3>1 DEF Fits, Lined
  <2>13. n.cur \in Breaks \ {s.cur}
    BY <1>8, <2>1
  <2>14. Broken(s, y)
    BY <2>8, <2>12, <2>13 DEF Broken, n
  <2> QED BY <2>14 DEF y
<1>9. CASE ~(CurrIsNewline(n) /\ n.cur # s.cur)
  <2>1. y = [n EXCEPT !.line = @ + 1]
    BY <1>3, <1>9
  <2>2. /\ DOMAIN y = LexFields /\ y.line = s.line + 1 /\ y.cur = n.cur /\ y.at = n.at /\ y.n = n.n /\ y.past = n.past
        /\ y.size = n.size /\ y.text = s.text /\ Rest(n, y) /\ Rest(s, y)
    BY <1>4, <2>1 DEF Streams, LexFields, Rest
  <2>3. Streams(y) /\ Place(y) = p + 1
    BY <1>4, <2>2 DEF Streams, Place
  <2>4. y.line = 1 + Cardinality(Before(y.text, Place(y)))
    BY <1>5, <1>6, <2>2, <2>3
  <2>5. ASSUME CurrIsNewline(y) PROVE Place(y) \in BreaksOf(y.text)
    <3>1. n.cur \in Breaks /\ n.cur # EOZ /\ n.cur = s.cur
      BY <1>9, <2>2, <2>5 DEF CurrIsNewline, Breaks, LF, CR, EOZ
    <3>2. p + 1 \in 1 .. Len(s.text) /\ s.text[p + 1] = s.cur
      BY <1>2, <1>4, <3>1 DEF Moved
    <3>3. {s.cur, s.cur} # Breaks
      BY DEF Breaks, LF, CR
    <3>4. p + 1 \in BreaksOf(s.text)
      BY <1>1, <1>4, <1>7, <3>1, <3>2, <3>3, BreakFacts
    <3> QED BY <2>2, <2>3, <3>4
  <2>6. Fits(y)
    <3>1. Counts(y)
      BY <2>2 DEF Counts, Fits, Rest
    <3> QED BY <2>3, <2>4, <2>5, <3>1 DEF Fits, Lined
  <2>7. Broken(s, y)
    BY <2>2, <2>3, <2>6 DEF Broken, n, p
  <2> QED BY <2>7 DEF y
<1> QED BY <1>8, <1>9

(* What leaves the stream alone.                                               *)
Still(s, y) ==
  /\ DOMAIN y = LexFields
  /\ y.text = s.text /\ y.size = s.size /\ y.at = s.at /\ y.n = s.n /\ y.cur = s.cur /\ y.past = s.past /\ y.line = s.line
  /\ y.any = s.any /\ Counts(y)

(* What leaves the stream alone fits it as before.                             *)
LEMMA StillGoes ==
  ASSUME NEW s, Fits(s), NEW y, Still(s, y)
  PROVE  Goes(s, y)
BY DEF Goes, Fits, Streams, Lined, Still, Place, CurrIsNewline

(* It fits to save a character, to go to a loop, to answer a token.            *)
LEMMA Stills ==
  ASSUME NEW s, Fits(s)
  PROVE  /\ Goes(s, Reset(s)) /\ Goes(s, LexError(s))
         /\ \A c : Goes(s, Save(s, c)) /\ Save(s, c).cur = s.cur
         /\ \A pc : Goes(s, Goto(pc, s))
         /\ \A k, v : Goes(s, Token(s, k, v))
<1>1. DOMAIN s = LexFields
  BY DEF Fits, Streams
<1>0. Counts(s)
  BY DEF Fits
<1>2. ASSUME NEW c PROVE Still(s, Save(s, c)) /\ Save(s, c).cur = s.cur
  BY <1>1, <1>0 DEF Still, Counts, Save, LexFields
<1>3. ASSUME NEW pc PROVE Still(s, Goto(pc, s))
  BY <1>1, <1>0 DEF Still, Counts, Goto, LexFields
<1>4. ASSUME NEW k, NEW v PROVE Still(s, Token(s, k, v))
  BY <1>1, <1>0 DEF Still, Counts, Token, LexFields
<1>5. Still(s, Reset(s)) /\ Still(s, LexError(s))
  BY <1>1, <1>0, <1>3 DEF Still, Counts, Reset, LexError, LexFields
<1> QED BY <1>2, <1>3, <1>4, <1>5, StillGoes

(* It fits to read a character that is neither a break nor the end.            *)
Plain(s) == s.cur # EOZ /\ ~CurrIsNewline(s)
Plainly == Digits \cup Letters \cup {".", "[", "]", "=", "-", " ", "'", Quote, Slash, Nul}

(* These characters are plain.                                                 *)
LEMMA PlainFacts ==
  ASSUME NEW s, s.cur \in Plainly
  PROVE  Plain(s)
BY DEF Plain, CurrIsNewline, Plainly, Digits, Letters, Quote, Slash, Nul, EOZ, Breaks, LF, CR

(* It fits to read a plain character, saved or not.                            *)
LEMMA ReadGoes ==
  ASSUME NEW s, Fits(s), Plain(s)
  PROVE  Goes(s, NextChar(s)) /\ Goes(s, SaveAndNext(s))
<1>1. ASSUME NEW y, Fits(y), Plain(y) PROVE Goes(y, NextChar(y))
  BY <1>1, NextFits DEF Plain, Goes, Moved, Rest
<1>2. Goes(s, Save(s, s.cur)) /\ Plain(Save(s, s.cur))
  BY Stills DEF Plain, CurrIsNewline
<1>3. Goes(Save(s, s.cur), NextChar(Save(s, s.cur)))
  BY <1>1, <1>2 DEF Goes
<1> QED BY <1>1, <1>2, <1>3 DEF Goes, SaveAndNext

(* It fits to read one of a set, if it is there.                               *)
LEMMA CheckGoes ==
  ASSUME NEW s, Fits(s), NEW set, set \subseteq Plainly
  PROVE  Goes(s, CheckNext(s, set))
<1>1. CASE s.cur \in set \cup {Nul}
  BY <1>1, PlainFacts, ReadGoes DEF CheckNext, Plainly
<1>2. CASE s.cur \notin set \cup {Nul}
  BY <1>2 DEF CheckNext, Goes
<1> QED BY <1>1, <1>2

(* It fits to read a break.                                                    *)
LEMMA IncGoes ==
  ASSUME NEW s, Fits(s), CurrIsNewline(s)
  PROVE  Goes(s, IncLine(s))
BY IncFits DEF Broken, Goes, Rest

(* A loop saves characters of its set, or goes on to what is behind it.        *)
LEMMA WhileGoes ==
  ASSUME NEW s, Fits(s), NEW set, set \subseteq Plainly, NEW behind, s.cur \notin set => Goes(s, behind)
  PROVE  Goes(s, SaveWhile(s, set, behind))
<1>1. CASE s.cur \in set
  BY <1>1, PlainFacts, ReadGoes DEF SaveWhile
<1>2. CASE s.cur \notin set
  BY <1>2 DEF SaveWhile
<1> QED BY <1>1, <1>2

(* What fits step after step fits.                                             *)
LEMMA GoesOn ==
  ASSUME NEW s, NEW y, NEW z, Goes(s, y), Goes(y, z)
  PROVE  Goes(s, z) /\ Fits(y)
BY DEF Goes

(* Numerals and names.                                                         *)
LEMMA NumeralGoes ==
  ASSUME Fits(ls), Points \/ Alnums \/ Name
  PROVE  Goes(ls, ls')
<1>1. /\ Digits \cup {"."} \subseteq Plainly /\ Digits \cup Letters \subseteq Plainly /\ {} \subseteq Plainly
      /\ Nul \in Plainly
  BY DEF Plainly
<1>2. CASE Points
  <2> DEFINE e == Exponent(ls)
  <2>1. Goes(ls, e)
    <3>1. CASE ls.cur = Nul
      <4>1. Goes(ls, SaveAndNext(ls))
        BY <1>1, <3>1, PlainFacts, ReadGoes
      <4>2. Goes(SaveAndNext(ls), CheckNext(SaveAndNext(ls), {}))
        BY <1>1, <4>1, CheckGoes DEF Goes
      <4> QED BY <3>1, <4>1, <4>2, GoesOn DEF Exponent
    <3>2. CASE ls.cur # Nul
      BY <3>2 DEF Exponent, Goes
    <3> QED BY <3>1, <3>2
  <2> HIDE DEF e
  <2>2. Goes(e, Goto("alnums", e))
    BY <2>1, Stills DEF Goes
  <2>3. Goes(ls, Goto("alnums", e))
    BY <2>1, <2>2, GoesOn
  <2> QED BY <1>1, <1>2, <2>3, WhileGoes DEF Points, e
<1>3. CASE Alnums
  <2> DEFINE b == IF Numeral(ToNul(ls.buff)) THEN Token(ls, "number", ToNul(ls.buff)) ELSE LexError(ls)
  <2>1. Goes(ls, b)
    BY Stills
  <2>2. ls' = SaveWhile(ls, Digits \cup Letters, b)
    BY <1>3 DEF Alnums
  <2> HIDE DEF b
  <2> QED BY <1>1, <2>1, <2>2, WhileGoes
<1>4. CASE Name
  <2>1. Goes(ls, Token(ls, "name", ls.buff))
    BY Stills
  <2> QED BY <1>1, <1>4, <2>1, WhileGoes DEF Name
<1> QED BY <1>2, <1>3, <1>4

(* A bracket, and a long string or comment from its second bracket and to its  *)
(* end.                                                                        *)
LEMMA BracketGoes ==
  ASSUME NEW s, Fits(s), s.cur \in {"[", "]"}, NEW keep
  PROVE  Goes(s, Bracket(s, keep))
<1> DEFINE y == SaveAndNext(s)
<1>1. s.cur \in Plainly
  BY DEF Plainly
<1>2. Goes(s, y)
  BY <1>1, PlainFacts, ReadGoes
<1> DEFINE z == [y EXCEPT !.pc = "skip_sep", !.bracket = s.cur, !.count = 0, !.keep = keep]
<1> HIDE DEF y
<1>3. Still(y, z)
  BY <1>2 DEF Still, Goes, Fits, Streams, Counts, LexFields
<1> HIDE DEF z
<1>4. Goes(y, z)
  BY <1>2, <1>3, StillGoes DEF Goes
<1>5. Bracket(s, keep) = z
  BY DEF Bracket, y, z
<1> QED BY <1>2, <1>4, <1>5, GoesOn

(* It fits to read the second bracket, and a break behind it.                  *)
LEMMA LongStartGoes ==
  ASSUME NEW s, Fits(s), Plain(s), NEW sep \in Nat
  PROVE  Goes(s, LongStart(s, sep))
<1> DEFINE t == SaveAndNext(s)
           u == IF CurrIsNewline(t) THEN IncLine(t) ELSE t
           z == [u EXCEPT !.pc = "long", !.sep = sep]
<1>1. Goes(s, t)
  BY ReadGoes
<1> HIDE DEF t
<1>2. Goes(t, u)
  BY <1>1, IncGoes DEF Goes
<1>3. LongStart(s, sep) = z
  BY DEF LongStart, t
<1> HIDE DEF u
<1>4. Still(u, z)
  BY <1>2 DEF Still, Goes, Fits, Streams, Counts, LexFields
<1> HIDE DEF z
<1>5. Goes(u, z)
  BY <1>2, <1>4, StillGoes DEF Goes
<1> QED BY <1>1, <1>2, <1>3, <1>5, GoesOn

(* It fits to end a long string or comment.                                    *)
LEMMA LongEndGoes ==
  ASSUME NEW s, Fits(s)
  PROVE  Goes(s, LongEnd(s))
<1> DEFINE u == IF s.keep THEN Token(s, "string", Inner(s, 2 + s.sep)) ELSE Goto("llex", s)
           z == [u EXCEPT !.sep = NoSep]
<1>1. Goes(s, u)
  BY Stills
<1>2. LongEnd(s) = z
  BY DEF LongEnd
<1> HIDE DEF u
<1>3. Still(u, z)
  BY <1>1 DEF Still, Goes, Fits, Streams, Counts, LexFields
<1> HIDE DEF z
<1>4. Goes(u, z)
  BY <1>1, <1>3, StillGoes DEF Goes
<1> QED BY <1>1, <1>2, <1>4, GoesOn

(* What follows skip_sep.                                                      *)
LEMMA SkipSepGoes ==
  ASSUME Fits(ls), SkipSep
  PROVE  Goes(ls, ls')
<1>1. ls.count \in Nat /\ ls.sep \in Nat \cup {NoSep} /\ ls.bracket \in {"[", "]"}
  BY DEF Fits, Counts
<1>2. ASSUME ls.cur = "="
      PROVE  Goes(ls, ls')
  <2> DEFINE y == SaveAndNext(ls)
             z == [y EXCEPT !.count = @ + 1]
  <2>1. ls.cur \in Plainly
    BY <1>2 DEF Plainly
  <2>2. Goes(ls, y)
    BY <2>1, PlainFacts, ReadGoes
  <2>3. ls' = z
    BY <1>2 DEF SkipSep
  <2> HIDE DEF y
  <2>4. Still(y, z)
    BY <2>2 DEF Still, Goes, Fits, Streams, Counts, LexFields
  <2> HIDE DEF z
  <2>5. Goes(y, z)
    BY <2>2, <2>4, StillGoes DEF Goes
  <2> QED BY <2>2, <2>3, <2>5, GoesOn
<1>3. ASSUME SepOf(ls) >= 0
      PROVE  Plain(ls) /\ SepOf(ls) \in Nat
  <2>1. ls.cur = ls.bracket /\ SepOf(ls) \in Nat
    BY <1>1, <1>3 DEF SepOf
  <2>2. ls.cur \in Plainly
    BY <1>1, <2>1 DEF Plainly
  <2> QED BY <2>1, <2>2, PlainFacts
<1>4. Goes(ls, Opened(ls))
  <2>1. CASE SepOf(ls) >= 0
    <3> DEFINE s == IF ls.keep THEN ls ELSE Reset(ls)
    <3>1. Goes(ls, s) /\ s.cur = ls.cur
      BY Stills DEF Goes, Reset, Fits, Streams, LexFields
    <3>2. Opened(ls) = LongStart(s, SepOf(ls))
      BY <2>1 DEF Opened
    <3> HIDE DEF s
    <3>3. Plain(s) /\ SepOf(ls) \in Nat
      BY <1>3, <2>1, <3>1 DEF Plain, CurrIsNewline
    <3>4. Goes(s, LongStart(s, SepOf(ls)))
      BY <3>1, <3>3, LongStartGoes DEF Goes
    <3> QED BY <3>1, <3>2, <3>4, GoesOn
  <2>2. CASE ~(SepOf(ls) >= 0)
    <3>1. Goes(ls, Reset(ls)) /\ Goes(ls, Token(ls, "[", <<>>)) /\ Goes(ls, LexError(ls))
      BY Stills
    <3>2. Goes(Reset(ls), Goto("line", Reset(ls)))
      BY <3>1, Stills DEF Goes
    <3>3. Goes(ls, Goto("line", Reset(ls)))
      BY <3>1, <3>2, GoesOn
    <3> QED BY <2>2, <3>1, <3>3 DEF Opened
  <2> QED BY <2>1, <2>2
<1>5. ASSUME ls.sep # NoSep
      PROVE  Goes(ls, Met(ls))
  <2>1. CASE SepOf(ls) # ls.sep
    BY <2>1, Stills DEF Met
  <2>2. CASE SepOf(ls) = ls.sep
    <3> DEFINE s == SaveAndNext(ls)
    <3>1. SepOf(ls) >= 0
      BY <1>1, <1>5, <2>2
    <3>2. Goes(ls, s)
      BY <1>3, <3>1, ReadGoes
    <3>3. Met(ls) \in {LongEnd(s), LexError(s), Goto("long", s)}
      BY <2>2 DEF Met
    <3> HIDE DEF s
    <3>4. Goes(s, LongEnd(s)) /\ Goes(s, LexError(s)) /\ Goes(s, Goto("long", s))
      BY <3>2, Stills, LongEndGoes DEF Goes
    <3> QED BY <3>2, <3>3, <3>4, GoesOn
  <2> QED BY <2>1, <2>2
<1> QED BY <1>2, <1>4, <1>5 DEF SkipSep

(* The body of a long string or comment.                                       *)
LEMMA LongBodyGoes ==
  ASSUME Fits(ls), LongBody
  PROVE  Goes(ls, ls')
<1>1. CASE ls.cur = EOZ
  <2>0. ls.cur \notin {"[", "]"} /\ ~CurrIsNewline(ls)
    BY <1>1 DEF CurrIsNewline, Breaks, LF, CR, EOZ
  <2>1. ls' = LexError(ls)
    BY <1>1, <2>0 DEF LongBody
  <2> QED BY <2>1, Stills
<1>2. CASE ls.cur \in {"[", "]"}
  <2>0. ls.cur # EOZ /\ ~CurrIsNewline(ls)
    BY <1>2 DEF CurrIsNewline, Breaks, LF, CR, EOZ
  <2>1. ls' = Bracket(ls, ls.keep)
    BY <1>2, <2>0 DEF LongBody
  <2> QED BY <1>2, <2>1, BracketGoes
<1>3. CASE CurrIsNewline(ls)
  <2> DEFINE s == Save(ls, LF)
             t == IncLine(s)
  <2>1. ls.cur # EOZ /\ ls.cur \notin {"[", "]"}
    BY <1>3 DEF CurrIsNewline, Breaks, LF, CR, EOZ
  <2>2. Goes(ls, s) /\ CurrIsNewline(s)
    BY <1>3, Stills DEF CurrIsNewline
  <2>3. ls' = IF ls.keep THEN t ELSE Reset(t)
    BY <1>3, <2>1 DEF LongBody
  <2> HIDE DEF s
  <2>4. Goes(s, t)
    BY <2>2, IncGoes DEF Goes
  <2> HIDE DEF t
  <2>5. Goes(t, Reset(t))
    BY <2>4, Stills DEF Goes
  <2> QED BY <2>2, <2>3, <2>4, <2>5, GoesOn
<1>4. CASE ls.cur # EOZ /\ ls.cur \notin {"[", "]"} /\ ~CurrIsNewline(ls)
  <2>1. ls' = IF ls.keep THEN SaveAndNext(ls) ELSE NextChar(ls)
    BY <1>4 DEF LongBody
  <2> QED BY <1>4, <2>1, ReadGoes DEF Plain
<1> QED BY <1>1, <1>2, <1>3, <1>4

(* An escape.                                                                  *)
LEMMA EscapeGoes ==
  ASSUME NEW s, Fits(s)
  PROVE  Goes(s, Escape(s))
<1>1. CASE s.cur \in {"a", "n", "r"}
  <2> DEFINE c == CASE s.cur = "n" -> LF [] s.cur = "r" -> CR [] OTHER -> Byte
             t == Save(s, c)
  <2>0. s.cur # EOZ /\ ~CurrIsNewline(s) /\ s.cur \notin Digits
    BY <1>1 DEF CurrIsNewline, Breaks, LF, CR, EOZ, Digits
  <2>1. Escape(s) = NextChar(t)
    BY <1>1, <2>0 DEF Escape
  <2> HIDE DEF c
  <2>2. s.cur \in Plainly
    BY <1>1 DEF Plainly, Letters
  <2>3. Goes(s, t) /\ t.cur = s.cur
    BY Stills
  <2> HIDE DEF t
  <2>4. Goes(t, NextChar(t))
    BY <2>2, <2>3, PlainFacts, ReadGoes DEF Goes
  <2> QED BY <2>1, <2>3, <2>4, GoesOn
<1>2. CASE CurrIsNewline(s)
  <2> DEFINE t == Save(s, LF)
  <2>0. s.cur # EOZ /\ s.cur \notin {"a", "n", "r"} /\ s.cur \notin Digits
    BY <1>2 DEF CurrIsNewline, Breaks, LF, CR, EOZ, Digits
  <2>1. Escape(s) = IncLine(t)
    BY <1>2, <2>0 DEF Escape
  <2>2. Goes(s, t) /\ CurrIsNewline(t)
    BY <1>2, Stills DEF CurrIsNewline
  <2> HIDE DEF t
  <2>3. Goes(t, IncLine(t))
    BY <2>2, IncGoes DEF Goes
  <2> QED BY <2>1, <2>2, <2>3, GoesOn
<1>3. CASE s.cur = EOZ
  <2>0. ~CurrIsNewline(s) /\ s.cur \notin {"a", "n", "r"} /\ s.cur \notin Digits
    BY <1>3 DEF CurrIsNewline, Breaks, LF, CR, EOZ, Digits
  <2>1. Escape(s) = s
    BY <1>3, <2>0 DEF Escape
  <2> QED BY <2>1 DEF Goes
<1>4. CASE s.cur \in Digits
  <2> DEFINE z == [s EXCEPT !.pc = "decimal", !.i = 0, !.code = 0]
  <2>0. s.cur # EOZ /\ s.cur \notin {"a", "n", "r"} /\ ~CurrIsNewline(s)
    BY <1>4 DEF CurrIsNewline, Breaks, LF, CR, EOZ, Digits
  <2>1. Escape(s) = z
    BY <1>4, <2>0 DEF Escape
  <2>2. Still(s, z)
    BY DEF Still, Fits, Streams, Counts, LexFields
  <2> HIDE DEF z
  <2> QED BY <2>1, <2>2, StillGoes
<1>5. CASE s.cur \notin {"a", "n", "r"} /\ ~CurrIsNewline(s) /\ s.cur # EOZ /\ s.cur \notin Digits
  <2>1. Escape(s) = SaveAndNext(s)
    BY <1>5 DEF Escape
  <2> QED BY <1>5, <2>1, ReadGoes DEF Plain
<1> QED BY <1>1, <1>2, <1>3, <1>4, <1>5

(* The body of a string, and what \ddd stands for.                             *)
LEMMA StringBodyGoes ==
  ASSUME Fits(ls), StringBody
  PROVE  Goes(ls, ls')
<1>1. ls.del \in {Quote, "'"} /\ ls.del \in Plainly /\ ls.del # Slash /\ Slash \in Plainly
  BY DEF Fits, Counts, Plainly, Quote, Slash
<1>2. CASE ls.cur = ls.del
  <2> DEFINE t == SaveAndNext(ls)
  <2>0. ls.cur # Slash /\ ls.cur # EOZ /\ ~CurrIsNewline(ls)
    BY <1>1, <1>2, PlainFacts DEF Plain
  <2>1. ls' = Token(t, "string", Inner(t, 1))
    BY <1>2, <2>0 DEF StringBody
  <2>2. Goes(ls, t)
    BY <1>1, <1>2, PlainFacts, ReadGoes
  <2> HIDE DEF t
  <2>3. Goes(t, Token(t, "string", Inner(t, 1)))
    <3>1. Fits(t)
      BY <2>2 DEF Goes
    <3> QED BY <3>1, Stills
  <2> QED BY <2>1, <2>2, <2>3, GoesOn
<1>3. CASE ls.cur = Slash
  <2>0. ls.cur # ls.del /\ ls.cur # EOZ /\ ~CurrIsNewline(ls)
    BY <1>1, <1>3, PlainFacts DEF Plain
  <2>1. ls' = Escape(NextChar(ls))
    BY <1>3, <2>0 DEF StringBody
  <2>2. Goes(ls, NextChar(ls))
    BY <1>1, <1>3, PlainFacts, ReadGoes
  <2>3. Goes(NextChar(ls), Escape(NextChar(ls)))
    BY <2>2, EscapeGoes DEF Goes
  <2> QED BY <2>1, <2>2, <2>3, GoesOn
<1>4. CASE ls.cur # ls.del /\ ls.cur # Slash /\ (ls.cur = EOZ \/ CurrIsNewline(ls))
  <2>1. ls' = LexError(ls)
    BY <1>4 DEF StringBody
  <2> QED BY <2>1, Stills
<1>5. CASE ls.cur # ls.del /\ ls.cur # Slash /\ ls.cur # EOZ /\ ~CurrIsNewline(ls)
  <2>1. ls' = SaveAndNext(ls)
    BY <1>5 DEF StringBody
  <2> QED BY <1>5, <2>1, ReadGoes DEF Plain
<1> QED BY <1>2, <1>3, <1>4, <1>5

(* What \ddd stands for.                                                       *)
LEMMA DecimalGoes ==
  ASSUME Fits(ls), Decimal
  PROVE  Goes(ls, ls')
<1>1. CASE ls.i < 3 /\ ls.cur \in Digits
  <2> DEFINE t == NextChar(ls)
             z == [t EXCEPT !.i = @ + 1, !.code = 10 * @ + DigitOf(ls.cur)]
  <2>1. ls' = z
    BY <1>1 DEF Decimal
  <2>2. ls.cur \in Plainly
    BY <1>1 DEF Plainly
  <2>3. Goes(ls, t)
    BY <2>2, PlainFacts, ReadGoes
  <2> HIDE DEF t
  <2>4. Still(t, z)
    BY <2>3 DEF Still, Goes, Fits, Streams, Counts, LexFields
  <2> HIDE DEF z
  <2>5. Goes(t, z)
    BY <2>3, <2>4, StillGoes DEF Goes
  <2> QED BY <2>1, <2>3, <2>5, GoesOn
<1>2. CASE ~(ls.i < 3 /\ ls.cur \in Digits)
  <2> DEFINE c == CharOf(ls.code)
             t == Save(ls, c)
  <2>1. ls' = IF c = "none" THEN LexError(ls) ELSE Goto("string", t)
    BY <1>2 DEF Decimal
  <2> HIDE DEF c
  <2>2. Goes(ls, t)
    BY Stills
  <2> HIDE DEF t
  <2>3. Goes(t, Goto("string", t))
    BY <2>2, Stills DEF Goes
  <2>4. Goes(ls, LexError(ls))
    BY Stills
  <2> QED BY <2>1, <2>2, <2>3, <2>4, GoesOn
<1> QED BY <1>1, <1>2

(* A short comment.                                                            *)
LEMMA ToLineEndGoes ==
  ASSUME Fits(ls), ToLineEnd
  PROVE  Goes(ls, ls')
<1>1. CASE CurrIsNewline(ls) \/ ls.cur = EOZ
  BY <1>1, Stills DEF ToLineEnd
<1>2. CASE ~(CurrIsNewline(ls) \/ ls.cur = EOZ)
  BY <1>2, ReadGoes DEF ToLineEnd, Plain
<1> QED BY <1>1, <1>2

(* The dots and dashes.                                                        *)
LEMMA DotsGoes ==
  ASSUME NEW s, Fits(s), s.cur = "."
  PROVE  Goes(s, Dots(s))
<1> DEFINE one == SaveAndNext(s)
           two == CheckNext(one, {"."})
           three == CheckNext(two, {"."})
<1>1. {"."} \subseteq Plainly /\ s.cur \in Plainly
  BY DEF Plainly
<1>2. Dots(s) \in {Goto("points", one), Token(one, ".", <<>>), Token(three, "...", <<>>), Token(three, "..", <<>>)}
  <2>1. CASE one.cur \in {".", Nul}
    BY <2>1 DEF Dots, Digits, Nul
  <2>2. CASE one.cur \in Digits
    BY <2>2 DEF Dots, Digits, Nul
  <2>3. CASE one.cur \notin {".", Nul} /\ one.cur \notin Digits
    BY <2>3 DEF Dots
  <2> QED BY <2>1, <2>2, <2>3
<1>3. Goes(s, one)
  BY <1>1, PlainFacts, ReadGoes
<1> HIDE DEF one
<1>4. Goes(one, two)
  BY <1>1, <1>3, CheckGoes DEF Goes
<1> HIDE DEF two
<1>5. Goes(two, three)
  BY <1>1, <1>4, CheckGoes DEF Goes
<1> HIDE DEF three
<1>6. Goes(s, three)
  BY <1>3, <1>4, <1>5, GoesOn
<1>7. /\ Goes(one, Goto("points", one)) /\ Goes(one, Token(one, ".", <<>>))
      /\ Goes(three, Token(three, "...", <<>>)) /\ Goes(three, Token(three, "..", <<>>))
  <2>1. Fits(one) /\ Fits(three)
    BY <1>3, <1>6 DEF Goes
  <2> QED BY <2>1, Stills
<1> QED BY <1>2, <1>3, <1>6, <1>7, GoesOn

(* A dash, or two that begin a comment.                                        *)
LEMMA DashesGoes ==
  ASSUME NEW n, Fits(n)
  PROVE  Goes(n, Dashes(n))
<1>1. CASE n.cur # "-"
  BY <1>1, Stills DEF Dashes
<1>2. CASE n.cur = "-"
  <2> DEFINE c == NextChar(n)
  <2>1. n.cur \in Plainly
    BY <1>2 DEF Plainly
  <2>2. Goes(n, c)
    BY <2>1, PlainFacts, ReadGoes
  <2>3. Dashes(n) = IF c.cur = "[" THEN Bracket(c, FALSE) ELSE Goto("line", c)
    BY <1>2 DEF Dashes
  <2> HIDE DEF c
  <2>4. c.cur = "[" => Goes(c, Bracket(c, FALSE))
    BY <2>2, BracketGoes DEF Goes
  <2>5. Goes(c, Goto("line", c))
    BY <2>2, Stills DEF Goes
  <2> QED BY <2>2, <2>3, <2>4, <2>5, GoesOn
<1> QED BY <1>1, <1>2

(* What a quote is not.                                                        *)
LEMMA QuoteFacts ==
  /\ \A c \in {" ", "-", "[", "=", "."} : c \notin {Quote, "'"}
  /\ \A c \in {Quote, "'"} : c \notin {" ", "-", "[", "=", ".", "0", "1", "3", "a", "n", "r"}
  /\ \A c \in {"0", "1", "3", "a", "n", "r"} : c \notin {Quote, "'"}
<1>1. Quote \notin {" ", "-", "[", "=", ".", "0", "1", "3", "a", "n", "r"}
  BY DEF Quote
<1> QED BY <1>1

(* llex: what it does with each first character.                               *)
LEMMA LlexGoes ==
  ASSUME NEW s, Fits(s)
  PROVE  Goes(s, LlexFrom(s))
<1> DEFINE n == NextChar(s)
<1>1. CASE CurrIsNewline(s)
  <2>1. /\ s.cur # EOZ /\ s.cur # " " /\ s.cur # "-" /\ s.cur # "[" /\ s.cur # "=" /\ s.cur \notin {Quote, "'"} /\ s.cur # "."
        /\ s.cur \notin Digits /\ s.cur \notin Letters
    <3>1. s.cur \notin Plainly /\ s.cur # EOZ
      BY <1>1, PlainFacts DEF Plain, CurrIsNewline, Breaks, LF, CR, EOZ
    <3> QED BY <3>1 DEF Plainly
  <2>2. LlexFrom(s) = IncLine(s)
    BY <1>1, <2>1 DEF LlexFrom
  <2> QED BY <1>1, <2>2, IncGoes
<1>2. CASE s.cur = EOZ
  <2>1. /\ ~CurrIsNewline(s) /\ s.cur # " " /\ s.cur # "-" /\ s.cur # "[" /\ s.cur # "=" /\ s.cur \notin {Quote, "'"}
        /\ s.cur # "." /\ s.cur \notin Digits /\ s.cur \notin Letters
    <3>1. s.cur \notin Plainly /\ ~CurrIsNewline(s)
      BY <1>2, PlainFacts DEF Plain, CurrIsNewline, Breaks, LF, CR, EOZ
    <3> QED BY <3>1 DEF Plainly
  <2>2. LlexFrom(s) = Goto("eos", s)
    BY <1>2, <2>1 DEF LlexFrom
  <2> QED BY <2>2, Stills
<1>3. CASE Plain(s)
  <2>0. s.cur # EOZ /\ ~CurrIsNewline(s) /\ Goes(s, n) /\ Goes(s, SaveAndNext(s))
    BY <1>3, ReadGoes DEF Plain
  <2> HIDE DEF n
  <2>1. CASE s.cur = " "
    <3>1. LlexFrom(s) = n
      BY <2>0, <2>1, QuoteFacts DEF LlexFrom, n, Digits, Letters
    <3> QED BY <2>0, <3>1
  <2>2. CASE s.cur = "-"
    <3>1. LlexFrom(s) = Dashes(n)
      BY <2>0, <2>2, QuoteFacts DEF LlexFrom, n, Digits, Letters
    <3>2. Goes(n, Dashes(n))
      BY <2>0, DashesGoes DEF Goes
    <3> QED BY <2>0, <3>1, <3>2, GoesOn
  <2>3. CASE s.cur = "["
    <3>1. LlexFrom(s) = Bracket(s, TRUE)
      BY <2>0, <2>3, QuoteFacts DEF LlexFrom, Digits, Letters
    <3> QED BY <2>3, <3>1, BracketGoes
  <2>4. CASE s.cur = "="
    <3> DEFINE m == NextChar(n)
    <3>1. LlexFrom(s) = IF n.cur = "=" THEN Token(m, "==", <<>>) ELSE Token(n, "=", <<>>)
      BY <2>0, <2>4, QuoteFacts DEF LlexFrom, n, Digits, Letters
    <3>2. Fits(n)
      BY <2>0 DEF Goes
    <3> HIDE DEF m
    <3>3. CASE n.cur = "="
      <4>1. n.cur \in Plainly
        BY <3>3 DEF Plainly
      <4>2. Goes(n, m) /\ Fits(m)
        BY <3>2, <4>1, PlainFacts, ReadGoes DEF m, Goes
      <4>3. Goes(m, Token(m, "==", <<>>))
        BY <4>2, Stills
      <4> QED BY <2>0, <3>1, <3>3, <4>2, <4>3, GoesOn
    <3>4. CASE n.cur # "="
      <4>1. Goes(n, Token(n, "=", <<>>))
        BY <3>2, Stills
      <4> QED BY <2>0, <3>1, <3>4, <4>1, GoesOn
    <3> QED BY <3>3, <3>4
  <2>5. CASE s.cur \in {Quote, "'"}
    <3> DEFINE t == SaveAndNext(s)
               z == [t EXCEPT !.pc = "string", !.del = s.cur]
    <3>0. s.cur # " " /\ s.cur # "-" /\ s.cur # "[" /\ s.cur # "=" /\ s.cur # "." /\ s.cur \notin Digits /\ s.cur \notin Letters
      BY <2>5, QuoteFacts DEF Digits, Letters
    <3>1. LlexFrom(s) = z
      BY <2>0, <2>5, <3>0 DEF LlexFrom
    <3>2. Goes(s, t)
      BY <2>0
    <3> HIDE DEF t
    <3>3. Still(t, z)
      BY <2>5, <3>2 DEF Still, Goes, Fits, Streams, Counts, LexFields
    <3> HIDE DEF z
    <3>4. Goes(t, z)
      BY <3>2, <3>3, StillGoes DEF Goes
    <3> QED BY <3>1, <3>2, <3>4, GoesOn
  <2>6. CASE s.cur = "."
    <3>1. LlexFrom(s) = Dots(s)
      BY <2>0, <2>6, QuoteFacts DEF LlexFrom, Digits, Letters
    <3> QED BY <2>6, <3>1, DotsGoes
  <2>7. CASE s.cur \in Digits \cup Letters
    <3>0. s.cur # " " /\ s.cur # "-" /\ s.cur # "[" /\ s.cur # "=" /\ s.cur # "." /\ s.cur \notin {Quote, "'"}
      BY <2>7, QuoteFacts DEF Digits, Letters
    <3>1. CASE s.cur \in Digits
      <4>1. s.cur \notin Letters
        BY <3>1 DEF Digits, Letters
      <4>2. LlexFrom(s) = Goto("points", s)
        BY <2>0, <3>0, <3>1, <4>1 DEF LlexFrom
      <4> QED BY <4>2, Stills
    <3>2. CASE s.cur \notin Digits
      <4>1. LlexFrom(s) = Goto("name", s)
        BY <2>0, <2>7, <3>0, <3>2 DEF LlexFrom
      <4> QED BY <4>1, Stills
    <3> QED BY <3>1, <3>2
  <2>8. CASE /\ s.cur # " " /\ s.cur # "-" /\ s.cur # "[" /\ s.cur # "=" /\ s.cur # "." /\ s.cur \notin {Quote, "'"}
             /\ s.cur \notin Digits /\ s.cur \notin Letters
    <3>1. LlexFrom(s) = Token(n, s.cur, <<>>)
      BY <2>0, <2>8 DEF LlexFrom, n
    <3>2. Goes(n, Token(n, s.cur, <<>>))
      <4>1. Fits(n)
        BY <2>0 DEF Goes
      <4> QED BY <4>1, Stills
    <3> QED BY <2>0, <3>1, <3>2, GoesOn
  <2> QED BY <2>1, <2>2, <2>3, <2>4, <2>5, <2>6, <2>7, <2>8
<1> QED BY <1>1, <1>2, <1>3 DEF Plain

(* Every step of the lexer fits.                                               *)
LEMMA StepGoes ==
  ASSUME Fits(ls), LexNext
  PROVE  Goes(ls, ls')
<1>1. CASE Llex
  <2> DEFINE r == Reset(ls)
  <2>1. Goes(ls, r) /\ ls' = LlexFrom(r)
    BY <1>1, Stills DEF Llex
  <2> HIDE DEF r
  <2>2. Goes(r, LlexFrom(r))
    BY <2>1, LlexGoes DEF Goes
  <2> QED BY <2>1, <2>2, GoesOn
<1>2. CASE Points \/ Alnums \/ Name
  BY <1>2, NumeralGoes
<1>3. CASE SkipSep \/ LongBody \/ StringBody \/ Decimal \/ ToLineEnd
  BY <1>3, SkipSepGoes, LongBodyGoes, StringBodyGoes, DecimalGoes, ToLineEndGoes
<1> QED BY <1>1, <1>2, <1>3 DEF LexNext

\* The lexer before its first token.
IsSet(s, t, written, any) ==
  /\ Fits(s) /\ s.any = any /\ s.written = written /\ s.toks = <<>> /\ s.pc = "llex" /\ s.text = t /\ Place(s) = 1

(* luaX_setinput reads the first character.                                    *)
LEMMA SetInputFits ==
  ASSUME NEW t, IsText(t), NEW size \in Nat \ {0}, NEW written, NEW any
  PROVE  IsSet(SetInput(t, size, written, any), t, written, any)
<1> DEFINE z == [text |-> t, size |-> size, at |-> 1, n |-> 0, cur |-> EOZ, past |-> FALSE, line |-> 1, buff |-> <<>>,
                 toks |-> <<>>, written |-> written, any |-> any, pc |-> "llex", del |-> Quote, bracket |-> "[",
                 count |-> 0, keep |-> FALSE, sep |-> NoSep, i |-> 0, code |-> 0]
           s == SetInput(t, size, written, any)
           L == Len(t)
<1>1. L \in Nat /\ DOMAIN t = 1 .. L /\ \A k \in 1 .. L : t[k] # EOZ
  BY TextFacts
<1>2. /\ DOMAIN z = LexFields /\ z.text = t /\ z.size = size /\ z.at = 1 /\ z.n = 0 /\ z.cur = EOZ /\ ~z.past /\ z.line = 1
      /\ z.toks = <<>> /\ z.written = written /\ z.any = any /\ z.pc = "llex" /\ Counts(z)
  BY DEF LexFields, Counts
<1>3. s = NextChar(z)
  BY DEF SetInput
<1> HIDE DEF z, s
<1>4. Fill(z) = IF L < size THEN L ELSE size
  BY <1>1, <1>2 DEF Fill
<1>5. CASE L = 0
  <2>1. s = [z EXCEPT !.cur = EOZ, !.n = Wrapped]
    BY <1>2, <1>3, <1>4, <1>5 DEF NextChar, Wrapped
  <2>2. /\ DOMAIN s = LexFields /\ s.text = t /\ s.size = size /\ s.at = 1 /\ s.n = Wrapped /\ s.cur = EOZ /\ ~s.past
        /\ s.line = 1 /\ s.toks = <<>> /\ s.written = written /\ s.any = any /\ s.pc = "llex" /\ Counts(s)
    BY <1>2, <2>1 DEF LexFields, Counts
  <2>3. Place(s) = 1
    BY <1>5, <2>2 DEF Place
  <2>4. Streams(s)
    BY <1>1, <1>5, <2>2 DEF Streams, Wrapped
  <2>5. ~CurrIsNewline(s)
    BY <2>2 DEF CurrIsNewline, Breaks, LF, CR, EOZ
  <2>6. Before(t, 1) = {}
    BY <1>1, BreakFacts DEF Before
  <2>7. Fits(s)
    BY <2>2, <2>3, <2>4, <2>5, <2>6, FS_EmptySet DEF Fits, Lined
  <2> QED BY <2>2, <2>3, <2>7 DEF s, IsSet
<1>6. CASE L # 0
  <2>1. Fill(z) # 0 /\ Fill(z) \in Nat /\ Fill(z) <= L
    BY <1>1, <1>4, <1>6
  <2>2. s = [z EXCEPT !.cur = t[1], !.at = 2, !.n = Fill(z) - 1]
    BY <1>2, <1>3, <2>1 DEF NextChar, Wrapped
  <2>3. /\ DOMAIN s = LexFields /\ s.text = t /\ s.size = size /\ s.at = 2 /\ s.n = Fill(z) - 1 /\ s.cur = t[1] /\ ~s.past
        /\ s.line = 1 /\ s.toks = <<>> /\ s.written = written /\ s.any = any /\ s.pc = "llex" /\ Counts(s)
    BY <1>2, <2>2 DEF LexFields, Counts
  <2>4. t[1] # EOZ /\ Place(s) = 1
    BY <1>1, <1>6, <2>3 DEF Place
  <2>5. Streams(s)
    BY <1>1, <1>6, <2>1, <2>3, <2>4 DEF Streams, Wrapped
  <2>6. Before(t, 1) = {}
    BY <1>1, BreakFacts DEF Before
  <2>7. CurrIsNewline(s) => 1 \in BreaksOf(t)
    BY <1>1, <1>6, <2>3, BreakFacts DEF CurrIsNewline
  <2>8. Fits(s)
    <3>1. Before(s.text, Place(s)) = {} /\ Cardinality({}) = 0 /\ s.line = 1 /\ Counts(s)
      BY <2>3, <2>4, <2>6, FS_EmptySet
    <3>2. CurrIsNewline(s) => Place(s) \in BreaksOf(s.text)
      BY <2>3, <2>4, <2>7
    <3>3. s.line = 1 + Cardinality(Before(s.text, Place(s)))
      BY <3>1
    <3> QED BY <2>5, <3>1, <3>2, <3>3 DEF Fits, Lined
  <2> QED BY <2>3, <2>4, <2>8 DEF s, IsSet
<1> QED BY <1>1, <1>5, <1>6

(* A sequence of characters is a text.                                         *)
LEMMA TextType ==
  ASSUME NEW C, EOZ \notin C, NEW x \in Seq(C)
  PROVE  IsText(x)
<1> DEFINE S == {x[k] : k \in DOMAIN x} \ {EOZ}
<1>1. Len(x) \in Nat /\ DOMAIN x = 1 .. Len(x) /\ \A k \in 1 .. Len(x) : x[k] \in C
  BY LenProperties, ElementOfSeq
<1>2. \A k \in 1 .. Len(x) : x[k] \in S
  BY <1>1
<1> HIDE DEF S
<1>3. x = [k \in 1 .. Len(x) |-> x[k]]
  BY <1>1, LenProperties
<1>4. x \in Seq(S)
  BY <1>1, <1>2, <1>3, SeqDef
<1> QED BY <1>4 DEF IsText, S
-----------------------------------------------------------------------------
(* What %q writes of a string.                                                 *)

\* The characters in it, what is written of each, and of the first k.
Chars(t) == {t[k] : k \in DOMAIN t} \cup {Slash, "r", "0", Quote}
Parts(t) == [k \in DOMAIN t |-> Quoted(t[k])]
Off(t, k) == Len(FlattenSeq(SubSeq(Parts(t), 1, k)))

(* How a character is written.                                                 *)
LEMMA QuotedFacts ==
  ASSUME NEW c, NEW C, c \in C, {Slash, "r", "0"} \subseteq C
  PROVE  /\ c \in {Quote, Slash, LF} => Quoted(c) = <<Slash, c>>
         /\ c = CR => Quoted(c) = <<Slash, "r">>
         /\ c = Nul => Quoted(c) = <<Slash, "0", "0", "0">>
         /\ c \notin {Quote, Slash, LF, CR, Nul} => Quoted(c) = <<c>>
         /\ Quoted(c) \in Seq(C) /\ Len(Quoted(c)) \in Nat \ {0} /\ Quoted(c)[1] \in {Slash, c}
         /\ Quoted(c)[1] \notin Breaks
<1>0. Slash \notin Breaks /\ CR \notin {Quote, Slash, LF} /\ Nul \notin {Quote, Slash, LF, CR}
  BY DEF Slash, Quote, Breaks, LF, CR, Nul
<1>1. CASE c \in {Quote, Slash, LF}
  <2>1. Quoted(c) = <<Slash, c>>
    BY <1>0, <1>1 DEF Quoted
  <2> QED BY <1>0, <1>1, <2>1
<1>2. CASE c = CR
  <2>1. Quoted(c) = <<Slash, "r">>
    BY <1>0, <1>2 DEF Quoted
  <2> QED BY <1>0, <1>2, <2>1
<1>3. CASE c = Nul
  <2>1. Quoted(c) = <<Slash, "0", "0", "0">>
    BY <1>0, <1>3 DEF Quoted
  <2> QED BY <1>0, <1>3, <2>1
<1>4. CASE c \notin {Quote, Slash, LF, CR, Nul}
  <2>1. Quoted(c) = <<c>>
    BY <1>4 DEF Quoted
  <2> QED BY <1>0, <1>4, <2>1 DEF Breaks
<1> QED BY <1>1, <1>2, <1>3, <1>4

(* The parts are strings, and one after the other they are the text but its    *)
(* quotes.                                                                     *)
LEMMA PartsFacts ==
  ASSUME NEW t, IsText(t)
  PROVE  /\ Parts(t) \in Strings(Chars(t)) /\ Len(Parts(t)) = Len(t) /\ EOZ \notin Chars(t)
         /\ \A k \in 1 .. Len(t) : Parts(t)[k] = Quoted(t[k])
         /\ FlattenSeq(Parts(t)) \in Seq(Chars(t)) /\ AddQuoted(t) = <<Quote>> \o FlattenSeq(Parts(t)) \o <<Quote>>
<1>1. Len(t) \in Nat /\ DOMAIN t = 1 .. Len(t) /\ \A k \in 1 .. Len(t) : t[k] # EOZ
  BY TextFacts
<1>2. \A k \in 1 .. Len(t) : t[k] \in Chars(t)
  BY <1>1 DEF Chars
<1>3. {Slash, "r", "0"} \subseteq Chars(t)
  BY DEF Chars
<1>4. EOZ \notin Chars(t)
  <2>1. EOZ \notin {Slash, "r", "0", Quote}
    BY DEF EOZ, Slash, Quote
  <2> QED BY <1>1, <2>1 DEF Chars
<1>5. \A k \in 1 .. Len(t) : Quoted(t[k]) \in Seq(Chars(t))
  BY <1>2, <1>3, QuotedFacts
<1>6. Parts(t) = [k \in 1 .. Len(t) |-> Quoted(t[k])]
  BY <1>1 DEF Parts
<1> HIDE DEF Parts
<1>7. Parts(t) \in Seq(Seq(Chars(t))) /\ Len(Parts(t)) = Len(t)
  BY <1>1, <1>5, <1>6, SeqDef
<1>8. FlattenSeq(Parts(t)) \in Seq(Chars(t))
  BY <1>7, FlattenType DEF Strings
<1>9. AddQuoted(t) = <<Quote>> \o FlattenSeq(Parts(t)) \o <<Quote>>
  BY DEF AddQuoted, Parts
<1> QED BY <1>4, <1>6, <1>7, <1>8, <1>9 DEF Strings

(* Where the part of each character is in all of them.                         *)
LEMMA PartAt ==
  ASSUME NEW t, IsText(t)
  PROVE  LET f == FlattenSeq(Parts(t))
         IN  /\ Off(t, 0) = 0 /\ Off(t, Len(t)) = Len(f)
             /\ \A k \in 0 .. Len(t) : Off(t, k) \in Nat /\ Off(t, k) <= Len(f)
             /\ \A k \in 0 .. Len(t) - 1 :
                  /\ Off(t, k + 1) = Off(t, k) + Len(Quoted(t[k + 1]))
                  /\ \A i \in 1 .. Len(Quoted(t[k + 1])) : f[Off(t, k) + i] = Quoted(t[k + 1])[i]
<1> DEFINE u == Parts(t)
           n == Len(t)
           f == FlattenSeq(u)
           C == Chars(t)
           F(k) == FlattenSeq(SubSeq(u, 1, k))
<1>1. u \in Strings(C) /\ Len(u) = n /\ n \in Nat /\ f \in Seq(C) /\ \A k \in 1 .. n : u[k] = Quoted(t[k])
  BY PartsFacts, TextFacts
<1>2. \A k \in 0 .. n : Off(t, k) = Len(F(k))
  BY DEF Off
<1> HIDE DEF u
<1>3. ASSUME NEW k \in 0 .. n
      PROVE  F(k) \in Seq(C) /\ \E e \in Seq(C) : f = F(k) \o e
  <2>1. /\ SubSeq(u, 1, k) \in Strings(C) /\ SubSeq(u, k + 1, n) \in Strings(C)
        /\ f = FlattenSeq(SubSeq(u, 1, k)) \o FlattenSeq(SubSeq(u, k + 1, n))
    BY <1>1, FlattenSplit
  <2> QED BY <2>1, FlattenType
<1>4. SubSeq(u, 1, 0) = <<>> /\ SubSeq(u, 1, n) = u
  BY <1>1 DEF Strings
<1>5. ASSUME NEW k \in 0 .. n - 1
      PROVE  F(k + 1) = F(k) \o Quoted(t[k + 1]) /\ Quoted(t[k + 1]) \in Seq(C)
  <2>1. k \in 0 .. n /\ k + 1 \in 1 .. n
    BY <1>1
  <2>2. SubSeq(u, 1, k) \in Strings(C)
    BY <1>1, <2>1, FlattenSplit
  <2>3. u[k + 1] \in Seq(C)
    BY <1>1, <2>1 DEF Strings
  <2>4. SubSeq(u, 1, k + 1) = Append(SubSeq(u, 1, k), u[k + 1])
    BY <1>1, <2>1 DEF Strings
  <2>5. F(k + 1) = F(k) \o u[k + 1]
    BY <2>2, <2>3, <2>4, FlattenAppend
  <2> QED BY <1>1, <2>1, <2>3, <2>5
<1>6. FlattenSeq(<<>>) = <<>>
  BY DEF FlattenSeq
<1>7. F(0) = <<>> /\ F(n) = f
  BY <1>4, <1>6
<1>8. \A e1, e2 \in Seq(C) : Len(e1 \o e2) = Len(e1) + Len(e2) /\ Len(e1) \in Nat /\ Len(e2) \in Nat
  BY ConcatProperties, LenProperties
<1> HIDE DEF F, f, n, C
<1>9. ASSUME NEW k \in 0 .. n
      PROVE  Len(F(k)) \in Nat /\ Len(F(k)) <= Len(f)
  <2>1. PICK e \in Seq(C) : f = F(k) \o e
    BY <1>3
  <2> QED BY <1>3, <1>8, <2>1
<1>10. ASSUME NEW k \in 0 .. n - 1
       PROVE  /\ Len(F(k + 1)) = Len(F(k)) + Len(Quoted(t[k + 1]))
              /\ \A i \in 1 .. Len(Quoted(t[k + 1])) : f[Len(F(k)) + i] = Quoted(t[k + 1])[i]
  <2> DEFINE a == F(k)
             b == Quoted(t[k + 1])
  <2>1. k \in 0 .. n /\ k + 1 \in 0 .. n
    BY <1>1
  <2>2. PICK e \in Seq(C) : f = F(k + 1) \o e
    BY <1>3, <2>1
  <2>3. a \in Seq(C) /\ b \in Seq(C) /\ F(k + 1) = a \o b
    BY <1>3, <1>5, <2>1
  <2> HIDE DEF a, b
  <2>4. f = (a \o b) \o e
    BY <2>2, <2>3
  <2>5. Len(a) \in Nat /\ Len(b) \in Nat /\ Len(e) \in Nat /\ a \o b \in Seq(C) /\ Len(a \o b) = Len(a) + Len(b)
    BY <1>8, <2>2, <2>3, ConcatProperties
  <2>6. ASSUME NEW i \in 1 .. Len(b) PROVE f[Len(a) + i] = b[i]
    <3>1. Len(a) + i \in 1 .. Len(a) + Len(b) /\ Len(a) + i > Len(a) /\ (Len(a) + i) - Len(a) = i
      BY <2>5
    <3>2. f[Len(a) + i] = (a \o b)[Len(a) + i]
      <4> DEFINE h == a \o b
                 j == Len(a) + i
      <4>1. h \in Seq(C) /\ f = h \o e /\ j \in 1 .. Len(h) /\ Len(h) \in Nat /\ Len(e) \in Nat
        BY <2>4, <2>5, <3>1
      <4> HIDE DEF h, j
      <4>2. j \in 1 .. Len(h) + Len(e) /\ j <= Len(h)
        BY <4>1
      <4>3. f[j] = h[j]
        BY <2>2, <4>1, <4>2, ConcatProperties
      <4> QED BY <4>3 DEF h, j
    <3>3. (a \o b)[Len(a) + i] = b[(Len(a) + i) - Len(a)]
      BY <2>3, <2>5, <3>1, ConcatProperties
    <3> QED BY <3>1, <3>2, <3>3
  <2>7. Len(F(k + 1)) = Len(a) + Len(b)
    BY <2>3, <2>5
  <2> QED BY <2>6, <2>7 DEF a, b
<1>11. 0 \in 0 .. n /\ n \in 0 .. n /\ Len(<<>>) = 0
  BY <1>1
<1>12. \A k \in 0 .. n - 1 : k \in 0 .. n /\ k + 1 \in 0 .. n
  BY <1>1
<1> QED BY <1>2, <1>7, <1>9, <1>10, <1>11, <1>12 DEF f, n, u

(* The text of a string: it opens with a quote, where each part is, and the    *)
(* closing quote at its end.                                                   *)
LEMMA QuotedAt ==
  ASSUME NEW t, IsText(t)
  PROVE  LET x == AddQuoted(t)
         IN  /\ IsText(x) /\ Len(x) \in Nat /\ x[1] = Quote /\ Off(t, 0) = 0
             /\ Len(x) = 2 + Off(t, Len(t)) /\ x[2 + Off(t, Len(t))] = Quote
             /\ \A k \in 0 .. Len(t) : Off(t, k) \in Nat /\ 2 + Off(t, k) \in 1 .. Len(x) /\ x[2 + Off(t, k)] \notin Breaks
             /\ \A k \in 0 .. Len(t) - 1 :
                  /\ Off(t, k + 1) = Off(t, k) + Len(Quoted(t[k + 1]))
                  /\ \A i \in 1 .. Len(Quoted(t[k + 1])) : x[1 + Off(t, k) + i] = Quoted(t[k + 1])[i]
<1> DEFINE x == AddQuoted(t)
           f == FlattenSeq(Parts(t))
           C == Chars(t)
           n == Len(t)
           L == Len(f)
<1>1. f \in Seq(C) /\ x = <<Quote>> \o f \o <<Quote>> /\ EOZ \notin C
  BY PartsFacts
<1>2. /\ Off(t, 0) = 0 /\ Off(t, n) = L
      /\ \A k \in 0 .. n : Off(t, k) \in Nat /\ Off(t, k) <= L
      /\ \A k \in 0 .. n - 1 :
           /\ Off(t, k + 1) = Off(t, k) + Len(Quoted(t[k + 1]))
           /\ \A i \in 1 .. Len(Quoted(t[k + 1])) : f[Off(t, k) + i] = Quoted(t[k + 1])[i]
  BY PartAt
<1>3. n \in Nat /\ L \in Nat
  BY <1>1, TextFacts, LenProperties
<1>4. <<Quote>> \in Seq(C)
  BY DEF Chars
<1>5. \A k \in 1 .. n : Len(Quoted(t[k])) \in Nat \ {0} /\ Quoted(t[k])[1] \notin Breaks
  <2> TAKE k \in 1 .. n
  <2>1. t[k] \in C /\ {Slash, "r", "0"} \subseteq C
    BY TextFacts DEF Chars
  <2> HIDE DEF C
  <2> QED BY <2>1, QuotedFacts
<1> HIDE DEF x, f, C, n, L
<1>6. /\ x \in Seq(C) /\ Len(x) = L + 2 /\ x[1] = Quote /\ x[L + 2] = Quote
      /\ \A j \in 1 .. L : x[1 + j] = f[j]
  <2> DEFINE w == <<Quote>> \o f
  <2>1. /\ w \in Seq(C) /\ Len(w) = 1 + L /\ w[1] = Quote
        /\ \A j \in 1 .. L : w[1 + j] = f[j]
    <3>1. Len(<<Quote>>) = 1 /\ Len(f) = L
      BY DEF L
    <3>2. \A j \in 1 .. L : 1 + j \in 1 .. 1 + L /\ ~(1 + j <= 1) /\ (1 + j) - 1 = j
      BY <1>3
    <3> QED BY <1>1, <1>3, <1>4, <3>1, <3>2, ConcatProperties
  <2>2. x = w \o <<Quote>>
    BY <1>1
  <2> HIDE DEF w
  <2>3. Len(<<Quote>>) = 1
    OBVIOUS
  <2>4. /\ x \in Seq(C) /\ Len(x) = (1 + L) + 1
        /\ \A j \in 1 .. (1 + L) + 1 : x[j] = IF j <= 1 + L THEN w[j] ELSE <<Quote>>[j - (1 + L)]
    BY <1>4, <2>1, <2>2, <2>3, ConcatProperties
  <2>5. \A j \in 1 .. L : 1 + j \in 1 .. (1 + L) + 1 /\ 1 + j <= 1 + L
    BY <1>3
  <2>6. L + 2 \in 1 .. (1 + L) + 1 /\ ~(L + 2 <= 1 + L) /\ (L + 2) - (1 + L) = 1 /\ (1 + L) + 1 = L + 2
    BY <1>3
  <2>7. 1 \in 1 .. (1 + L) + 1 /\ 1 <= 1 + L
    BY <1>3
  <2> QED BY <2>1, <2>4, <2>5, <2>6, <2>7
<1>7. IsText(x) /\ Len(x) \in Nat
  <2>1. EOZ \notin C /\ x \in Seq(C)
    BY <1>1, <1>6
  <2>2. IsText(x)
    BY <2>1, TextType, Zenon
  <2> QED BY <1>3, <1>6, <2>2
<1>8. ASSUME NEW k \in 0 .. n - 1, NEW i \in 1 .. Len(Quoted(t[k + 1]))
      PROVE  x[1 + Off(t, k) + i] = Quoted(t[k + 1])[i]
  <2>1. k \in 0 .. n /\ k + 1 \in 0 .. n /\ k + 1 \in 1 .. n
    BY <1>3
  <2>2. Off(t, k) \in Nat /\ Off(t, k + 1) <= L /\ Off(t, k + 1) = Off(t, k) + Len(Quoted(t[k + 1]))
    BY <1>2, <2>1
  <2>3. Len(Quoted(t[k + 1])) \in Nat
    BY <1>5, <2>1
  <2>4. Off(t, k) + i \in 1 .. L /\ 1 + Off(t, k) + i = 1 + (Off(t, k) + i)
    BY <1>3, <2>2, <2>3
  <2> QED BY <1>2, <1>6, <2>4
<1>9. x[2 + L] = Quote /\ Quote \notin Breaks /\ 2 + L = L + 2
  <2>1. 2 + L = L + 2
    BY <1>3
  <2>2. Quote \notin Breaks
    BY DEF Quote, Breaks, LF, CR
  <2> QED BY <1>6, <2>1, <2>2
<1>10. ASSUME NEW k \in 0 .. n
       PROVE  Off(t, k) \in Nat /\ 2 + Off(t, k) \in 1 .. Len(x) /\ x[2 + Off(t, k)] \notin Breaks
  <2>1. Off(t, k) \in Nat /\ Off(t, k) <= L
    BY <1>2
  <2>2. 2 + Off(t, k) \in 1 .. Len(x)
    BY <1>3, <1>6, <2>1
  <2>3. CASE k = n
    BY <1>2, <1>9, <2>1, <2>2, <2>3
  <2>4. CASE k # n
    <3>1. k \in 0 .. n - 1 /\ k + 1 \in 1 .. n
      BY <1>3, <2>4
    <3>2. 1 \in 1 .. Len(Quoted(t[k + 1])) /\ Quoted(t[k + 1])[1] \notin Breaks
      BY <1>5, <3>1
    <3>3. x[1 + Off(t, k) + 1] = Quoted(t[k + 1])[1]
      BY <1>8, <3>1, <3>2
    <3>4. 1 + Off(t, k) + 1 = 2 + Off(t, k)
      BY <2>1
    <3> QED BY <2>1, <2>2, <3>2, <3>3, <3>4
  <2> QED BY <2>3, <2>4
<1>11. Len(x) = 2 + Off(t, n) /\ x[2 + Off(t, n)] = Quote
  BY <1>2, <1>6, <1>9
<1> QED BY <1>2, <1>6, <1>7, <1>8, <1>10, <1>11 DEF x, n

(* The character at a place of a text.                                         *)
LEMMA AtPlace ==
  ASSUME NEW s, Fits(s)
  PROVE  /\ Place(s) \in 1 .. Len(s.text) => s.cur = s.text[Place(s)] /\ s.cur # EOZ
         /\ Place(s) = Len(s.text) + 1 => s.cur = EOZ
<1>1. Streams(s) /\ Len(s.text) \in Nat
  BY TextFacts DEF Fits, Streams
<1>2. CASE s.cur = EOZ
  BY <1>1, <1>2 DEF Place
<1>3. CASE s.cur # EOZ
  <2>1. Place(s) = s.at - 1 /\ s.at \in 1 .. Len(s.text) + 1 /\ s.cur = s.text[s.at - 1]
    BY <1>1, <1>3 DEF Place, Streams
  <2> QED BY <1>1, <1>3, <2>1
<1> QED BY <1>2, <1>3

(* What stays the same while a string is read, and how a character of it, a    *)
(* saved one and a break are read.                                             *)
Carried(s, y) ==
  y.text = s.text /\ y.written = s.written /\ y.any = s.any /\ y.toks = s.toks /\ y.pc = s.pc /\ y.del = s.del
  /\ y.i = s.i /\ y.code = s.code
Taken(s, y, b) == Fits(y) /\ Carried(s, y) /\ y.buff = b /\ Place(y) = Place(s) + 1

(* A plain character is read so, saved or not.                                 *)
LEMMA TakenFacts ==
  ASSUME NEW s, Fits(s)
  PROVE  /\ Plain(s) => Taken(s, NextChar(s), s.buff)
         /\ Plain(s) => \A c : Taken(s, NextChar(Save(s, c)), Append(s.buff, c))
         /\ Plain(s) => Taken(s, SaveAndNext(s), Append(s.buff, s.cur))
<1>1. ASSUME NEW y, Fits(y), Plain(y) PROVE Taken(y, NextChar(y), y.buff)
  <2>1. Fits(NextChar(y)) /\ Moved(y, NextChar(y))
    BY <1>1, NextFits DEF Plain
  <2> QED BY <2>1 DEF Taken, Carried, Moved, Rest
<1>2. ASSUME NEW c
      PROVE  /\ Fits(Save(s, c)) /\ Carried(s, Save(s, c)) /\ Save(s, c).buff = Append(s.buff, c)
             /\ Save(s, c).cur = s.cur /\ Place(Save(s, c)) = Place(s)
  <2>1. Goes(s, Save(s, c))
    BY Stills
  <2>2. Fits(Save(s, c)) /\ DOMAIN s = LexFields
    BY <2>1 DEF Goes, Fits, Streams
  <2> QED BY <2>2 DEF Save, Carried, LexFields, Place
<1>3. ASSUME NEW c, Plain(s) PROVE Taken(s, NextChar(Save(s, c)), Append(s.buff, c))
  <2> DEFINE u == Save(s, c)
             y == NextChar(u)
  <2>1. /\ Fits(u) /\ Carried(s, u) /\ u.buff = Append(s.buff, c) /\ u.cur = s.cur /\ Place(u) = Place(s)
    BY <1>2
  <2>2. Plain(u)
    BY <1>3, <2>1 DEF Plain, CurrIsNewline
  <2>3. Taken(u, y, u.buff)
    BY <1>1, <2>1, <2>2
  <2> HIDE DEF u, y
  <2>4. Taken(s, y, Append(s.buff, c))
    BY <2>1, <2>3 DEF Taken, Carried
  <2> QED BY <2>4 DEF u, y
<1>4. Plain(s) => Taken(s, SaveAndNext(s), Append(s.buff, s.cur))
  BY <1>3 DEF SaveAndNext
<1> QED BY <1>1, <1>3, <1>4

(* A break with none behind it.                                                *)
LEMMA BreakTaken ==
  ASSUME NEW s, Fits(s), s.cur \in Breaks, NEW c, Place(s) + 1 \in 1 .. Len(s.text), s.text[Place(s) + 1] \notin Breaks
  PROVE  Taken(s, IncLine(Save(s, c)), Append(s.buff, c))
<1> DEFINE u == Save(s, c)
           y == IncLine(u)
<1>1. DOMAIN s = LexFields /\ Fits(u)
  <2>1. Goes(s, u)
    BY Stills
  <2> QED BY <2>1 DEF Fits, Streams, Goes
<1>2. /\ Carried(s, u) /\ u.buff = Append(s.buff, c) /\ u.cur = s.cur /\ Place(u) = Place(s)
  BY <1>1 DEF Save, Carried, LexFields, Place
<1> HIDE DEF u, y
<1>3. Broken(u, y)
  BY <1>1, <1>2, IncFits DEF CurrIsNewline, y
<1>4. u.cur # EOZ /\ Streams(u)
  BY <1>1, <1>2 DEF Breaks, LF, CR, EOZ, Fits
<1>5. Moved(u, NextChar(u))
  BY <1>4, NextMoves
<1>6. NextChar(u).cur \notin Breaks
  <2>1. Place(NextChar(u)) = Place(s) + 1 /\ u.text = s.text
    BY <1>2, <1>5 DEF Moved, Carried
  <2>2. Place(s) + 1 <= Len(s.text)
    BY TextFacts DEF Fits, Streams
  <2>3. NextChar(u).cur = s.text[Place(s) + 1]
    BY <1>5, <2>1, <2>2 DEF Moved
  <2> QED BY <2>3
<1>7. Taken(s, y, Append(s.buff, c))
  BY <1>2, <1>3, <1>6 DEF Broken, Taken, Carried, Rest
<1> QED BY <1>7 DEF u, y

-----------------------------------------------------------------------------
(* The lexer reads a string that %q wrote: it is at its opening quote, behind  *)
(* k of its characters, in the digits of a NUL, or behind its end.             *)

\* The quote and k characters are saved.
Held(b, t, k) == b \in Seq(Chars(t)) /\ Len(b) = k + 1 /\ b[1] = Quote /\ \A j \in 1 .. k : b[j + 1] = t[j]

Opening(s) == s.pc = "llex" /\ s.toks = <<>> /\ Place(s) = 1
InString(s, t, k) ==
  /\ s.pc = "string" /\ s.toks = <<>> /\ s.del = Quote
  /\ k \in 0 .. Len(t) /\ Held(s.buff, t, k) /\ Place(s) = 2 + Off(t, k)
InDecimal(s, t, k) ==
  /\ s.pc = "decimal" /\ s.toks = <<>> /\ s.del = Quote
  /\ k \in 0 .. Len(t) - 1 /\ t[k + 1] = Nul /\ Held(s.buff, t, k)
  /\ s.i \in 0 .. 3 /\ s.code = 0 /\ Place(s) = 3 + Off(t, k) + s.i
Closed(s, t) == s.pc \in {"llex", "eos"} /\ s.cur = EOZ /\ \E n : s.toks = <<<<"string", t, n>>>>
Reading(s, t) ==
  /\ IsText(t) /\ s.text = AddQuoted(t) /\ s.written = <<<<"string", t>>>>
  /\ Opening(s) \/ (\E k : InString(s, t, k) \/ InDecimal(s, t, k)) \/ Closed(s, t)

LexInv(s) == Fits(s) /\ (~s.any => \E t : Reading(s, t))

(* One more character is saved.                                                *)
LEMMA HeldMore ==
  ASSUME NEW t, IsText(t), NEW k \in 0 .. Len(t) - 1, NEW b, Held(b, t, k)
  PROVE  Held(Append(b, t[k + 1]), t, k + 1)
<1> DEFINE C == Chars(t)
           c == t[k + 1]
<1>1. Len(t) \in Nat /\ DOMAIN t = 1 .. Len(t) /\ k + 1 \in 1 .. Len(t) /\ k \in Nat
  BY TextFacts
<1>2. c \in C
  BY <1>1 DEF Chars
<1> HIDE DEF C, c
<1>3. b \in Seq(C) /\ Len(b) = k + 1 /\ b[1] = Quote /\ \A j \in 1 .. k : b[j + 1] = t[j]
  BY DEF Held, C
<1>4. /\ Append(b, c) \in Seq(C) /\ Len(Append(b, c)) = (k + 1) + 1 /\ Append(b, c)[(k + 1) + 1] = c
      /\ \A j \in 1 .. k + 1 : Append(b, c)[j] = b[j]
  BY <1>2, <1>3, AppendProperties
<1>5. ASSUME NEW j \in 1 .. k + 1 PROVE Append(b, c)[j + 1] = t[j]
  <2>1. CASE j = k + 1
    BY <1>4, <2>1 DEF c
  <2>2. CASE j # k + 1
    <3>1. j \in 1 .. k /\ j + 1 \in 1 .. k + 1
      BY <1>1, <2>2
    <3> QED BY <1>3, <1>4, <3>1
  <2> QED BY <2>1, <2>2
<1>6. Append(b, c)[1] = Quote
  BY <1>1, <1>3, <1>4
<1> QED BY <1>4, <1>5, <1>6 DEF Held, c, C

(* All of them are saved, and the closing quote: the string is between them.   *)
LEMMA HeldAll ==
  ASSUME NEW t, IsText(t), NEW b, Held(b, t, Len(t)), NEW s, s.buff = Append(b, Quote)
  PROVE  Inner(s, 1) = t
<1> DEFINE C == Chars(t)
           n == Len(t)
           a == s.buff
<1>1. n \in Nat /\ DOMAIN t = 1 .. n
  BY TextFacts
<1>2. Quote \in C
  BY DEF Chars
<1> HIDE DEF C, a
<1>3. b \in Seq(C) /\ Len(b) = n + 1 /\ \A j \in 1 .. n : b[j + 1] = t[j]
  BY DEF Held, C
<1>4. a \in Seq(C) /\ Len(a) = (n + 1) + 1 /\ \A j \in 1 .. n + 1 : a[j] = b[j]
  BY <1>2, <1>3, AppendProperties DEF a
<1>5. Inner(s, 1) = SubSeq(a, 1 + 1, Len(a) - 1)
  BY DEF Inner, a
<1>6. 1 + 1 = 2 /\ Len(a) - 1 = n + 1
  BY <1>1, <1>4
<1>7. Inner(s, 1) = SubSeq(a, 2, n + 1)
  BY <1>5, <1>6
<1>8. \A j \in 1 .. n : a[j + 1] = t[j]
  <2> TAKE j \in 1 .. n
  <2>1. j + 1 \in 1 .. n + 1
    BY <1>1
  <2> QED BY <1>3, <1>4, <2>1
<1>9. SubSeq(a, 2, n + 1) = [j \in 1 .. n |-> a[j + 1]]
  <2>1. /\ Len(SubSeq(a, 2, n + 1)) = n /\ DOMAIN SubSeq(a, 2, n + 1) = 1 .. n
        /\ \A j \in 1 .. n : SubSeq(a, 2, n + 1)[j] = a[2 + j - 1]
    BY <1>1, <1>4
  <2>2. \A j \in 1 .. n : 2 + j - 1 = j + 1
    BY <1>1
  <2>3. SubSeq(a, 2, n + 1) = [j \in DOMAIN SubSeq(a, 2, n + 1) |-> SubSeq(a, 2, n + 1)[j]]
    BY <1>1, <1>4
  <2> QED BY <2>1, <2>2, <2>3
<1>10. t = [j \in 1 .. n |-> t[j]]
  BY <1>1 DEF IsText
<1> QED BY <1>7, <1>8, <1>9, <1>10

(* The opening quote.                                                          *)
LEMMA OpeningStep ==
  ASSUME Fits(ls), NEW t, IsText(t), ls.text = AddQuoted(t), Opening(ls), LexNext
  PROVE  InString(ls', t, 0) /\ ls'.text = ls.text /\ ls'.written = ls.written /\ ls'.any = ls.any
<1> DEFINE r == Reset(ls)
           y == SaveAndNext(r)
           z == [y EXCEPT !.pc = "string", !.del = r.cur]
<1>1. Llex
  BY DEF LexNext, Opening, Points, Alnums, Name, SkipSep, LongBody, StringBody, Decimal, ToLineEnd
<1>2. ls' = LlexFrom(r) /\ DOMAIN ls = LexFields /\ Goes(ls, r)
  BY <1>1, Stills DEF Llex, Fits, Streams
<1>3. /\ Fits(r) /\ r.text = ls.text /\ r.written = ls.written /\ r.any = ls.any /\ r.toks = <<>> /\ r.buff = <<>>
      /\ Place(r) = 1
  BY <1>2 DEF Goes, Reset, LexFields, Opening, Place
<1>4. Len(r.text) \in Nat /\ 1 \in 1 .. Len(r.text) /\ r.text[1] = Quote /\ Off(t, 0) = 0
  <2>1. LET x == AddQuoted(t) IN Len(x) \in Nat /\ x[1] = Quote /\ Off(t, 0) = 0 /\ Len(x) = 2 + Off(t, Len(t))
                                /\ Off(t, Len(t)) \in Nat
    BY QuotedAt, TextFacts
  <2> QED BY <1>3, <2>1
<1>5. r.cur = Quote
  BY <1>3, <1>4, AtPlace
<1> HIDE DEF r, y, z
<1>6. Plain(r)
  BY <1>5, PlainFacts DEF Plainly
<1>7. Taken(r, y, Append(r.buff, Quote))
  BY <1>3, <1>5, <1>6, TakenFacts DEF y
<1>8. ls' = z
  <2>1. r.cur \in {Quote, "'"} /\ ~CurrIsNewline(r) /\ r.cur # EOZ
    BY <1>5, <1>6 DEF Plain
  <2>2. /\ r.cur # " " /\ r.cur # "-" /\ r.cur # "[" /\ r.cur # "=" /\ r.cur # "." /\ r.cur \notin Digits
        /\ r.cur \notin Letters
    BY <2>1, QuoteFacts DEF Digits, Letters
  <2>3. LlexFrom(r) = z
    BY <2>1, <2>2 DEF LlexFrom, y, z
  <2> QED BY <1>2, <2>3
<1>9. DOMAIN y = LexFields
  BY <1>7 DEF Taken, Fits, Streams
<1>10. /\ z.pc = "string" /\ z.del = Quote /\ z.toks = <<>> /\ z.buff = Append(<<>>, Quote) /\ z.text = ls.text
       /\ z.written = ls.written /\ z.any = ls.any /\ Place(z) = 2
  <2>1. /\ z.pc = "string" /\ z.del = r.cur /\ z.toks = y.toks /\ z.buff = y.buff /\ z.text = y.text /\ z.written = y.written
        /\ z.any = y.any /\ z.cur = y.cur /\ z.at = y.at
    BY <1>9 DEF z, LexFields
  <2>2. Place(z) = Place(y)
    BY <2>1 DEF Place
  <2>3. y.buff = Append(r.buff, Quote) /\ Carried(r, y) /\ Place(y) = Place(r) + 1
    BY <1>7 DEF Taken
  <2> QED BY <1>3, <1>5, <2>1, <2>2, <2>3 DEF Carried
<1>11. Held(Append(<<>>, Quote), t, 0)
  <2>1. Quote \in Chars(t)
    BY DEF Chars
  <2>2. Append(<<>>, Quote) = <<Quote>>
    OBVIOUS
  <2> QED BY <2>1, <2>2 DEF Held
<1>12. InString(z, t, 0)
  <2>1. 0 \in 0 .. Len(t)
    BY TextFacts
  <2> QED BY <1>4, <1>10, <1>11, <2>1 DEF InString
<1> QED BY <1>8, <1>10, <1>12

(* Behind the end there is nothing to read.                                    *)
LEMMA ClosedStep ==
  ASSUME Fits(ls), NEW t, Closed(ls, t), LexNext
  PROVE  Closed(ls', t) /\ ls'.text = ls.text /\ ls'.written = ls.written /\ ls'.any = ls.any
<1> DEFINE r == Reset(ls)
<1>1. Llex
  BY DEF LexNext, Closed, Points, Alnums, Name, SkipSep, LongBody, StringBody, Decimal, ToLineEnd
<1>2. ls' = LlexFrom(r) /\ DOMAIN ls = LexFields
  BY <1>1 DEF Llex, Fits, Streams
<1>3. DOMAIN r = LexFields /\ r.text = ls.text /\ r.written = ls.written /\ r.any = ls.any /\ r.toks = ls.toks /\ r.cur = EOZ
  BY <1>2 DEF Reset, LexFields, Closed
<1> HIDE DEF r
<1>4. /\ ~CurrIsNewline(r) /\ r.cur # " " /\ r.cur # "-" /\ r.cur # "[" /\ r.cur # "=" /\ r.cur \notin {Quote, "'"}
      /\ r.cur # "." /\ r.cur \notin Digits /\ r.cur \notin Letters
  <2>1. r.cur \notin Plainly /\ ~CurrIsNewline(r)
    BY <1>3, PlainFacts DEF Plain, CurrIsNewline, Breaks, LF, CR, EOZ
  <2> QED BY <2>1 DEF Plainly
<1>5. ls' = Goto("eos", r)
  BY <1>2, <1>3, <1>4 DEF LlexFrom
<1> QED BY <1>3, <1>5 DEF Goto, LexFields, Closed

(* A character of the string, or its closing quote.                            *)
LEMMA InStringStep ==
  ASSUME Fits(ls), NEW t, IsText(t), ls.text = AddQuoted(t), NEW k, InString(ls, t, k), LexNext
  PROVE  /\ InString(ls', t, k + 1) \/ InDecimal(ls', t, k) \/ Closed(ls', t)
         /\ ls'.text = ls.text /\ ls'.written = ls.written /\ ls'.any = ls.any
<1> DEFINE n == NextChar(ls)
           p == Place(ls)
           x == ls.text
           b == ls.buff
           c == t[k + 1]
           Done(y) == Taken(ls, y, Append(b, c))
<1>1. StringBody
  BY DEF LexNext, InString, Points, Alnums, Name, SkipSep, LongBody, Llex, Decimal, ToLineEnd
<1>2. /\ ls.pc = "string" /\ ls.toks = <<>> /\ ls.del = Quote /\ k \in 0 .. Len(t) /\ Held(b, t, k) /\ p = 2 + Off(t, k)
  BY DEF InString
<1>3. /\ Len(x) \in Nat /\ Len(x) = 2 + Off(t, Len(t)) /\ x[2 + Off(t, Len(t))] = Quote
      /\ \A j \in 0 .. Len(t) : Off(t, j) \in Nat /\ 2 + Off(t, j) \in 1 .. Len(x) /\ x[2 + Off(t, j)] \notin Breaks
      /\ \A j \in 0 .. Len(t) - 1 :
           /\ Off(t, j + 1) = Off(t, j) + Len(Quoted(t[j + 1]))
           /\ \A i \in 1 .. Len(Quoted(t[j + 1])) : x[1 + Off(t, j) + i] = Quoted(t[j + 1])[i]
  BY QuotedAt
<1>4. Len(t) \in Nat /\ \A j \in 1 .. Len(t) : t[j] # EOZ /\ t[j] \in Chars(t)
  BY TextFacts DEF Chars
<1>5. p \in 1 .. Len(x) /\ ls.cur = x[p] /\ ls.cur # EOZ /\ Off(t, k) \in Nat
  BY <1>2, <1>3, AtPlace
<1>6. Quote \in Plainly /\ Slash \in Plainly /\ Quote # Slash
  BY DEF Plainly, Quote, Slash
<1> HIDE DEF n, p, x, b, c
<1>7. CASE k = Len(t)
  <2> DEFINE y == SaveAndNext(ls)
             z == Token(y, "string", Inner(y, 1))
  <2>1. ls.cur = Quote
    BY <1>2, <1>3, <1>5, <1>7
  <2>2. Plain(ls)
    BY <1>6, <2>1, PlainFacts
  <2>3. Taken(ls, y, Append(b, Quote))
    BY <2>1, <2>2, TakenFacts DEF b
  <2>4. Inner(y, 1) = t
    BY <1>2, <1>7, <2>3, HeldAll DEF Taken
  <2>5. ls' = z
    <3>1. ls.cur = ls.del /\ ls.cur # Slash /\ ls.cur # EOZ /\ ~CurrIsNewline(ls)
      BY <1>2, <1>6, <2>1, <2>2 DEF Plain
    <3> QED BY <1>1, <3>1 DEF StringBody
  <2> HIDE DEF y
  <2>6. y.cur = EOZ
    <3>1. Place(y) = Len(y.text) + 1 /\ Fits(y)
      BY <1>2, <1>3, <1>7, <2>3 DEF Taken, Carried, p, x
    <3> QED BY <3>1, AtPlace
  <2>7. DOMAIN y = LexFields /\ y.toks = <<>> /\ y.text = ls.text /\ y.written = ls.written /\ y.any = ls.any
    BY <1>2, <2>3 DEF Taken, Carried, Fits, Streams
  <2>8. /\ z.pc = "llex" /\ z.cur = EOZ /\ z.toks = <<<<"string", t, y.line>>>> /\ z.text = ls.text /\ z.written = ls.written
        /\ z.any = ls.any
    BY <2>4, <2>6, <2>7 DEF Token, LexFields
  <2> HIDE DEF z
  <2>9. Closed(ls', t)
    BY <2>5, <2>8 DEF Closed
  <2> QED BY <2>5, <2>8, <2>9
<1>8. CASE k # Len(t)
  <2> DEFINE w == Quoted(c)
  <2>1. k \in 0 .. Len(t) - 1 /\ k + 1 \in 1 .. Len(t) /\ k + 1 \in 0 .. Len(t) /\ k \in Nat
    BY <1>2, <1>4, <1>8
  <2>2. /\ Off(t, k + 1) = Off(t, k) + Len(w) /\ \A i \in 1 .. Len(w) : x[1 + Off(t, k) + i] = w[i]
    BY <1>3, <2>1 DEF c
  <2>3. /\ c \in {Quote, Slash, LF} => w = <<Slash, c>>
        /\ c = CR => w = <<Slash, "r">>
        /\ c = Nul => w = <<Slash, "0", "0", "0">>
        /\ c \notin {Quote, Slash, LF, CR, Nul} => w = <<c>>
    <3>1. {Slash, "r", "0"} \subseteq Chars(t)
      BY DEF Chars
    <3> QED BY <1>4, <2>1, <3>1, QuotedFacts DEF c
  <2> HIDE DEF w
  <2>4. Off(t, k + 1) \in Nat /\ 2 + Off(t, k + 1) \in 1 .. Len(x) /\ x[2 + Off(t, k + 1)] \notin Breaks
    BY <1>3, <2>1
  <2>5. c # EOZ
    BY <1>4, <2>1 DEF c
  <2>6. 1 \in 1 .. Len(w) => ls.cur = w[1]
    <3>1. 1 + Off(t, k) + 1 = p
      BY <1>2, <1>5
    <3> QED BY <1>5, <2>2, <3>1
  <2>7. ASSUME NEW y, Taken(ls, y, Append(b, c)), Len(w) = 1
        PROVE  InString(y, t, k + 1) /\ y.text = ls.text /\ y.written = ls.written /\ y.any = ls.any
    <3>1. Place(y) = 2 + Off(t, k + 1)
      BY <1>2, <1>5, <2>2, <2>7 DEF Taken, p
    <3>2. Held(y.buff, t, k + 1)
      BY <1>2, <2>1, <2>7, HeldMore DEF Taken, c
    <3> QED BY <1>2, <2>1, <2>7, <3>1, <3>2 DEF InString, Taken, Carried
  <2>8. CASE c \notin {Quote, Slash, LF, CR, Nul}
    <3>1. Len(w) = 1 /\ ls.cur = c
      BY <2>3, <2>6, <2>8
    <3>2. Plain(ls) /\ ~CurrIsNewline(ls)
      BY <1>5, <2>8, <3>1 DEF Plain, CurrIsNewline, Breaks
    <3>3. ls' = SaveAndNext(ls)
      <4>1. ls.cur # ls.del /\ ls.cur # Slash
        BY <1>2, <2>8, <3>1
      <4> QED BY <1>1, <1>5, <3>2, <4>1 DEF StringBody
    <3>4. Taken(ls, ls', Append(b, c))
      BY <3>1, <3>2, <3>3, TakenFacts DEF b
    <3> QED BY <2>7, <3>1, <3>4
  <2>9. CASE c \in {Quote, Slash, LF, CR, Nul}
    <3>0. Len(w) \in Nat /\ Len(w) > 1 /\ ls.cur = Slash
      BY <2>3, <2>6, <2>9
    <3>1. Taken(ls, n, b)
      BY <1>6, <3>0, PlainFacts, TakenFacts DEF n, b
    <3>2. ls' = Escape(n)
      <4>1. ls.cur # ls.del /\ ls.cur # EOZ /\ ~CurrIsNewline(ls)
        BY <1>2, <1>5, <1>6, <3>0, PlainFacts DEF Plain
      <4> QED BY <1>1, <3>0, <4>1 DEF StringBody, n
    <3>3. Place(n) = 3 + Off(t, k) /\ Place(n) \in 1 .. Len(x) /\ Fits(n) /\ n.text = x /\ n.buff = b
      <4>1. Place(n) = 3 + Off(t, k)
        BY <1>2, <1>5, <3>1 DEF Taken, p
      <4>2. 3 + Off(t, k) \in 1 .. Len(x)
        BY <1>3, <1>5, <2>2, <2>4, <3>0
      <4> QED BY <3>1, <4>1, <4>2 DEF Taken, Carried, x
    <3>4. n.cur = w[2] /\ n.cur # EOZ
      <4>1. 2 \in 1 .. Len(w) /\ 1 + Off(t, k) + 2 = 3 + Off(t, k)
        BY <1>5, <3>0
      <4> QED BY <2>2, <3>3, <4>1, AtPlace
    <3>5. ASSUME NEW y, Taken(n, y, Append(b, c)), Len(w) = 2
          PROVE  InString(y, t, k + 1) /\ y.text = ls.text /\ y.written = ls.written /\ y.any = ls.any
      <4>1. Place(y) = 2 + Off(t, k + 1)
        BY <1>5, <2>2, <3>3, <3>5 DEF Taken
      <4>2. Held(y.buff, t, k + 1)
        BY <1>2, <2>1, <3>5, HeldMore DEF Taken, c
      <4> QED BY <1>2, <2>1, <3>1, <3>5, <4>1, <4>2 DEF InString, Taken, Carried
    <3>6. CASE c \in {Quote, Slash}
      <4>1. Len(w) = 2 /\ n.cur = c
        BY <2>3, <3>4, <3>6
      <4>2. Plain(n) /\ n.cur \notin {"a", "n", "r"} /\ n.cur \notin Digits
        <5>1. Quote \notin {"a", "n", "r"} /\ Slash \notin {"a", "n", "r"} /\ Quote \notin Digits /\ Slash \notin Digits
          BY DEF Quote, Slash, Digits
        <5> QED BY <1>6, <3>6, <4>1, <5>1, PlainFacts
      <4>3. ls' = SaveAndNext(n)
        BY <3>2, <4>2 DEF Escape, Plain
      <4>4. Taken(n, ls', Append(b, c))
        BY <3>3, <4>1, <4>2, <4>3, TakenFacts
      <4> QED BY <3>5, <4>1, <4>4
    <3>7. CASE c = CR
      <4>1. Len(w) = 2 /\ n.cur = "r"
        BY <2>3, <3>4, <3>7
      <4>2. Plain(n) /\ n.cur \notin Digits
        BY <4>1, PlainFacts DEF Plainly, Letters, Digits
      <4>3. ls' = NextChar(Save(n, CR))
        BY <3>2, <4>1, <4>2 DEF Escape, Plain
      <4>4. Taken(n, ls', Append(b, c))
        BY <3>3, <3>7, <4>2, <4>3, TakenFacts
      <4> QED BY <3>5, <4>1, <4>4
    <3>8. CASE c = LF
      <4>1. Len(w) = 2 /\ n.cur = LF
        BY <2>3, <3>4, <3>8
      <4>2. n.cur \in Breaks /\ CurrIsNewline(n)
        BY <4>1 DEF Breaks, CurrIsNewline
      <4>3. n.cur \notin {"a", "n", "r"} /\ n.cur \notin Digits
        BY <4>1 DEF Digits, LF
      <4>4. ls' = IncLine(Save(n, LF))
        BY <3>2, <3>4, <4>2, <4>3 DEF Escape
      <4>5. Place(n) + 1 = 2 + Off(t, k + 1)
        BY <1>5, <2>2, <3>3, <4>1
      <4>6. Taken(n, ls', Append(b, c))
        BY <2>4, <3>3, <3>8, <4>2, <4>4, <4>5, BreakTaken
      <4> QED BY <3>5, <4>1, <4>6
    <3>9. CASE c = Nul
      <4> DEFINE z == [n EXCEPT !.pc = "decimal", !.i = 0, !.code = 0]
      <4>1. n.cur = "0"
        BY <2>3, <3>4, <3>9
      <4>2. n.cur \in Digits /\ n.cur \notin {"a", "n", "r"} /\ ~CurrIsNewline(n)
        BY <4>1 DEF Digits, CurrIsNewline, Breaks, LF, CR
      <4>3. ls' = z
        BY <3>2, <3>4, <4>2 DEF Escape
      <4>4. DOMAIN n = LexFields
        BY <3>3 DEF Fits, Streams
      <4>5. /\ z.pc = "decimal" /\ z.i = 0 /\ z.code = 0 /\ z.toks = n.toks /\ z.del = n.del /\ z.buff = n.buff
            /\ z.text = n.text /\ z.written = n.written /\ z.any = n.any /\ z.cur = n.cur /\ z.at = n.at
        BY <4>4 DEF LexFields
      <4> HIDE DEF z
      <4>6. Place(z) = 3 + Off(t, k) + z.i
        BY <1>5, <3>3, <4>5 DEF Place
      <4>7. z.toks = <<>> /\ z.del = Quote /\ z.text = ls.text /\ z.written = ls.written /\ z.any = ls.any
        BY <1>2, <3>1, <4>5 DEF Taken, Carried
      <4>8. InDecimal(z, t, k)
        BY <1>2, <2>1, <3>3, <3>9, <4>5, <4>6, <4>7 DEF InDecimal, c
      <4> QED BY <4>3, <4>7, <4>8
    <3> QED BY <2>9, <3>6, <3>7, <3>8, <3>9
  <2> QED BY <2>8, <2>9
<1> QED BY <1>7, <1>8

(* A digit of a NUL, or the NUL that the three stand for.                      *)
LEMMA InDecimalStep ==
  ASSUME Fits(ls), NEW t, IsText(t), ls.text = AddQuoted(t), NEW k, InDecimal(ls, t, k), LexNext
  PROVE  /\ InDecimal(ls', t, k) \/ InString(ls', t, k + 1)
         /\ ls'.text = ls.text /\ ls'.written = ls.written /\ ls'.any = ls.any
<1> DEFINE n == NextChar(ls)
           p == Place(ls)
           x == ls.text
           b == ls.buff
<1>1. Decimal
  BY DEF LexNext, InDecimal, Points, Alnums, Name, SkipSep, LongBody, Llex, StringBody, ToLineEnd
<1>2. /\ ls.pc = "decimal" /\ ls.toks = <<>> /\ ls.del = Quote /\ k \in 0 .. Len(t) - 1 /\ t[k + 1] = Nul /\ Held(b, t, k)
      /\ ls.i \in 0 .. 3 /\ ls.code = 0 /\ p = 3 + Off(t, k) + ls.i
  BY DEF InDecimal
<1>3. /\ Len(x) \in Nat
      /\ \A j \in 0 .. Len(t) : Off(t, j) \in Nat /\ 2 + Off(t, j) \in 1 .. Len(x)
      /\ \A j \in 0 .. Len(t) - 1 :
           /\ Off(t, j + 1) = Off(t, j) + Len(Quoted(t[j + 1]))
           /\ \A i \in 1 .. Len(Quoted(t[j + 1])) : x[1 + Off(t, j) + i] = Quoted(t[j + 1])[i]
  BY QuotedAt
<1>4. Len(t) \in Nat /\ \A j \in 1 .. Len(t) : t[j] # EOZ /\ t[j] \in Chars(t)
  BY TextFacts DEF Chars
<1>5. k \in 0 .. Len(t) /\ k + 1 \in 0 .. Len(t) /\ k + 1 \in 1 .. Len(t)
  BY <1>2, <1>4
<1>6. Quoted(t[k + 1]) = <<Slash, "0", "0", "0">>
  <2>1. {Slash, "r", "0"} \subseteq Chars(t)
    BY DEF Chars
  <2> QED BY <1>2, <1>4, <1>5, <2>1, QuotedFacts
<1>7. /\ Off(t, k) \in Nat /\ Off(t, k + 1) = Off(t, k) + 4 /\ 2 + Off(t, k + 1) \in 1 .. Len(x)
      /\ \A i \in 2 .. 4 : x[1 + Off(t, k) + i] = "0"
  <2> DEFINE w == Quoted(t[k + 1])
  <2>1. Len(w) = 4 /\ w[2] = "0" /\ w[3] = "0" /\ w[4] = "0"
    BY <1>6
  <2>2. Off(t, k + 1) = Off(t, k) + Len(w) /\ \A i \in 1 .. Len(w) : x[1 + Off(t, k) + i] = w[i]
    BY <1>2, <1>3
  <2> HIDE DEF w
  <2>3. \A i \in 2 .. 4 : i \in 1 .. 4 /\ w[i] = "0"
    BY <2>1
  <2> QED BY <1>3, <1>5, <2>1, <2>2, <2>3
<1>8. DOMAIN ls = LexFields
  BY DEF Fits, Streams
<1> HIDE DEF n, p, x, b
<1>9. CASE ls.i # 3
  <2> DEFINE z == [n EXCEPT !.i = @ + 1, !.code = 10 * @ + DigitOf(ls.cur)]
  <2>1. ls.i \in 0 .. 2 /\ ls.i + 2 \in 2 .. 4 /\ p = 1 + Off(t, k) + (ls.i + 2) /\ p \in 1 .. Len(x)
    <3>1. ls.i \in 0 .. 2 /\ p = 3 + Off(t, k) + ls.i
      BY <1>2, <1>9
    <3>2. Off(t, k) \in Nat /\ 6 + Off(t, k) <= Len(x) /\ Len(x) \in Nat
      BY <1>3, <1>7
    <3> QED BY <3>1, <3>2
  <2>2. ls.cur = "0"
    BY <1>7, <2>1, AtPlace DEF x, p
  <2>3. ls.cur \in Digits /\ ls.cur \in Plainly /\ DigitOf(ls.cur) = 0
    BY <2>2 DEF Digits, Plainly, DigitOf
  <2>4. ls' = z
    BY <1>1, <2>1, <2>3 DEF Decimal, n
  <2>5. Taken(ls, n, b)
    BY <2>3, PlainFacts, TakenFacts DEF n, b
  <2>6. /\ DOMAIN n = LexFields /\ n.i = ls.i /\ n.code = 0 /\ n.pc = "decimal" /\ n.toks = <<>> /\ n.del = Quote /\ n.buff = b
        /\ n.text = ls.text /\ n.written = ls.written /\ n.any = ls.any /\ Place(n) = p + 1
    BY <1>2, <2>5 DEF Taken, Carried, Fits, Streams, p
  <2>7. /\ z.i = ls.i + 1 /\ z.code = 0 /\ z.pc = "decimal" /\ z.toks = <<>> /\ z.del = Quote /\ z.buff = b
        /\ z.text = ls.text /\ z.written = ls.written /\ z.any = ls.any /\ z.cur = n.cur /\ z.at = n.at
    BY <2>3, <2>6 DEF LexFields
  <2> HIDE DEF z
  <2>8. Place(z) = 3 + Off(t, k) + z.i
    <3>1. Place(z) = Place(n)
      BY <2>6, <2>7 DEF Place
    <3>2. p = 3 + Off(t, k) + ls.i /\ Off(t, k) \in Nat /\ ls.i \in 0 .. 2
      BY <1>2, <1>7, <2>1
    <3>3. Place(z) = p + 1 /\ z.i = ls.i + 1
      BY <2>6, <2>7, <3>1
    <3> QED BY <3>2, <3>3
  <2>9. InDecimal(z, t, k)
    BY <1>2, <2>1, <2>7, <2>8 DEF InDecimal
  <2> QED BY <2>4, <2>7, <2>9
<1>10. CASE ls.i = 3
  <2> DEFINE y == Save(ls, Nul)
             z == Goto("string", y)
  <2>1. CharOf(ls.code) = Nul
    BY <1>2 DEF CharOf
  <2>2. ls' = z
    <3>1. Nul # "none" /\ ~(ls.i < 3 /\ ls.cur \in Digits)
      BY <1>10 DEF Nul
    <3> QED BY <1>1, <2>1, <3>1 DEF Decimal
  <2>3. /\ z.pc = "string" /\ z.toks = <<>> /\ z.del = Quote /\ z.buff = Append(b, Nul) /\ z.text = ls.text
        /\ z.written = ls.written /\ z.any = ls.any /\ z.cur = ls.cur /\ z.at = ls.at
    BY <1>2, <1>8 DEF Goto, Save, LexFields, b
  <2> HIDE DEF z
  <2>4. Place(z) = 2 + Off(t, k + 1)
    <3>1. Place(z) = p
      BY <2>3 DEF Place, p
    <3> QED BY <1>2, <1>7, <1>10, <3>1
  <2>5. Held(z.buff, t, k + 1)
    BY <1>2, <2>3, HeldMore
  <2>6. InString(z, t, k + 1)
    BY <1>5, <2>3, <2>4, <2>5 DEF InString
  <2> QED BY <2>2, <2>3, <2>6
<1> QED BY <1>9, <1>10

(* Whatever pieces a text comes in, the lexer never asks the stream for more   *)
(* than its end and is on the line it has read to (luaX_next, inclinenumber,   *)
(* luaZ_fill); and it reads a string that string.format("%q") wrote as that    *)
(* string, and nothing else (read_string, addquoted).                          *)
THEOREM ReadsBackAlways ==
  ASSUME NEW Char, EOZ \notin Char, NEW TextStrings \in SUBSET Seq(Char), NEW Texts \in SUBSET Seq(Char),
         NEW Sizes \in SUBSET (Nat \ {0})
  PROVE  LexInit(TextStrings, {}, Texts, Sizes) /\ [][LexNext]_ls => []ReadsBack
<1> DEFINE I == LexInv(ls)
<1>1. ASSUME LexInit(TextStrings, {}, Texts, Sizes) PROVE I
  <2>1. PICK size \in Sizes :
          \/ \E t \in TextStrings : ls = SetInput(AddQuoted(t), size, <<<<"string", t>>>>, FALSE)
          \/ \E t \in Texts : ls = SetInput(t, size, <<>>, TRUE)
    BY <1>1 DEF LexInit
  <2>2. size \in Nat \ {0}
    BY <2>1
  <2>3. CASE \E t \in TextStrings : ls = SetInput(AddQuoted(t), size, <<<<"string", t>>>>, FALSE)
    <3>1. PICK t \in TextStrings : ls = SetInput(AddQuoted(t), size, <<<<"string", t>>>>, FALSE)
      BY <2>3
    <3>2. IsText(t)
      BY TextType
    <3>3. IsText(AddQuoted(t))
      BY <3>2, QuotedAt
    <3>4. /\ Fits(ls) /\ ls.written = <<<<"string", t>>>> /\ ls.toks = <<>> /\ ls.pc = "llex" /\ ls.text = AddQuoted(t)
          /\ Place(ls) = 1
      <4>1. IsSet(ls, AddQuoted(t), <<<<"string", t>>>>, FALSE)
        BY <2>2, <3>1, <3>3, SetInputFits
      <4> QED BY <4>1 DEF IsSet
    <3>5. Reading(ls, t)
      BY <3>2, <3>4 DEF Reading, Opening
    <3> QED BY <3>4, <3>5 DEF LexInv
  <2>4. CASE \E t \in Texts : ls = SetInput(t, size, <<>>, TRUE)
    <3>1. PICK t \in Texts : ls = SetInput(t, size, <<>>, TRUE)
      BY <2>4
    <3>2. IsText(t)
      BY TextType
    <3>3. Fits(ls) /\ ls.any = TRUE
      <4>1. IsSet(ls, t, <<>>, TRUE)
        BY <2>2, <3>1, <3>2, SetInputFits
      <4> QED BY <4>1 DEF IsSet
    <3> QED BY <3>3 DEF LexInv
  <2> QED BY <2>1, <2>3, <2>4
<1>2. ASSUME I, [LexNext]_ls PROVE I'
  <2>1. CASE LexNext
    <3>1. Fits(ls) /\ Fits(ls') /\ ls'.any = ls.any
      BY <1>2, <2>1, StepGoes DEF LexInv, Goes
    <3>2. ASSUME ~ls.any PROVE \E t : Reading(ls', t)
      <4>1. PICK t : Reading(ls, t)
        BY <1>2, <3>2 DEF LexInv
      <4>2. IsText(t) /\ ls.text = AddQuoted(t) /\ ls.written = <<<<"string", t>>>>
        BY <4>1 DEF Reading
      <4>3. CASE Opening(ls)
        <5>1. InString(ls', t, 0) /\ ls'.text = ls.text /\ ls'.written = ls.written
          BY <2>1, <3>1, <4>2, <4>3, OpeningStep
        <5>2. Reading(ls', t)
          BY <4>2, <5>1 DEF Reading
        <5> QED BY <5>2
      <4>4. CASE \E k : InString(ls, t, k)
        <5>1. PICK k : InString(ls, t, k)
          BY <4>4
        <5>2. /\ InString(ls', t, k + 1) \/ InDecimal(ls', t, k) \/ Closed(ls', t)
              /\ ls'.text = ls.text /\ ls'.written = ls.written
          BY <2>1, <3>1, <4>2, <5>1, InStringStep
        <5>3. Reading(ls', t)
          BY <4>2, <5>2 DEF Reading
        <5> QED BY <5>3
      <4>5. CASE \E k : InDecimal(ls, t, k)
        <5>1. PICK k : InDecimal(ls, t, k)
          BY <4>5
        <5>2. (InDecimal(ls', t, k) \/ InString(ls', t, k + 1)) /\ ls'.text = ls.text /\ ls'.written = ls.written
          BY <2>1, <3>1, <4>2, <5>1, InDecimalStep
        <5>3. Reading(ls', t)
          BY <4>2, <5>2 DEF Reading
        <5> QED BY <5>3
      <4>6. CASE Closed(ls, t)
        <5>1. Closed(ls', t) /\ ls'.text = ls.text /\ ls'.written = ls.written
          BY <2>1, <3>1, <4>6, ClosedStep
        <5>2. Reading(ls', t)
          BY <4>2, <5>1 DEF Reading
        <5> QED BY <5>2
      <4> QED BY <4>1, <4>3, <4>4, <4>5, <4>6 DEF Reading
    <3> QED BY <3>1, <3>2 DEF LexInv
  <2>2. CASE UNCHANGED ls
    BY <1>2, <2>2
  <2> QED BY <1>2, <2>1, <2>2
<1>3. ASSUME I PROVE ReadsBack
  <2>1. ~ls.past /\ ls.line = 1 + Cardinality({k \in BreaksOf(ls.text) : k < Place(ls)})
    BY <1>3 DEF LexInv, Fits, Streams, Lined, Before
  <2>2. ASSUME ~ls.any
        PROVE  /\ ls.pc # "error"
               /\ \A k \in DOMAIN ls.toks : k <= Len(ls.written) /\ SubSeq(ls.toks[k], 1, 2) = ls.written[k]
               /\ ls.pc = "eos" => Len(ls.toks) = Len(ls.written)
    <3>1. PICK t : Reading(ls, t)
      BY <1>3, <2>2 DEF LexInv
    <3>2. ls.written = <<<<"string", t>>>> /\ Len(ls.written) = 1 /\ ls.written[1] = <<"string", t>>
      BY <3>1 DEF Reading
    <3>3. CASE Opening(ls) \/ \E k : InString(ls, t, k) \/ InDecimal(ls, t, k)
      <4>1. ls.toks = <<>> /\ ls.pc \in {"llex", "string", "decimal"}
        BY <3>3 DEF Opening, InString, InDecimal
      <4> QED BY <4>1
    <3>4. CASE Closed(ls, t)
      <4>1. PICK n : ls.toks = <<<<"string", t, n>>>>
        BY <3>4 DEF Closed
      <4>2. DOMAIN ls.toks = {1} /\ Len(ls.toks) = 1 /\ ls.toks[1] = <<"string", t, n>> /\ ls.pc # "error"
        BY <3>4, <4>1 DEF Closed
      <4>3. SubSeq(<<"string", t, n>>, 1, 2) = <<"string", t>>
        <5> DEFINE e == <<"string", t, n>>
                   f == SubSeq(e, 1, 2)
                   S == {"string", t, n}
        <5>1. e \in Seq(S) /\ Len(e) = 3 /\ e[1] = "string" /\ e[2] = t
          OBVIOUS
        <5> HIDE DEF e, S
        <5>2. f \in Seq(S) /\ Len(f) = 2 /\ f[1] = e[1] /\ f[2] = e[2]
          BY <5>1
        <5> HIDE DEF f
        <5>3. f = <<f[1], f[2]>>
          BY <5>2
        <5> QED BY <5>1, <5>2, <5>3 DEF f, e
      <4> QED BY <3>2, <4>2, <4>3
    <3> QED BY <3>1, <3>3, <3>4 DEF Reading
  <2> QED BY <2>1, <2>2 DEF ReadsBack
<1> HIDE DEF I
<1> QED BY <1>1, <1>2, <1>3, PTL

=============================================================================
