------------------------------- MODULE LuaSort -------------------------------
(* table.sort (auxsort of lua/src/ltablib.c): the array a, of which a[0] and *)
(* a[n + 1] are nil, the segment l..u that is sorted now, and in calls the    *)
(* segments that the callers of auxsort go on with, each with the size of the *)
(* segment it is a part of.  Each item is a key with its first place.  The    *)
(* comparison is by the keys, or the program's own, which may answer anything.*)
EXTENDS Integers, Sequences

CONSTANTS Keys, MaxLen, MaxOdd   \* longest arrays, with an order and without
ASSUME SortAssumption == Keys \subseteq Int /\ MaxLen \in Nat /\ MaxOdd \in Nat

VARIABLE q

Absent == <<>>

\* sort: the order function is checked, nothing else.
SortInit ==
  \E n \in 0 .. MaxLen, ordered \in BOOLEAN :
    /\ ordered \/ n <= MaxOdd
    /\ \E keys \in [1 .. n -> IF ordered THEN Keys ELSE {0}] :
         q = [a |-> [i \in 0 .. n + 1 |-> IF i \in 1 .. n THEN <<keys[i], i>> ELSE Absent],
              n |-> n, l |-> 1, u |-> n, i |-> 0, j |-> 0, calls |-> <<>>, pc |-> "sort", ordered |-> ordered]

\* sort_comp of two items; the keys say, or the program.
Answers(x, y) == IF ~q.ordered THEN BOOLEAN ELSE {x[1] < y[1]}

Swap(x, i, j) == [x EXCEPT !.a[i] = x.a[j], !.a[j] = x.a[i]]
At(x, pc) == [x EXCEPT !.pc = pc]

\* The end of auxsort: the caller goes on with the segment it left.
EndCall(x) ==
  IF x.calls = <<>> THEN At(x, "done")
  ELSE [x EXCEPT !.l = x.calls[1].l, !.u = x.calls[1].u, !.calls = Tail(@), !.pc = "sort"]

\* a[l], a[u]
Outer ==
  /\ q.pc = "sort"
  /\ IF q.l >= q.u THEN q' = EndCall(q)
     ELSE \E less \in Answers(q.a[q.u], q.a[q.l]) :
            LET x == IF less THEN Swap(q, q.l, q.u) ELSE q
            IN  q' = IF q.u - q.l = 1 THEN EndCall(x) ELSE At(x, "middle")

\* a[(l + u) / 2], which becomes the pivot in a[u - 1]
MutPivot(x, mid) ==   \* the search from above starts on the pivot
  IF x.u - x.l = 2 THEN EndCall(x)
  ELSE [Swap(x, mid, x.u - 1) EXCEPT !.i = x.l, !.j = x.u, !.pc = "up"]
Pivot(x, mid) ==
  IF x.u - x.l = 2 THEN EndCall(x)
  ELSE [Swap(x, mid, x.u - 1) EXCEPT !.i = x.l, !.j = x.u - 1, !.pc = "up"]
Middle ==
  /\ q.pc = "middle"
  /\ LET mid == (q.l + q.u) \div 2
     IN  \E low \in Answers(q.a[mid], q.a[q.l]) :
           IF low THEN q' = Pivot(Swap(q, mid, q.l), mid)
           ELSE \E high \in Answers(q.a[q.u], q.a[mid]) :
                  q' = Pivot(IF high THEN Swap(q, mid, q.u) ELSE q, mid)

PivotItem == q.a[q.u - 1]

\* repeat ++i until a[i] >= PivotItem
SearchUp ==
  /\ q.pc = "up"
  /\ LET i == q.i + 1
     IN  \E less \in Answers(q.a[i], PivotItem) :
           q' = [q EXCEPT !.i = i, !.pc = IF ~less THEN "down" ELSE IF i > q.u THEN "error" ELSE "up"]

\* adjust so that smaller half is in [j..i] and larger one in [l..u]
Halves(x) ==
  IF x.i - x.l < x.u - x.i
  THEN [x EXCEPT !.calls = <<[l |-> x.i + 1, u |-> x.u, of |-> x.u - x.l + 1]>> \o @, !.u = x.i - 1]
  ELSE [x EXCEPT !.calls = <<[l |-> x.l, u |-> x.i - 1, of |-> x.u - x.l + 1]>> \o @, !.l = x.i + 1]

\* repeat --j until a[j] <= PivotItem; then a swap, or the end of the partition.
SearchDown ==
  /\ q.pc = "down"
  /\ LET j == q.j - 1
         x == [q EXCEPT !.j = j]
     IN  \E less \in Answers(PivotItem, q.a[j]) :
           q' = IF less THEN At(x, IF j < q.l THEN "error" ELSE "down")
                ELSE IF j < q.i THEN At(Halves(Swap(x, q.u - 1, q.i)), "sort")
                ELSE At(Swap(x, q.i, j), "up")

SortEnded == q.pc \in {"done", "error"}

SortNext == Outer \/ Middle \/ SearchUp \/ SearchDown
SortSpec == SortInit /\ [][SortNext]_q
-----------------------------------------------------------------------------
\* With a consistent order nothing is lost and no error is raised; the parts
\* around i and j are as the comment in auxsort's loop says, and at the end all
\* is in order.
Whole == \A k \in 1 .. q.n : \E i \in 1 .. q.n : q.a[i] # Absent /\ q.a[i][2] = k
Sorted ==
  q.ordered =>
    /\ Whole /\ q.pc # "error"
    /\ q.pc = "up" => /\ \A k \in q.l .. q.i : q.a[k][1] <= PivotItem[1]
                      /\ \A k \in q.j .. q.u : PivotItem[1] <= q.a[k][1]
    /\ q.pc = "done" => \A k \in 1 .. q.n - 1 : q.a[k][1] <= q.a[k + 1][1]

\* Whatever the comparison answers, auxsort reads no item but the segment's and
\* those beside it, and calls itself for less than half of a segment, so that
\* the C stack grows with the logarithm of the array.
Called(k) == IF k = 1 THEN q.u - q.l + 1 ELSE q.calls[k - 1].of
Bounded ==
  /\ q.pc \in {"up", "down"} => q.i <= q.u + 1 /\ q.j >= q.l - 1
  /\ \A k \in 1 .. Len(q.calls) : 2 * Called(k) < q.calls[k].of /\ q.calls[k].of <= q.n

\* What table.sort promises of its comparisons' answers, good or bad.
Sorts == Sorted /\ Bounded
=============================================================================
