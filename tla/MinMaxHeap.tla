----------------------------- MODULE MinMaxHeap -----------------------------
(***************************************************************************)
(* axiom/util_minmax_heap.c: a bounded double-ended priority queue in an   *)
(* array.  A heap is [e, bound]: e the elements 1 .. used, bound 0 for no  *)
(* bound.  key gives every element the number its comparator looks at.     *)
(*                                                                         *)
(* The machine at the end makes any sequence of calls; PriorityBag says    *)
(* what they promise, and the array is shown to implement it.              *)
(***************************************************************************)
EXTENDS AgentBase, Bags

\* nr_minmax_heap_create; a bound of one makes no heap.
nr_minmax_heap_create(bound) == IF bound = 1 THEN NULL ELSE [e |-> <<>>, bound |-> bound]

\* Levels alternate: the root is on a min level, its children on a max level.
is_min(n) == \E k \in 0 .. 4 : 4 ^ k <= n /\ n < 2 * 4 ^ k

swap(e, i, j) == [e EXCEPT ![i] = e[j], ![j] = e[i]]

\* op is "lt" or "gt".
compare_expect(e, key, i, j, op) ==
  IF op = "lt" THEN key[e[i]] < key[e[j]] ELSE key[e[i]] > key[e[j]]

RECURSIVE bubbleup_minmax(_, _, _, _)
bubbleup_minmax(e, key, i, op) ==
  LET grandparent == i \div 4
  IN IF grandparent = 0 \/ ~compare_expect(e, key, i, grandparent, op) THEN e
     ELSE bubbleup_minmax(swap(e, i, grandparent), key, grandparent, op)

bubbleup(e, key, i) ==
  LET p     == i \div 2
      own   == IF is_min(i) THEN "lt" ELSE "gt"
      other == IF is_min(i) THEN "gt" ELSE "lt"
  IN IF p = 0 THEN e
     ELSE IF compare_expect(e, key, i, p, other) THEN bubbleup_minmax(swap(e, i, p), key, p, other)
     ELSE bubbleup_minmax(e, key, i, own)

\* The first of the children and grandchildren that no earlier one is beaten by.
index_minmax_child_grandchild(e, key, i, op) ==
  LET C == {2 * i, 2 * i + 1} \union (4 * i .. 4 * i + 3)
      L == {c \in C : c <= Len(e)}
  IN IF L = {} THEN 0
     ELSE CHOOSE c \in L : \A d \in L : /\ ~compare_expect(e, key, d, c, op)
                                        /\ d < c => compare_expect(e, key, c, d, op)

RECURSIVE trickledown_minmax(_, _, _, _)
trickledown_minmax(e, key, i, op) ==
  LET m == index_minmax_child_grandchild(e, key, i, op)
      s == swap(e, i, m)
      t == IF compare_expect(s, key, m, m \div 2, op) THEN s ELSE swap(s, m, m \div 2)
  IN IF m = 0 \/ ~compare_expect(e, key, m, i, op) THEN e
     ELSE IF m <= 2 * i + 1 THEN s
     ELSE trickledown_minmax(t, key, m, op)

trickledown(e, key, i) == trickledown_minmax(e, key, i, IF is_min(i) THEN "lt" ELSE "gt")

\* Element i goes, the last one takes its place.
Take(e, key, i) ==
  LET last == e[Len(e)]
      rest == Front(e)
  IN IF i = Len(e) THEN rest ELSE trickledown([rest EXCEPT ![i] = last], key, i)

nr_minmax_heap_peek_min(h) == IF h.e = <<>> THEN NULL ELSE h.e[1]

MaxIndex(e, key) ==
  IF Len(e) <= 2 THEN Len(e) ELSE IF key[e[2]] < key[e[3]] THEN 3 ELSE 2

\* [h, v]
nr_minmax_heap_pop_min(h, key) ==
  IF h.e = <<>> THEN [h |-> h, v |-> NULL]
  ELSE [h |-> [h EXCEPT !.e = Take(@, key, 1)], v |-> h.e[1]]

nr_minmax_heap_pop_max(h, key) ==
  IF h.e = <<>> THEN [h |-> h, v |-> NULL]
  ELSE LET i == MaxIndex(h.e, key)
       IN [h |-> [h EXCEPT !.e = Take(@, key, i)], v |-> h.e[i]]

\* Two equal elements: peek and pop take different ones.
nr_minmax_heap_peek_max(h, key) ==
  IF h.e = <<>> THEN NULL
  ELSE IF Len(h.e) > 2 THEN IF key[h.e[2]] > key[h.e[3]] THEN h.e[2] ELSE h.e[3]
  ELSE Last(h.e)

\* Mutant: a full heap gives up its largest element.
InsertDropsMax(h, key, v) ==
  IF h.bound # 0 /\ Len(h.e) >= h.bound
  THEN LET p == nr_minmax_heap_pop_max(h, key)
           e == Append(p.h.e, v)
       IN [h |-> [h EXCEPT !.e = bubbleup(e, key, Len(e))], dropped |-> p.v]
  ELSE LET e == Append(h.e, v)
       IN [h |-> [h EXCEPT !.e = bubbleup(e, key, Len(e))], dropped |-> NULL]

\* [h, dropped]: a full heap refuses what is smaller than its smallest, and
\* gives up its smallest for anything else.
nr_minmax_heap_insert(h, key, v) ==
  LET full   == h.bound # 0 /\ Len(h.e) >= h.bound
      min    == nr_minmax_heap_peek_min(h)
      Put(g) == [g EXCEPT !.e = bubbleup(Append(@, v), key, Len(@) + 1)]
  IN IF ~full THEN [h |-> Put(h), dropped |-> NULL]
     ELSE IF key[min] > key[v] THEN [h |-> h, dropped |-> v]
     ELSE [h |-> Put(nr_minmax_heap_pop_min(h, key).h), dropped |-> min]

\* The elements, in the order of the array.
nr_minmax_heap_iterate(h) == h.e

---------------------------------------------------------------------------
(* The machine: any sequence of insertions and removals.                    *)

CONSTANTS
  HeapKeys,      \* the elements, numbers that are their own keys
  HeapBounds,    \* the bounds to try; 0 for none, and not 1, which makes no heap
  HeapMaxSize    \* cap on the size of a heap without bound

VARIABLES heap, heapOut   \* the heap, and what the last call took out

heapVars == <<heap, heapOut>>

HeapKey == [k \in HeapKeys |-> k]

HeapInit ==
  /\ heap \in {nr_minmax_heap_create(b) : b \in HeapBounds}
  /\ heapOut = NULL

HeapInsert ==
  \E v \in HeapKeys :
    LET r == nr_minmax_heap_insert(heap, HeapKey, v)
    IN /\ heap.bound = 0 => Len(heap.e) < HeapMaxSize
       /\ heap' = r.h
       /\ heapOut' = r.dropped

HeapPop ==
  \E r \in {nr_minmax_heap_pop_min(heap, HeapKey), nr_minmax_heap_pop_max(heap, HeapKey)} :
    /\ heap.e # <<>>
    /\ heap' = r.h
    /\ heapOut' = r.v

HeapNext == HeapInsert \/ HeapPop

---------------------------------------------------------------------------

\* The type invariant.
HeapTypeOK ==
  /\ heap.e \in Seq(HeapKeys)
  /\ heap.bound \in HeapBounds
  /\ heap.bound # 0 => Len(heap.e) <= heap.bound
  /\ heapOut \in HeapKeys \union {NULL}

\* Between two calls no element lies above one that belongs over it: an
\* element on a min level is not larger than any below it, one on a max level
\* not smaller.  bubbleup and trickledown (axiom/util_minmax_heap.c) move an
\* element by two levels at a time and must repair the level in between.
LevelsOrdered ==
  \A i, j \in DOMAIN heap.e :
    j \in {2 * i, 2 * i + 1} \union (4 * i .. 4 * i + 3) =>
      IF is_min(i) THEN heap.e[i] <= heap.e[j] ELSE heap.e[i] >= heap.e[j]

BagOf(e) == [k \in Range(e) |-> Cardinality({i \in DOMAIN e : e[i] = k})]

PQ == INSTANCE PriorityBag WITH
        PKeys <- HeapKeys, PNone <- NULL, pbag <- BagOf(heap.e), pbound <- heap.bound, pout <- heapOut

\* The array of axiom/util_minmax_heap.c behaves as a bounded priority bag:
\* nothing is lost or doubled by the swaps, what a removal returns is a smallest
\* or a largest element, and a full heap keeps the larger ones.
HeapIsPriorityBag == PQ!PSpec
=============================================================================
