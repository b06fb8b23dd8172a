------------------------------ MODULE Segments ------------------------------
(***************************************************************************)
(* The segments of a transaction: axiom/nr_segment.c and its parts (tree,  *)
(* children, exclusive time, traces, datastore, external, message), the    *)
(* stacks of current segments in axiom/nr_txn.c, and the stacked segments  *)
(* of agent/php_stacked_segment.c.                                         *)
(*                                                                         *)
(* Operators work on a record x of the transaction's segments.  A segment  *)
(* is a number, its address; freed memory is zeroed and used again.        *)
(* Names, metrics and attributes are there or not.  Segments that live on  *)
(* the C stack (PHP before 8) have the numbers from StackBase on.          *)
(***************************************************************************)
EXTENDS MinMaxHeap, Integers

CONSTANTS
  SegContexts,   \* asynchronous contexts
  SegMaxStarts,  \* cap on the segments that are started
  SegMaxClock,   \* cap on the clock
  SegSpanLimit,  \* options.span_events_max_samples_stored
  SegTraceLimit  \* NR_MAX_SEGMENTS

StackBase == 50
Root == 1

ZeroSegment ==
  [live |-> FALSE, parent |-> NULL, kids |-> <<>>, ix |-> 0, start |-> 0, stop |-> 0,
   ctx |-> NULL, pri |-> 0, name |-> FALSE, id |-> NULL, metrics |-> FALSE, et |-> {},
   type |-> "custom", attrs |-> FALSE, error |-> NULL]

\* axiom/util_slab.c: a released object is zeroed and is the next to be used.
nr_slab_next(x) ==
  IF x.free # <<>> THEN [x |-> [x EXCEPT !.free = Front(@)], s |-> Last(x.free)]
  ELSE [x |-> [x EXCEPT !.next = @ + 1], s |-> x.next]

nr_slab_release(x, s) == [x EXCEPT !.segs[s] = ZeroSegment, !.free = Append(@, s)]

---------------------------------------------------------------------------
(* Children: an array; every child knows its place in it.                   *)

\* axiom/nr_segment_children.h
nr_segment_children_add(x, p, c) ==
  [x EXCEPT !.segs[p].kids = Append(@, c), !.segs[c].ix = Len(x.segs[p].kids) + 1]

\* The last child takes the place of the one that goes; who goes is decided by
\* the index alone.
nr_segment_children_remove(x, p, c) ==
  LET k == x.segs[p].kids
      i == x.segs[c].ix
  IN IF k = <<>> \/ i > Len(k) THEN x
     ELSE [x EXCEPT !.segs[Last(k)].ix = i,
                    !.segs[p].kids = Front([k EXCEPT ![i] = Last(k)])]

nr_segment_children_reparent(x, from, to) ==
  LET k == x.segs[from].kids
      n == Len(x.segs[to].kids)
  IN [x EXCEPT !.segs = [s \in DOMAIN @ |->
        IF s = to THEN [@[s] EXCEPT !.kids = @ \o k]
        ELSE IF s = from THEN [@[s] EXCEPT !.kids = <<>>]
        ELSE IF s \in Range(k)
             THEN [@[s] EXCEPT !.parent = to, !.ix = n + CHOOSE i \in DOMAIN k : k[i] = s]
        ELSE @[s]]]

\* The chain of parents of s, s first.
Ancestors(x, s) ==
  LET n == Cardinality(DOMAIN x.segs)
      A[i \in 0 .. n] == IF i = 0 THEN s
                         ELSE IF A[i - 1] = NULL THEN NULL ELSE x.segs[A[i - 1]].parent
  IN {A[i] : i \in 0 .. n} \ {NULL}

nr_segment_set_parent(x, s, p) ==
  IF x.segs[s].parent = p \/ s \in Ancestors(x, p) THEN x
  ELSE LET freed == IF x.segs[s].parent = NULL THEN x
                    ELSE nr_segment_children_remove(x, x.segs[s].parent, s)
       IN [nr_segment_children_add(freed, p, s) EXCEPT !.segs[s].parent = p]

\* NR_SEGMENT_PRIORITY_*: bits, the root's the highest.
PriorityBit == [root |-> 8, dt |-> 4, log |-> 2, attr |-> 1]

\* nr_segment_set_priority_flag
SetPriorityFlag(x, s, flag) ==
  LET b == PriorityBit[flag]
  IN [x EXCEPT !.segs[s].pri = IF (@ \div b) % 2 = 1 THEN @ ELSE @ + b]

---------------------------------------------------------------------------
(* The stacks of current segments (axiom/nr_txn.c, axiom/util_stack.c).     *)

nr_txn_get_current_segment(x, ctx) ==
  LET st == x.stacks[IF ctx = NULL THEN "default" ELSE ctx]
  IN IF ctx = NULL /\ x.force # NULL THEN x.force
     ELSE IF st = <<>> THEN NULL ELSE Last(st)

nr_txn_set_current_segment(x, s) ==
  [x EXCEPT !.stacks[IF x.segs[s].ctx = NULL THEN "default" ELSE x.segs[s].ctx] = Append(@, s)]

\* nr_stack_remove_topmost
RemoveTopmost(st, s) ==
  IF s \notin Range(st) THEN st ELSE RemoveAt(st, SelectLastInSeq(st, LAMBDA e : e = s))

\* The id of a segment exists only where span events are made.
EnsureId(x, s) ==
  IF ~x.spans \/ x.segs[s].id # NULL THEN x
  ELSE [x EXCEPT !.segs[s].id = x.guids, !.guids = @ + 1]

\* nr_segment_to_span_event: [x, span]; the parent's id is made for it.
nr_segment_to_span_event(x, s) ==
  LET g == x.segs[s]
      own == EnsureId(x, s)
      both == IF g.parent = NULL THEN own ELSE EnsureId(own, g.parent)
  IN IF g.stop = 0 \/ g.start > g.stop THEN [x |-> x, span |-> NULL]
     ELSE IF own.segs[s].id = NULL THEN [x |-> x, span |-> NULL]
     ELSE [x |-> both,
           span |-> [id |-> own.segs[s].id,
                     parent |-> IF g.parent = NULL THEN NULL ELSE both.segs[g.parent].id]]

nr_txn_retire_current_segment(x, s) ==
  LET ctx == IF x.segs[s].ctx = NULL THEN "default" ELSE x.segs[s].ctx
      y   == [x EXCEPT !.stacks[ctx] = RemoveTopmost(@, s)]
      r   == nr_segment_to_span_event(y, s)
  IN IF ~x.queueing \/ ~x.segs[s].name THEN y
     ELSE IF r.span = NULL THEN y
     ELSE [r.x EXCEPT !.queue = Append(@, r.span)]

\* nr_txn_get_current_span_id: a log line or a header names the segment.
nr_txn_get_current_span_id(x) ==
  LET s == nr_txn_get_current_segment(x, NULL)
      y == EnsureId(x, s)
  IN IF y.segs[s].id # NULL THEN SetPriorityFlag(y, s, "log") ELSE y

---------------------------------------------------------------------------
(* Exclusive time (axiom/nr_exclusive_time.c).                              *)

Transitions(T) ==
  LET S == {[time |-> t[1], stop |-> 0, t |-> t] : t \in T}
           \union {[time |-> t[2], stop |-> 1, t |-> t] : t \in T}
  IN SortSeq(FoldSet(LAMBDA tr, trs : Append(trs, tr), <<>>, S),
             LAMBDA a, b : a.time < b.time \/ (a.time = b.time /\ a.stop < b.stop))

Duration(a, b) == IF a < b THEN b - a ELSE 0    \* nr_time_duration

\* T: <<number, start, stop>> of the children, of which only times count.
nr_exclusive_time_calculate(start, stop, T) ==
  LET step(a, tr) ==
        IF a.done THEN a
        ELSE IF tr.stop = 0
        THEN [a EXCEPT !.active = @ + 1,
                       !.last = IF a.active # 0 THEN @ ELSE IF tr.time > start THEN tr.time ELSE start]
        ELSE LET d == Duration(a.last, IF stop < tr.time THEN stop ELSE tr.time)
             IN IF a.active # 1 THEN [a EXCEPT !.active = @ - 1]
                ELSE [a EXCEPT !.active = 0, !.excl = IF d > @ THEN 0 ELSE @ - d,
                               !.done = d > a.excl \/ tr.time > stop]
  IN IF start > stop THEN 0
     ELSE FoldLeft(step, [active |-> 0, last |-> 0, excl |-> Duration(start, stop), done |-> FALSE],
                   Transitions(T)).excl

\* The children of s that its exclusive time leaves out: those of its own
\* context, and the discarded ones it has been told of.
ChildTimes(x, s) ==
  {t \in {<<x.segs[c].start, x.segs[c].stop, c>> :
            c \in {c \in Range(x.segs[s].kids) : x.segs[c].ctx = x.segs[s].ctx}} : t[1] <= t[2]}
  \union x.segs[s].et

---------------------------------------------------------------------------
(* Discard and end.                                                         *)

\* A segment with metrics leaves its time with its parent, except where the
\* number of segments is limited.
nr_segment_discard_merge_metrics(x, s) ==
  LET g == x.segs[s]
  IN IF g.stop < g.start \/ x.max > 1 \/ x.segs[g.parent].ctx # g.ctx THEN x
     ELSE [x EXCEPT !.segs[g.parent].et = @ \union {<<g.start, g.stop, s>>},
                    !.lost = @ \/ Duration(g.start, g.stop) > 0]

nr_segment_discard(x, s) ==
  LET p         == x.segs[s].parent
      Merge(y)  == IF x.segs[s].metrics THEN nr_segment_discard_merge_metrics(y, s) ELSE y
      Unlink(y) ==
        IF y.segs[p].kids = <<>> \/ y.segs[s].ix > Len(y.segs[p].kids) THEN y
        ELSE nr_slab_release(nr_segment_children_reparent(nr_segment_children_remove(y, p, s), s, p), s)
  IN IF p = NULL THEN x ELSE Unlink(Merge(nr_txn_retire_current_segment(x, s)))

\* nr_segment_wrapped_span_priority_comparator, as a number.
PriorityKey(x) ==
  [s \in DOMAIN x.segs |-> 100 * x.segs[s].pri + Duration(x.segs[s].start, x.segs[s].stop)]

DurationKey(x) == [s \in DOMAIN x.segs |-> Duration(x.segs[s].start, x.segs[s].stop)]

nr_segment_discard_wrapper(x, s) ==
  LET Count(y) == IF y.segs[s].live THEN y ELSE [y EXCEPT !.count = @ - 1]
  IN Count(nr_segment_discard(x, s))

nr_segment_end(x, s) ==
  LET y == [x EXCEPT !.segs[s].stop = IF @ = 0 THEN x.now ELSE @, !.count = @ + 1]
      Kept(z, r) == IF r.dropped = NULL THEN [z EXCEPT !.heap = r.h]
                    ELSE nr_segment_discard_wrapper([z EXCEPT !.heap = r.h], r.dropped)
      Insert(z)  == IF z.heap = NULL THEN z ELSE Kept(z, nr_minmax_heap_insert(z.heap, PriorityKey(z), s))
  IN Insert(nr_txn_retire_current_segment(y, s))

\* [x, s]; a segment without a given parent becomes the current one.
nr_segment_init(x, s, parent, ctx) ==
  LET own     == nr_txn_get_current_segment(x, ctx)
      current == IF own = NULL /\ ctx # NULL THEN nr_txn_get_current_segment(x, NULL) ELSE own
      p       == IF parent # NULL THEN parent ELSE current
      fresh   == [x EXCEPT !.segs = (s :> [ZeroSegment EXCEPT !.live = TRUE, !.start = x.now,
                                             !.ctx = ctx, !.parent = p]) @@ @]
      linked  == IF p = NULL THEN fresh ELSE nr_segment_children_add(fresh, p, s)
  IN IF parent # NULL THEN linked ELSE nr_txn_set_current_segment(linked, s)

nr_segment_start(x, parent, ctx) ==
  LET a == nr_slab_next(x) IN [x |-> nr_segment_init(a.x, a.s, parent, ctx), s |-> a.s]

\* nr_segment_record_exception and nr_segment_set_error
nr_segment_record_exception(x, s, secure, msg) ==
  [x EXCEPT !.segs[s].error = IF secure THEN "removed" ELSE msg]

\* nr_segment_attributes_user_add
nr_segment_attributes_user_add(x, s) == SetPriorityFlag([x EXCEPT !.segs[s].attrs = TRUE], s, "attr")

---------------------------------------------------------------------------
(* The ends of the typed segments.                                          *)

\* Every child is discarded while the loop's index runs on: the last child
\* takes the place of the one that goes, and is passed over.
DiscardChildren(x, s) ==
  FoldLeft(LAMBDA y, i : IF i > Len(y.segs[s].kids) THEN y ELSE nr_segment_discard(y, y.segs[s].kids[i]),
           x, [i \in 1 .. Cardinality(DOMAIN x.segs) |-> i])

\* Without the name of the product the segment stays as it is.
nr_segment_datastore_end(x, s, product) ==
  LET End(y) == IF ~product THEN y
                ELSE nr_segment_end([y EXCEPT !.segs[s].stop = IF @ = 0 THEN x.now ELSE @,
                                              !.segs[s].name = TRUE, !.segs[s].metrics = TRUE,
                                              !.segs[s].type = "datastore"], s)
  IN End(DiscardChildren(x, s))

nr_segment_external_end(x, s) ==
  nr_segment_end([x EXCEPT !.segs[s].stop = x.now, !.segs[s].name = TRUE,
                           !.segs[s].metrics = TRUE, !.segs[s].type = "external"], s)

Preorder(x, root) ==
  LET P[s \in DOMAIN x.segs] ==
        <<s>> \o FlattenSeq([i \in DOMAIN x.segs[s].kids |-> P[x.segs[s].kids[i]]])
  IN P[root]

\* nr_segment_destroy_tree: what the segments own is freed, they themselves are
\* not.
nr_segment_destroy_fields(g) ==
  [g EXCEPT !.id = NULL, !.metrics = FALSE, !.et = {}, !.attrs = FALSE, !.kids = <<>>]

nr_segment_destroy_tree(x, root) ==
  LET T == Range(Preorder(x, root))
  IN [x EXCEPT !.segs = [s \in DOMAIN @ |-> IF s \in T THEN nr_segment_destroy_fields(@[s]) ELSE @[s]]]

nr_segment_message_end(x, s) ==
  LET y == FoldLeft(nr_segment_destroy_tree, x, x.segs[s].kids)
  IN nr_segment_end([y EXCEPT !.segs[s].kids = <<>>, !.segs[s].stop = IF @ = 0 THEN x.now ELSE @,
                              !.segs[s].name = TRUE, !.segs[s].metrics = TRUE,
                              !.segs[s].type = "message"], s)

---------------------------------------------------------------------------
(* Calls of PHP functions.  From PHP 8 (oapi) their segments are on the     *)
(* heap; before, they are on the C stack and go to the heap if they are     *)
(* kept (agent/php_stacked_segment.c, agent/php_execute.c).                 *)

nr_php_stacked_segment_init(x) ==
  LET s == StackBase + Cardinality({i \in DOMAIN x.segs : i >= StackBase})
  IN [x EXCEPT !.segs = (s :> [ZeroSegment EXCEPT !.live = TRUE, !.start = x.now, !.parent = x.force]) @@ @,
               !.force = s]

\* The C stack frame is gone.
PopStacked(x, s) ==
  [x EXCEPT !.force = IF @ = s THEN x.segs[s].parent ELSE @,
            !.segs = [i \in (DOMAIN @) \ {s} |-> @[i]]]

nr_php_stacked_segment_deinit(x, s) ==
  PopStacked(nr_segment_children_reparent(x, s, x.segs[s].parent), s)

\* [x, s]
nr_php_stacked_segment_move_to_heap(x, s) ==
  LET a == nr_slab_next(x)
      g == x.segs[s]
      y == [a.x EXCEPT !.segs = (a.s :> [g EXCEPT !.parent = NULL]) @@
              [i \in DOMAIN @ |-> IF i \in Range(g.kids) THEN [@[i] EXCEPT !.parent = a.s] ELSE @[i]]]
  IN [x |-> PopStacked(nr_segment_set_parent(y, a.s, g.parent), s), s |-> a.s]

RECURSIVE nr_php_stacked_segment_unwind(_)
nr_php_stacked_segment_unwind(x) ==
  IF x.force = NULL \/ x.force = Root THEN x
  ELSE LET m == nr_php_stacked_segment_move_to_heap(x, x.force)
       IN nr_php_stacked_segment_unwind(nr_segment_end(m.x, m.s))

\* newrelic.special.expensive_node_min: a shorter call leaves no segment, unless
\* something refers to it.
ExpensiveMin == 1

nr_php_execute_segment_end(x, s, create_metric) ==
  LET y == [x EXCEPT !.segs[s].stop = IF @ = 0 THEN x.now ELSE @]
      g == y.segs[s]
      keep == \/ create_metric \/ Duration(g.start, g.stop) >= ExpensiveMin
              \/ g.metrics \/ g.id # NULL \/ g.attrs \/ g.error # NULL
      m == IF x.oapi THEN [x |-> y, s |-> s] ELSE nr_php_stacked_segment_move_to_heap(y, s)
  IN IF keep
     THEN nr_segment_end([m.x EXCEPT !.segs[m.s].name = TRUE, !.segs[m.s].metrics = @ \/ create_metric], m.s)
     ELSE IF x.oapi THEN nr_segment_discard(y, s) ELSE nr_php_stacked_segment_deinit(y, s)

---------------------------------------------------------------------------
(* The end of the transaction: traces and span events.                      *)

nr_txn_end_segments_in_stack(x, ctx) ==
  FoldLeft(LAMBDA y, s : IF s = Root THEN y ELSE nr_segment_end(y, s),
           [x EXCEPT !.stacks[ctx] = <<>>], Reverse(x.stacks[ctx]))

nr_txn_finalize_parent_stacks(x) ==
  nr_txn_end_segments_in_stack(FoldSet(LAMBDA c, y : nr_txn_end_segments_in_stack(y, c), x, SegContexts),
                               "default")

RECURSIVE EndCurrent(_)
EndCurrent(x) ==
  LET s == nr_txn_get_current_segment(x, NULL)
  IN IF s = NULL \/ s = Root THEN x ELSE EndCurrent(nr_segment_end(x, s))

\* nr_php_txn_end, nr_txn_end: everything that is open is ended, the root last.
EndSegments(x) ==
  LET open == IF x.oapi THEN EndCurrent(x) ELSE nr_php_stacked_segment_unwind(x)
      done == nr_txn_finalize_parent_stacks(open)
  IN nr_segment_end([done EXCEPT !.segs[Root].name = TRUE], Root)

\* The segments a heap of that size keeps; every one if they are few enough.
Sample(x, order, limit, key) ==
  LET h == FoldLeft(LAMBDA g, s : nr_minmax_heap_insert(g, key, s).h,
                    nr_minmax_heap_create(limit), order)
  IN IF x.count <= limit THEN Range(order)
     ELSE IF limit = 1 THEN {} ELSE Range(h.e)


\* nr_segment_traces_stot_iterator_callback keeps the path to the segment: the
\* nearest ancestor that is in the sample and takes any time.
nr_segment_tree_get_nearest_sampled_ancestor(x, s, S) ==
  LET A == {a \in Ancestors(x, s) \ {s} : a \in S /\ x.segs[a].start < x.segs[a].stop}
  IN IF A = {} THEN NULL ELSE CHOOSE a \in A : \A b \in A : b \in Ancestors(x, a)

\* A segment that takes no time is left out of the trace and of the span events.
nr_segment_iteration_pass(x, s, S) ==
  IF s \notin S \/ x.segs[s].start >= x.segs[s].stop THEN <<>>
  ELSE <<[s |-> s, parent |-> nr_segment_tree_get_nearest_sampled_ancestor(x, s, S)]>>

nr_segment_traces_stot_iterator_callback(x, order, S) ==
  FoldLeft(LAMBDA nodes, s : nodes \o nr_segment_iteration_pass(x, s, S), <<>>, order)

\* One segment whose times are out of order spoils the whole trace.
nr_segment_traces_create_data(x, order, S) ==
  LET broken == \E s \in Range(order) : x.segs[s].start > x.segs[s].stop
  IN IF x.count = 0 \/ x.segs[Root].stop = 0 \/ broken THEN <<>>
     ELSE nr_segment_traces_stot_iterator_callback(x, order, S)

ExclusiveTime(x, s) == nr_exclusive_time_calculate(x.segs[s].start, x.segs[s].stop, ChildTimes(x, s))

\* The time of every segment; a time in which the main context waits for another
\* one counts once.
TotalTime(x, order) ==
  LET end     == x.segs[Root].stop
      async   == {<<x.segs[s].start, x.segs[s].stop, s>> :
                    s \in {s \in Range(order) : x.segs[s].ctx # NULL /\ x.segs[s].start <= x.segs[s].stop}}
      blocked == end - nr_exclusive_time_calculate(0, end, async)
  IN FoldLeft(LAMBDA n, s : n + ExclusiveTime(x, s), 0, order) - blocked

nr_segment_tree_finalise(x) ==
  LET order == Preorder(x, Root)
  IN [total |-> TotalTime(x, order),
      trace |-> nr_segment_traces_create_data(x, order, Sample(x, order, SegTraceLimit, DurationKey(x))),
      spans |-> IF x.queueing \/ ~x.spans THEN <<>>
                ELSE nr_segment_traces_create_data(x, order, Sample(x, order, SegSpanLimit, PriorityKey(x)))]

---------------------------------------------------------------------------
(* The machine: one transaction.                                            *)

VARIABLES sg,         \* the segments
          sgResult    \* what nr_segment_tree_finalise made, NULL before

segVars == <<sg, sgResult>>

SegBegin(oapi, max, spans, queueing, topic) ==
  LET x == [segs |-> (Root :> ZeroSegment), free |-> <<>>, next |-> Root, count |-> 0, now |-> 1,
            stacks |-> [c \in SegContexts \union {"default"} |-> <<>>], force |-> NULL,
            heap |-> NULL, max |-> max, oapi |-> oapi, spans |-> spans, queueing |-> queueing,
            queue |-> <<>>, guids |-> 1, lost |-> FALSE, topic |-> topic, starts |-> 0]
      r == SetPriorityFlag(nr_segment_start(x, NULL, NULL).x, Root, "root")
  IN [r EXCEPT !.segs[Root].start = 0, !.heap = IF max > 1 THEN nr_minmax_heap_create(max) ELSE NULL,
               !.force = IF oapi THEN NULL ELSE Root]

\* What a behaviour is about, so that not everything varies at once: the shape of
\* the tree, contexts and times, the limit on segments, spans that are sent at
\* once, typed segments.
SegInit ==
  /\ sg \in {SegBegin(o, 0, FALSE, FALSE, "tree") : o \in BOOLEAN}
           \union {SegBegin(TRUE, 0, TRUE, FALSE, "time")}
           \union {SegBegin(TRUE, 2, TRUE, FALSE, "limit")}
           \union {SegBegin(o, 0, TRUE, TRUE, "queue") : o \in BOOLEAN}
           \union {SegBegin(TRUE, 0, FALSE, FALSE, "typed")}
  /\ sgResult = NULL

Active(x) == {s \in DOMAIN x.segs : x.segs[s].live /\ x.segs[s].stop = 0}

\* The top function call.
CurrentCall(x) ==
  IF x.oapi THEN Last(x.stacks["default"]) ELSE x.force

SegRunning == sgResult = NULL

StartSegment ==
  \E p \in {NULL} \union Active(sg), c \in {NULL} \union SegContexts :
    /\ SegRunning /\ sg.starts < SegMaxStarts
    /\ sg.topic # "queue"
    /\ sg.topic # "tree" => p = NULL
    /\ sg.topic # "time" => c = NULL
    /\ sg' = [nr_segment_start(sg, p, c).x EXCEPT !.starts = @ + 1]
    /\ UNCHANGED sgResult

CallFunction ==
  /\ SegRunning /\ sg.starts < SegMaxStarts /\ sg.topic \in {"tree", "queue"}
  /\ sg' = [IF sg.oapi THEN nr_segment_start(sg, NULL, NULL).x ELSE nr_php_stacked_segment_init(sg)
            EXCEPT !.starts = @ + 1]
  /\ UNCHANGED sgResult

ReturnFunction ==
  \E create_metric \in BOOLEAN :
    /\ SegRunning /\ sg.topic \in {"tree", "queue"} /\ CurrentCall(sg) # Root
    /\ sg' = nr_php_execute_segment_end(sg, CurrentCall(sg), create_metric)
    /\ UNCHANGED sgResult

\* A library ends a segment of its own, in any order.
EndSegment ==
  \E s \in Active(sg) \ {Root} :
    /\ SegRunning /\ s < StackBase /\ sg.topic # "queue"
    /\ \/ sg' = nr_segment_end([sg EXCEPT !.segs[s].name = TRUE], s)
       \/ sg.topic = "typed" /\ sg' = nr_segment_external_end(sg, s)
       \/ sg.topic = "typed" /\ \E product \in BOOLEAN : sg' = nr_segment_datastore_end(sg, s, product)
       \/ sg.topic = "typed" /\ sg.max = 0 /\ sg' = nr_segment_message_end(sg, s)
    /\ UNCHANGED sgResult

Reparent ==
  \E s \in Active(sg) \ {Root}, p \in Active(sg) :
    /\ SegRunning /\ sg.topic = "tree" /\ s < StackBase
    /\ sg' = nr_segment_set_parent(sg, s, p)
    /\ UNCHANGED sgResult

\* A log line, an outgoing request or a user attribute marks the segment.
MarkCurrent ==
  /\ SegRunning
  /\ \/ sg.topic \in {"queue", "limit"} /\ sg' = nr_txn_get_current_span_id(sg)
     \/ sg.topic = "limit" /\ sg' = nr_segment_attributes_user_add(sg, nr_txn_get_current_segment(sg, NULL))
  /\ UNCHANGED sgResult

SegTick ==
  /\ SegRunning /\ sg.topic # "tree"
  /\ sg.now < IF sg.topic = "time" THEN SegMaxClock ELSE 2
  /\ sg' = [sg EXCEPT !.now = @ + 1]
  /\ UNCHANGED sgResult

SegEndTransaction ==
  /\ SegRunning
  /\ sg' = EndSegments(sg)
  /\ sgResult' = nr_segment_tree_finalise(sg')

SegNext ==
  \/ StartSegment \/ CallFunction \/ ReturnFunction \/ EndSegment
  \/ Reparent \/ MarkCurrent \/ SegTick \/ SegEndTransaction

---------------------------------------------------------------------------

Live(x) == {s \in DOMAIN x.segs : x.segs[s].live}

\* The type invariant.
SegTypeOK ==
  /\ \A s \in DOMAIN sg.segs : sg.segs[s].parent \in {NULL} \union DOMAIN sg.segs
  /\ sg.now \in 1 .. SegMaxClock
  /\ sg.count \in Nat
  /\ sg.heap # NULL => Len(sg.heap.e) <= sg.max

\* Parents and children agree, with the index that every child keeps of its own
\* place, and every segment is below the root: removal by index
\* (nr_segment_children_remove), reparenting and the move from the C stack to the
\* heap leave no segment behind and none twice.
TreeAgrees ==
  LET onHeap == {s \in Live(sg) : s < StackBase}
  IN /\ \A p \in Live(sg) : \A i \in DOMAIN sg.segs[p].kids :
          LET c == sg.segs[p].kids[i]
          IN c \in Live(sg) /\ sg.segs[c].parent = p /\ sg.segs[c].ix = i
     /\ sg.topic # "typed" => \A s \in onHeap \ {Root} : s \in Range(sg.segs[sg.segs[s].parent].kids)
     /\ sg.topic # "typed" => \A s \in Live(sg) : Root \in Ancestors(sg, s)

\* The stacks of current segments hold segments that have not ended, and the
\* segment heap only segments that have: what the heap drops is never a segment
\* somebody still holds (nr_segment.h: a segment that has been ended cannot be
\* discarded).
EndedOrCurrent ==
  SegRunning /\ sg.topic # "typed" =>
    /\ \A c \in DOMAIN sg.stacks : \A s \in Range(sg.stacks[c]) : s \in Active(sg)
    /\ sg.heap # NULL => \A s \in Range(sg.heap.e) : s \in Live(sg) \ Active(sg)

\* Whatever is left out of a trace or of the span events, what remains is a tree
\* of its own: the root comes first and the parent of every other is an earlier
\* one.
IsTree(n) ==
  n # <<>> => /\ n[1].s = Root /\ n[1].parent = NULL
              /\ \A i \in 2 .. Len(n) : \E j \in 1 .. i - 1 : n[j].s = n[i].parent
SampleIsTree ==
  sgResult # NULL => IsTree(sgResult.trace) /\ IsTree(sgResult.spans)
                     /\ Len(sgResult.spans) <= SegSpanLimit

\* A span that has been sent to the trace observer never names a parent that has
\* been discarded (nr_php_execute_segment_end keeps a segment that has an id).
\* The parent's own span was sent, unless the transaction ended inside the call:
\* then the segment has no name, and nr_txn_retire_current_segment sends nothing.
NoOrphanSpans ==
  sgResult # NULL /\ sg.topic # "typed" /\ sg.max = 0 =>
    \A i \in DOMAIN sg.queue :
      LET p == sg.queue[i].parent
      IN p # NULL => \/ \E j \in DOMAIN sg.queue : sg.queue[j].id = p
                     \/ \E s \in Live(sg) : sg.segs[s].id = p /\ ~sg.segs[s].name

\* Exclusive time is the time in which no child of the same context runs, however
\* the children overlap each other and the ends of their parent
\* (nr_exclusive_time_calculate).
ExclusiveIsUncovered ==
  sgResult # NULL =>
    \A s \in Range(Preorder(sg, Root)) :
      ExclusiveTime(sg, s) =
        Cardinality({t \in sg.segs[s].start .. sg.segs[s].stop - 1 :
                       \A k \in ChildTimes(sg, s) : ~(k[1] <= t /\ t < k[2])})

\* The total time of a transaction is never less than its duration, though the
\* time in which the main context waits is taken out (nr_segment_tree_finalise):
\* the unsigned subtraction does not wrap.  The time of a discarded segment with
\* metrics is lost to it.
TotalTimeCovers ==
  sgResult # NULL => /\ sgResult.total >= 0
                     /\ ~sg.lost => sgResult.total >= sg.segs[Root].stop

=============================================================================
