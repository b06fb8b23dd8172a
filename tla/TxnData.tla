------------------------------ MODULE TxnData ------------------------------
(***************************************************************************)
(* What a transaction collects, and the message it is sent in: the metric    *)
(* tables and string pools of util_metrics.c and util_string_pool.c, slow    *)
(* SQLs, custom and log events, PHP packages, the span queue, the adaptive   *)
(* sampling of nr_app_harvest.c, and cmd_txndata_transmit.c.                 *)
(*                                                                           *)
(* Each collection is driven alone: td.part says which.  Names, statements   *)
(* and events are numbers or short strings; a flatbuffer is the record that  *)
(* a reader gets back from it, an absent field NULL.                         *)
(***************************************************************************)
EXTENDS MinMaxHeap, Sequences, FiniteSets, SequencesExt, FiniteSetsExt, Integers

CONSTANTS
  TdParts,     \* the collections that are driven
  TdHash,      \* the hashes of the metric names, two of them the same
  TdLimit,     \* the size of every collection
  TdMaxOps     \* cap on the calls, for each collection

VARIABLE td

tdVars == <<td>>

---------------------------------------------------------------------------
(* String pools and metric tables: unbalanced trees in arrays, ordered by    *)
(* hash.  Indices start at 1 here, 0 is none.                                *)

nr_string_pool_create == <<>>

nr_string_get(pool, i) == IF i \in DOMAIN pool THEN pool[i].string ELSE NULL

\* Where a hash goes from an entry; the greater hashes are on the left.
Step(entry, hash) == IF entry.hash < hash THEN entry.left ELSE entry.right
Link(entry, hash, i) == IF entry.hash < hash THEN [entry EXCEPT !.left = i] ELSE [entry EXCEPT !.right = i]

nr_string_find_internal(pool, string, hash) ==
  LET at[i \in 0 .. Len(pool)] ==
        IF i = 0 \/ (pool[i].hash = hash /\ pool[i].string = string) THEN i ELSE at[Step(pool[i], hash)]
  IN IF pool = <<>> THEN 0 ELSE at[1]

\* [pool, i]
nr_string_add_internal(pool, string, hash) ==
  LET leaf[i \in 1 .. Len(pool)] ==
        IF (pool[i].hash = hash /\ pool[i].string = string) \/ Step(pool[i], hash) = 0 THEN i
        ELSE leaf[Step(pool[i], hash)]
      new == [hash |-> hash, string |-> string, left |-> 0, right |-> 0]
      n == Len(pool) + 1
  IN IF pool = <<>> THEN [pool |-> <<new>>, i |-> 1]
     ELSE IF pool[leaf[1]].hash = hash /\ pool[leaf[1]].string = string THEN [pool |-> pool, i |-> leaf[1]]
     ELSE [pool |-> Append([pool EXCEPT ![leaf[1]] = Link(@, hash, n)], new), i |-> n]

\* NR_TIME_MAX
TimeMax == 99

nrm_table_create(max_size) == [max_size |-> IF max_size <= 0 THEN 2000 ELSE max_size, metrics |-> <<>>, strpool |-> nr_string_pool_create]

nrm_hash(name) == TdHash[name]

nrm_find_internal(table, name, hash) ==
  LET m == table.metrics
      at[i \in 0 .. Len(m)] ==
        IF i = 0 \/ (m[i].hash = hash /\ nr_string_get(table.strpool, m[i].name_index) = name) THEN i
        ELSE at[Step(m[i], hash)]
  IN IF m = <<>> THEN 0 ELSE at[1]

nrm_find(table, name) == nrm_find_internal(table, name, nrm_hash(name))

\* The caller has looked for the metric and not found it.
nrm_create(table, name, hash) ==
  LET m == table.metrics
      n == Len(m) + 1
      leaf[i \in 1 .. Len(m)] == IF Step(m[i], hash) = 0 THEN i ELSE leaf[Step(m[i], hash)]
      s == nr_string_add_internal(table.strpool, name, hash)
      new == [hash |-> hash, left |-> 0, right |-> 0, name_index |-> s.i, forced |-> FALSE, apdex |-> FALSE,
              mdata |-> <<0, 0, 0, TimeMax, 0, 0>>]
  IN [table EXCEPT !.strpool = s.pool,
                   !.metrics = Append(IF m = <<>> THEN m ELSE [m EXCEPT ![leaf[1]] = Link(@, hash, n)], new)]

nrm_is_full(table) == Len(table.metrics) >= table.max_size

\* [table, i]; i = 0 if there was no room.
FindOrCreate(force, table, name) ==
  LET At(t, i) == [table |-> IF force THEN [t EXCEPT !.metrics[i].forced = TRUE] ELSE t, i |-> i]
      Or(found) == IF found # 0 THEN At(table, found)
                   ELSE IF nrm_is_full(table) /\ ~force THEN [table |-> table, i |-> 0]
                   ELSE At(nrm_create(table, name, nrm_hash(name)), Len(table.metrics) + 1)
  IN Or(nrm_find(table, name))

\* mdata is count, total, exclusive, min, max and sum of squares; of an apdex
\* metric the first three are satisfying, tolerating and failing.
Merge(old, new) ==
  <<old[1] + new[1], old[2] + new[2], old[3] + new[3],
    IF new[4] < old[4] THEN new[4] ELSE old[4], IF new[5] > old[5] THEN new[5] ELSE old[5], old[6] + new[6]>>

Lasting(duration, exclusive) == <<1, duration, exclusive, duration, duration, duration * duration>>

\* A metric that is dropped is counted by a metric that never is.
nrm_find_or_create(force, table, name) ==
  LET Count(d) == [table |-> [d.table EXCEPT !.metrics[d.i].mdata = Merge(@, Lasting(0, 0))], i |-> 0]
      OrDropped(f) == IF f.i # 0 THEN f
                      ELSE Count(FindOrCreate(TRUE, table, "Supportability/MetricsDropped"))
  IN OrDropped(FindOrCreate(force, table, name))

nrm_add_internal(force, table, name, new) ==
  LET Add(f) == IF f.i = 0 THEN f.table ELSE [f.table EXCEPT !.metrics[f.i].mdata = Merge(@, new)]
  IN Add(nrm_find_or_create(force, table, name))

nrm_add(table, name, duration) == nrm_add_internal(FALSE, table, name, Lasting(duration, duration))
nrm_add_ex(table, name, duration, exclusive) == nrm_add_internal(FALSE, table, name, Lasting(duration, exclusive))
nrm_force_add(table, name, duration) == nrm_add_internal(TRUE, table, name, Lasting(duration, duration))
nrm_force_add_ex(table, name, duration, exclusive) == nrm_add_internal(TRUE, table, name, Lasting(duration, exclusive))

nrm_add_apdex_internal(force, table, name, apdex) ==
  LET Add(f) == IF f.i = 0 THEN f.table
                ELSE [f.table EXCEPT !.metrics[f.i] = [@ EXCEPT !.apdex = TRUE, !.mdata = Merge(@, apdex)]]
  IN Add(nrm_find_or_create(force, table, name))

\* zone is the place of the one that is counted.
nrm_add_apdex(table, name, zone, apdex) ==
  nrm_add_apdex_internal(FALSE, table, name, [[i \in 1 .. 6 |-> IF i = zone THEN 1 ELSE 0] EXCEPT ![4] = apdex, ![5] = apdex])
nrm_force_add_apdex(table, name, zone, apdex) ==
  nrm_add_apdex_internal(TRUE, table, name, [[i \in 1 .. 6 |-> IF i = zone THEN 1 ELSE 0] EXCEPT ![4] = apdex, ![5] = apdex])

nrm_duplicate_metric(table, current_name, new_name) ==
  LET Copy(i) == IF i = 0 THEN table
                 ELSE nrm_add_internal(table.metrics[i].forced, table, new_name, table.metrics[i].mdata)
  IN Copy(nrm_find(table, current_name))

\* What a reader of the table sees of a metric.
MetricOf(table, i) ==
  LET m == table.metrics[i]
  IN [name |-> nr_string_get(table.strpool, m.name_index), forced |-> m.forced, apdex |-> m.apdex, data |-> m.mdata]

nrm_table_validate(table) ==
  \A i \in DOMAIN table.metrics :
    LET m == table.metrics[i]
    IN /\ m.left = 0 \/ (m.left > i /\ m.left <= Len(table.metrics))
       /\ m.right = 0 \/ (m.right > i /\ m.right <= Len(table.metrics))
       /\ nr_string_get(table.strpool, m.name_index) # NULL

---------------------------------------------------------------------------
(* Slow SQLs: one entry per statement id, the slowest are kept.              *)

nr_slowsqls_create(max_slowsqls) == IF max_slowsqls <= 0 THEN NULL ELSE [max |-> max_slowsqls, e |-> <<>>]

\* The text and the parameters are those of the slowest of the statement.
nr_slowsql_merge(dest, src) ==
  [dest EXCEPT !.count = @ + src.count, !.total = @ + src.total,
               !.min_time = IF src.min_time < @ THEN src.min_time ELSE @,
               !.max_time = IF src.max_time > @ THEN src.max_time ELSE @,
               !.params = IF src.max_time > dest.max_time THEN src.params ELSE @]

nr_slowsqls_add_internal(s, slow) ==
  LET same == {i \in DOMAIN s.e : s.e[i].id = slow.id}
      least == CHOOSE i \in DOMAIN s.e : \A j \in DOMAIN s.e :
                 s.e[i].max_time < s.e[j].max_time \/ (s.e[i].max_time = s.e[j].max_time /\ i <= j)
  IN IF same # {} THEN [s EXCEPT !.e[Min(same)] = nr_slowsql_merge(@, slow)]
     ELSE IF Len(s.e) < s.max THEN [s EXCEPT !.e = Append(@, slow)]
     ELSE IF slow.max_time < s.e[least].max_time THEN s
     ELSE [s EXCEPT !.e[least] = slow]

\* A statement that cannot be obfuscated has the id 0.
nr_slowsqls_add(s, id, duration, params) ==
  IF s = NULL \/ duration = 0 \/ id = 0 THEN s
  ELSE nr_slowsqls_add_internal(s, [id |-> id, count |-> 1, total |-> duration, min_time |-> duration,
                                    max_time |-> duration, params |-> params])

---------------------------------------------------------------------------
(* Custom events: a reservoir.  Log events: a heap by priority and age.      *)

nr_analytics_events_create(max_events) ==
  IF max_events < 0 THEN NULL ELSE [allocated |-> max_events, seen |-> 0, e |-> <<>>]

nr_analytics_events_is_sampling(ev) == ~(Len(ev.e) < ev.allocated)

\* random is nr_random_range(rnd, events_seen)
nr_analytics_events_add_event(ev, event, random) ==
  LET s == [ev EXCEPT !.seen = @ + 1]
  IN IF ev = NULL THEN ev
     ELSE IF ~nr_analytics_events_is_sampling(ev) THEN [s EXCEPT !.e = Append(@, event)]
     ELSE IF random < ev.allocated THEN [s EXCEPT !.e[random + 1] = event]
     ELSE s

nr_log_events_create(max_events) ==
  [allocated |-> max_events, used |-> 0, seen |-> 0,
   heap |-> IF max_events # 0 THEN nr_minmax_heap_create(max_events) ELSE NULL]

nr_log_events_is_sampling(ev) == ev.used >= ev.allocated

\* Mutant: the age is not looked at.
ComparatorWithoutAge(events) == [x \in events |-> x[1] - x[2]]

\* The comparator: priority, then time.
nr_log_event_priority_comparator(events) == [x \in events |-> 10 * x[1] + x[2]]

\* events are all that may be added: the keys of the heap.
nr_log_events_add_event(ev, event, events) ==
  LET s == [ev EXCEPT !.seen = @ + 1]
  IN IF ev = NULL THEN ev
     ELSE IF ev.heap = NULL \/ ev.allocated = 0 THEN s
     ELSE [s EXCEPT !.heap = nr_minmax_heap_insert(@, nr_log_event_priority_comparator(events), event).h,
                    !.used = IF nr_log_events_is_sampling(ev) THEN @ ELSE @ + 1]

nr_log_events_to_vector(ev) == IF ev = NULL \/ ev.heap = NULL THEN <<>> ELSE nr_minmax_heap_iterate(ev.heap)

---------------------------------------------------------------------------
(* PHP packages: sources are 0 a suggestion, 1 the instrumentation ("legacy"),*)
(* 2 Composer.                                                               *)

nr_php_package_create_with_source(name, version, source) ==
  [name |-> name, version |-> IF version = NULL THEN " " ELSE version, source |-> source]
nr_php_package_create(name, version) == nr_php_package_create_with_source(name, version, 1)

\* The package keeps the source it was first added from.
nr_php_packages_add_package(h, p) ==
  LET old == nr_hashmap_get(h, p.name)
  IN IF old = NULL THEN nr_hashmap_set(h, p.name, p)
     ELSE IF old.source <= p.source THEN nr_hashmap_update(h, p.name, [old EXCEPT !.version = p.version])
     ELSE h

nr_php_packages_to_json(h) == {<<k, h[k].version>> : k \in DOMAIN h}

---------------------------------------------------------------------------
(* The span queue: spans leave in batches.                                   *)

nr_span_batch_create(capacity, now) == [capacity |-> capacity, start |-> now, spans |-> <<>>]

nr_span_queue_create(batch_size, batch_timeout, now) ==
  IF batch_size = 0 \/ batch_timeout = 0 THEN NULL
  ELSE [batch_size |-> batch_size, batch_timeout |-> batch_timeout, batch |-> nr_span_batch_create(batch_size, now)]

\* [queue, out]: out is the batch that the handler is given, or NULL.  A batch
\* that cannot be encoded is lost; what the handler answers is not looked at.
nr_span_queue_flush(queue, now, encoded) ==
  [queue |-> [queue EXCEPT !.batch = nr_span_batch_create(queue.batch_size, now)],
   out |-> IF queue.batch.spans = <<>> THEN NULL ELSE [spans |-> queue.batch.spans, sent |-> encoded]]

nr_span_queue_push(queue, event, now, encoded) ==
  LET full == Len(queue.batch.spans) >= queue.batch.capacity \/ now > queue.batch.start + queue.batch_timeout
      f == IF full THEN nr_span_queue_flush(queue, now, encoded) ELSE [queue |-> queue, out |-> NULL]
  IN [f EXCEPT !.queue.batch.spans = Append(@, event)]

---------------------------------------------------------------------------
(* Adaptive sampling.                                                        *)

\* target ^ (target / sampled) - target ^ 0.5, cut to an integer, for the
\* targets 1, 2 and 4.
Pow(target, sampled) ==
  IF target = 4 THEN (IF sampled = 4 THEN 2 ELSE IF sampled = 5 THEN 1 ELSE 0) ELSE 0

nr_app_harvest_calculate_next_harvest_time(ah, now) ==
  IF now < ah.connect \/ ah.frequency = 0 THEN ah.connect
  ELSE ah.connect + ah.frequency * ((now - ah.connect) \div ah.frequency + 1)

nr_app_harvest_calculate_threshold(target, sampled) ==
  IF sampled = 0 \/ target = 0 \/ sampled < target THEN 0 ELSE Pow(target, sampled)

nr_app_harvest_is_first(ah, now) == now < ah.connect + ah.frequency

\* Counters start again when the connection is another one.
nr_app_harvest_private_init(ah, connect, frequency, target, now) ==
  LET a == [ah EXCEPT !.connect = connect, !.frequency = frequency, !.target = target]
  IN IF ah.connect = connect /\ ah.frequency = frequency THEN a
     ELSE [a EXCEPT !.next = nr_app_harvest_calculate_next_harvest_time(a, now),
                    !.threshold = 0, !.prev_seen = 0, !.seen = 0, !.sampled = 0]

\* [ah, sampled]; random % n stands for nr_random_range(rnd, n), which is 0
\* for a range of 0.
nr_app_harvest_private_should_sample(ah, now, random) ==
  LET h == IF now < ah.next THEN ah
           ELSE [ah EXCEPT !.threshold = nr_app_harvest_calculate_threshold(ah.target, ah.sampled),
                           !.prev_seen = IF now >= ah.next + ah.frequency THEN 0 ELSE ah.seen,
                           !.seen = 0, !.sampled = 0, !.next = nr_app_harvest_calculate_next_harvest_time(ah, now)]
      Decide(a, yes) == [ah |-> IF yes THEN [a EXCEPT !.sampled = @ + 1] ELSE a, sampled |-> yes]
      ByThreshold(t) == Decide(t, random % t.seen < t.threshold)
      Sample(s) ==
        IF nr_app_harvest_is_first(s, now) THEN Decide(s, s.sampled < s.target)
        ELSE IF s.sampled < s.target
        THEN Decide(s, random % (IF s.prev_seen = 0 THEN 1 ELSE s.prev_seen) < s.target)
        ELSE ByThreshold([s EXCEPT !.threshold = nr_app_harvest_calculate_threshold(s.target, s.sampled)])
  IN Sample([h EXCEPT !.seen = @ + 1])

---------------------------------------------------------------------------
(* The message.  A vector is written from its end: what is prepended first   *)
(* is read last.                                                             *)

Vector(prepended) == IF prepended = <<>> THEN NULL ELSE Reverse(prepended)

nr_txndata_prepend_custom_events(txn) ==
  LET offsets == Reverse(txn.custom.e)
  IN IF txn.custom = NULL THEN NULL ELSE Vector(offsets)

nr_txndata_prepend_log_events(txn, limit) ==
  LET saved == nr_log_events_to_vector(txn.logs)
      count == IF txn.logs.used > limit THEN limit ELSE txn.logs.used
  IN Vector(SubSeq(saved, 1, count))

nr_txndata_prepend_span_events(spans, limit) ==
  LET count == IF Len(spans) > limit THEN limit ELSE Len(spans)
  IN Vector(Reverse(SubSeq(spans, 1, count)))

nr_error_to_daemon_json(error, txn) ==
  [when |-> error.when, name |-> txn.name, what |-> error.what, guid |-> txn.guid, uri |-> txn.uri]

nr_txndata_error_to_json(txn) == IF txn.error = NULL THEN NULL ELSE nr_error_to_daemon_json(txn.error, txn)

nr_txndata_prepend_errors(txn) ==
  LET json == nr_txndata_error_to_json(txn)
  IN IF json = NULL THEN NULL ELSE Vector(<<[data |-> json, priority |-> txn.error.priority]>>)

nr_txndata_prepend_error_events(txn) == IF txn.error_event = NULL THEN NULL ELSE Vector(<<txn.error_event>>)

nr_txndata_prepend_metric(table, i, scoped) == [metric |-> MetricOf(table, i), scoped |-> scoped]

\* Without scoped metrics the tables are still two.
nr_txndata_prepend_metrics(txn) ==
  LET of(table, scoped) == [i \in DOMAIN table.metrics |-> nr_txndata_prepend_metric(table, i, scoped)]
  IN Vector(of(txn.unscoped_metrics, FALSE) \o of(txn.scoped_metrics, TRUE))

nr_txndata_prepend_slowsqls(txn) == IF txn.slowsqls = NULL THEN NULL ELSE Vector(txn.slowsqls.e)

nr_txndata_prepend_trace_to_flatbuffer(txn) ==
  IF txn.trace = NULL THEN NULL ELSE [data |-> txn.trace, guid |-> txn.guid]

nr_txndata_prepend_php_packages(txn) ==
  IF DOMAIN txn.packages = {} THEN NULL ELSE nr_php_packages_to_json(txn.packages)

\* Pairs of a type and a value, in the order of the hash.
nr_txndata_prepend_log_forwarding_labels(labels) ==
  IF labels = NULL THEN NULL ELSE [i \in DOMAIN labels |-> [label_type |-> labels[i][1], label_value |-> labels[i][2]]]

nr_txndata_prepend_request_uri(txn) == IF txn.uri = NULL THEN "<unknown>" ELSE txn.uri

nr_txndata_prepend_transaction(txn) ==
  [trace |-> nr_txndata_prepend_trace_to_flatbuffer(txn),
   span_events |-> nr_txndata_prepend_span_events(txn.spans, txn.limit),
   log_events |-> nr_txndata_prepend_log_events(txn, txn.limit),
   error_events |-> nr_txndata_prepend_error_events(txn),
   custom_events |-> nr_txndata_prepend_custom_events(txn),
   slow_sqls |-> nr_txndata_prepend_slowsqls(txn),
   errors |-> nr_txndata_prepend_errors(txn),
   metrics |-> nr_txndata_prepend_metrics(txn),
   php_packages |-> nr_txndata_prepend_php_packages(txn),
   log_labels |-> nr_txndata_prepend_log_forwarding_labels(txn.labels), resource_id |-> txn.synthetics,
   txn_event |-> txn.event, uri |-> nr_txndata_prepend_request_uri(txn), name |-> txn.name]

nr_txndata_encode(txn) == [agent_run_id |-> txn.run, data |-> nr_txndata_prepend_transaction(txn)]

---------------------------------------------------------------------------
(* The machine.                                                              *)

NewTxn(limit, clock) ==
  [name |-> "name", guid |-> "guid", uri |-> NULL, run |-> "run", trace |-> NULL, limit |-> limit,
   error |-> NULL, error_event |-> NULL, event |-> NULL, labels |-> << <<"k", "v">> >>, synthetics |-> NULL,
   unscoped_metrics |-> nrm_table_create(limit), scoped_metrics |-> nrm_table_create(limit),
   slowsqls |-> nr_slowsqls_create(limit), custom |-> nr_analytics_events_create(limit),
   logs |-> nr_log_events_create(limit), packages |-> nr_hashmap_create, spans |-> <<>>,
   queue |-> nr_span_queue_create(limit, 1, clock)]

\* A harvest that nothing has been heard of yet.
NoHarvest == [connect |-> 0, frequency |-> 0, target |-> 0, next |-> 0, threshold |-> 0, prev_seen |-> 0, seen |-> 0, sampled |-> 0]

\* done holds the calls that were made, for the properties to look back at:
\* for metrics, what is known of each name and how many were dropped.
TdInit ==
  \E part \in TdParts, limit \in TdLimit :
    /\ part \in {"packages", "sampling"} => limit = Max(TdLimit)   \* which have none
    /\ td = [part |-> part, txn |-> NewTxn(limit, 1), clock |-> 1, ops |-> 0, out |-> <<>>, sent |-> NULL,
             harvest |-> nr_app_harvest_private_init(NoHarvest, 3, 4, 4, 1),
             done |-> <<>>, map |-> nr_hashmap_create, dropped |-> 0]

TdBusy(part) == td.part = part /\ td.ops < TdMaxOps[part] /\ td.sent = NULL
Did(t, what) == [t EXCEPT !.ops = @ + 1, !.done = Append(@, what)]

\* What the table stands for: a map from names to data, and the number of
\* calls that found no room.
MapAdd(t, force, name, new) ==
  LET room == name \in DOMAIN t.map \/ force \/ Len(t.txn.unscoped_metrics.metrics) < t.txn.unscoped_metrics.max_size
      old == IF name \in DOMAIN t.map THEN t.map[name] ELSE <<0, 0, 0, TimeMax, 0, 0>>
  IN IF room THEN [t EXCEPT !.map = nr_hashmap_update(@, name, Merge(old, new))] ELSE [t EXCEPT !.dropped = @ + 1]

TdMetric ==
  /\ TdBusy("metrics") /\ td.txn.limit \in 1 .. 2
  /\ \E name \in DOMAIN TdHash \ {"Supportability/MetricsDropped"} :
       LET table == td.txn.unscoped_metrics
           d == td.ops + 1
           Put(force, new, t) == td' = [MapAdd(td, force, name, new) EXCEPT !.ops = @ + 1, !.txn.unscoped_metrics = t]
       IN \/ Put(FALSE, Lasting(d, d), nrm_add(table, name, d))
          \/ Put(TRUE, Lasting(d, d), nrm_force_add(table, name, d))
          \/ td.ops = 1 /\ Put(FALSE, Lasting(d, 1), nrm_add_ex(table, name, d, 1))
          \/ td.ops = 1 /\ Put(TRUE, Lasting(d, 1), nrm_force_add_ex(table, name, d, 1))
          \/ td.ops = 0 /\ Put(FALSE, <<0, 1, 0, d, d, 0>>, nrm_add_apdex(table, name, 2, d))
          \/ td.ops = 0 /\ Put(TRUE, <<1, 0, 0, d, d, 0>>, nrm_force_add_apdex(table, name, 1, d))
          \/ \E other \in DOMAIN td.map \ {name} :
               LET i == nrm_find(table, other)
               IN Put(i # 0 /\ table.metrics[i].forced, td.map[other], nrm_duplicate_metric(table, other, name))

TdSlowSql ==
  /\ TdBusy("slowsqls")
  /\ \E id \in 0 .. 3, d \in 0 .. 3 :
       /\ td.ops > 0 => id # 0 /\ d # 0
       /\ td' = Did([td EXCEPT !.txn.slowsqls = nr_slowsqls_add(@, id, d, td.ops)], [id |-> id, d |-> d])

TdCustomEvent ==
  /\ TdBusy("events")
  /\ \E random \in 0 .. td.txn.custom.seen :
       td' = Did([td EXCEPT !.txn.custom = nr_analytics_events_add_event(@, td.ops, random)], td.ops)

\* The priority is that of the transaction and may change, the time does not
\* go back.
LogEvents == {<<p, t>> : p \in 1 .. 2, t \in 1 .. 9}
TdLogEvent ==
  /\ TdBusy("logs")
  /\ \E p \in 1 .. 2 :
       td' = Did([td EXCEPT !.txn.logs = nr_log_events_add_event(@, <<p, td.ops + 1>>, LogEvents)], <<p, td.ops + 1>>)

TdPackage ==
  /\ TdBusy("packages")
  /\ \E source \in 0 .. 2, version \in {NULL, "1", "2"} :
       LET p == IF source = 1 THEN nr_php_package_create("p", version)
                ELSE nr_php_package_create_with_source("p", version, source)
       IN td' = Did([td EXCEPT !.txn.packages = nr_php_packages_add_package(@, p)], p)

Flushed(t, f) == [t EXCEPT !.txn.queue = f.queue, !.out = IF f.out = NULL THEN @ ELSE Append(@, f.out)]

TdSpan ==
  /\ TdBusy("spans") /\ td.txn.queue # NULL
  /\ \E now \in td.clock .. td.clock + 2, encoded \in BOOLEAN :
       td' = Did([Flushed(td, nr_span_queue_push(td.txn.queue, td.ops, now, encoded)) EXCEPT !.clock = now], td.ops)

TdSample ==
  /\ TdBusy("sampling")
  /\ \E now \in td.clock .. td.clock + 4, random \in 0 .. 3 :
       td' = [td EXCEPT !.ops = @ + 1, !.clock = now,
                        !.harvest = nr_app_harvest_private_should_sample(@, now, random).ah]

\* The application connects again.
TdConnect ==
  /\ TdBusy("sampling")
  /\ \E connect \in {3, td.clock} :
       td' = [td EXCEPT !.ops = @ + 1, !.harvest = nr_app_harvest_private_init(@, connect, 4, 4, td.clock)]

\* nr_txn_end flushes the queue; the message follows.
TdSend ==
  /\ td.sent = NULL /\ td.part # "sampling"
  /\ \E encoded \in BOOLEAN :
       /\ td.part = "spans" \/ encoded
       /\ LET t == IF td.part # "spans" \/ td.txn.queue = NULL THEN td
                   ELSE Flushed(td, nr_span_queue_flush(td.txn.queue, td.clock, encoded))
          IN td' = [t EXCEPT !.sent = nr_txndata_encode(t.txn)]

TdNext == TdMetric \/ TdSlowSql \/ TdCustomEvent \/ TdLogEvent \/ TdPackage \/ TdSpan \/ TdSample \/ TdConnect \/ TdSend

---------------------------------------------------------------------------
(* Properties.                                                               *)

DroppedName == "Supportability/MetricsDropped"

\* The tree of the metric table is a map: whatever hashes collide, in whatever
\* order metrics are added, duplicated and dropped, each name has one metric,
\* it is found, and it holds what was added; what was dropped is counted.
TableIsMap ==
  LET table == td.txn.unscoped_metrics
      dropped == nrm_find(table, DroppedName)
  IN td.part = "metrics" =>
       /\ nrm_table_validate(table)
       /\ \A i \in DOMAIN table.metrics : nrm_find(table, MetricOf(table, i).name) = i
       /\ {MetricOf(table, i).name : i \in DOMAIN table.metrics} \ {DroppedName} = DOMAIN td.map
       /\ \A name \in DOMAIN td.map : table.metrics[nrm_find(table, name)].mdata = td.map[name]
       /\ td.dropped = IF dropped = 0 THEN 0 ELSE table.metrics[dropped].mdata[1]

\* The slowest statement of the transaction is among those that are sent,
\* with the parameters of the time it was slowest; no statement is sent twice.
SlowestIsSaved ==
  LET e == td.txn.slowsqls.e
      runs == {i \in DOMAIN td.done : td.done[i].id # 0 /\ td.done[i].d # 0}
      slowest == Max({td.done[i].d : i \in runs})
  IN td.part = "slowsqls" /\ td.txn.slowsqls # NULL =>
       /\ \A i, j \in DOMAIN e : e[i].id = e[j].id => i = j
       /\ runs # {} => \E i \in DOMAIN e :
            e[i].max_time = slowest /\ td.done[e[i].params + 1] = [id |-> e[i].id, d |-> slowest]

\* As many custom events are kept as there is room for, each one once.
ReservoirIsFull ==
  LET e == td.txn.custom.e
  IN td.part = "events" =>
       /\ Len(e) = Min({td.txn.custom.seen, td.txn.custom.allocated})
       /\ \A i, j \in DOMAIN e : e[i] = e[j] => i = j

\* The log events that are kept are the ones of the highest priority, and of
\* the same priority the newest.  (A limit of one keeps none.)
BestLogsKept ==
  LET kept == Range(nr_log_events_to_vector(td.txn.logs))
      all == Range(td.done)
  IN td.part = "logs" /\ td.txn.logs.allocated # 1 =>
       /\ Cardinality(kept) = td.txn.logs.used
       /\ td.txn.logs.used = Min({Len(td.done), td.txn.logs.allocated})
       /\ \A k \in kept, o \in all \ kept : k[1] > o[1] \/ (k[1] = o[1] /\ k[2] > o[2])

\* A version that Composer told first is not replaced by another source's.
FirstComposerStays ==
  td.part = "packages" /\ td.done # <<>> /\ td.done[1].source = 2 =>
    \E i \in DOMAIN td.done : td.done[i].source = 2 /\ td.done[i].version = td.txn.packages["p"].version

\* Every span is in one batch, in the order of the pushes, however the queue
\* fills and times out; no batch is larger than the queue's size.
SpansInOrder ==
  td.part = "spans" /\ td.txn.queue # NULL =>
    /\ FlattenSeq([i \in DOMAIN td.out |-> td.out[i].spans]) \o td.txn.queue.batch.spans = td.done
    /\ \A i \in DOMAIN td.out : Len(td.out[i].spans) <= td.txn.queue.batch_size /\ td.out[i].spans # <<>>
    /\ td.sent # NULL => td.txn.queue.batch.spans = <<>>

\* In a cycle fewer transactions are sampled than twice the target, and in the
\* first one exactly the first ones.
SamplesNearTarget ==
  LET h == td.harvest
  IN td.part = "sampling" =>
       /\ h.sampled <= h.seen /\ h.sampled < 2 * h.target
       /\ nr_app_harvest_is_first(h, td.clock) => h.sampled = Min({h.seen, h.target})

\* The message carries what was collected, no more than the limits allow.
MessageIsComplete ==
  td.sent # NULL =>
    LET d == td.sent.data
        In(v) == IF v = NULL THEN {} ELSE Range(v)
    IN /\ In(d.custom_events) = Range(td.txn.custom.e)
       /\ In(d.slow_sqls) = IF td.txn.slowsqls = NULL THEN {} ELSE Range(td.txn.slowsqls.e)
       /\ In(d.log_events) = Range(nr_log_events_to_vector(td.txn.logs))
       /\ {m.metric : m \in In(d.metrics)} = {MetricOf(td.txn.unscoped_metrics, i) : i \in DOMAIN td.txn.unscoped_metrics.metrics}
       /\ (d.php_packages = NULL) = (td.txn.packages = nr_hashmap_create)

\* Each collection of a transaction, and the heap below them, keeps what it
\* promises to keep when there is more than fits, and the message has all of it
\* (axiom/util_minmax_heap.c, nr_txndata_encode).
CollectionsKeepTheBest ==
  /\ HeapTypeOK /\ LevelsOrdered
  /\ TableIsMap /\ SlowestIsSaved /\ ReservoirIsFull /\ BestLogsKept
  /\ FirstComposerStays /\ SpansInOrder /\ SamplesNearTarget /\ MessageIsComplete
=============================================================================
