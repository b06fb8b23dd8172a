----------------------------- MODULE Datastores -----------------------------
(***************************************************************************)
(* The inner wrappers of the database extensions                           *)
(* (src/agent/php_internal_instrument.c) and what they keep between calls: *)
(* the datastore instance of every connection, the SQL of every prepared   *)
(* statement, and what it takes to run an EXPLAIN on a mysqli connection   *)
(* (php_datastore.c, php_mysql.c, php_mysqli.c, php_pgsql.c, php_redis.c,  *)
(* php_pdo.c, php_explain*.c, nr_mysqli_metadata.c).                       *)
(*                                                                         *)
(* All of it is kept under the number of a resource or under the handle of *)
(* an object, and PHP gives the handle of a freed object to the next       *)
(* object.  A zval is NULL (no argument, or no value), 0 for a value that  *)
(* is neither object nor resource (FALSE), or a handle.                    *)
(*                                                                         *)
(* A call k of a wrapped function says what the script passed and what the *)
(* original handler does:                                                  *)
(*   parsed  zend_parse_parameters accepts the arguments                   *)
(*   arg     the link or statement the function is called with or on       *)
(*   host, port, db, sql   the other arguments                             *)
(*   ret, ok         what it returns, and whether it succeeded             *)
(*   caught          it ends in a bailout (a fatal error)                  *)
(*   slow            it took longer than the explain threshold             *)
(***************************************************************************)
EXTENDS AgentBase

CONSTANTS DsHandles,     \* handles of objects, a set of numbers > 0
          DsMaxCalls     \* calls of a script

UNKNOWN == "(prepared statement)"
UnknownSql == "(unknown sql)"

------------------------------------------------------------------------------
(* The state of a request.  "obj" is the extensions' own state: what the   *)
(* live objects and resources really are.                                  *)

DsStart(family) ==
  [family |-> family, calls |-> 0,
   obj |-> nr_hashmap_create,
   conn |-> nr_hashmap_create,        \* datastore_connections
   mysql_last_conn |-> NULL, pgsql_last_conn |-> NULL,
   stmts |-> nr_hashmap_create,       \* prepared_statements
   links |-> nr_hashmap_create,       \* mysqli_links
   queries |-> nr_hashmap_create,     \* mysqli_queries
   generating |-> FALSE,              \* generating_explain_plan
   open |-> 0,                        \* segments started and not ended
   rec |-> NULL,                      \* the segment the last call recorded
   did |-> NULL,                      \* what the last call really did
   olds |-> 0, bailed |-> FALSE, caught |-> FALSE, errors |-> 0, metrics |-> {}]

IsObject(m, z, class) ==
  z \in DOMAIN m.obj /\ m.obj[z].class = class

nr_php_mysqli_zval_is_link(m, z) == IsObject(m, z, "mysqli")
nr_php_mysqli_zval_is_stmt(m, z) == IsObject(m, z, "mysqli_stmt")

\* "sql" is the text of a statement, "prepared" says that a prepare gave it.
Object(class, host, db, sql, link) ==
  [class |-> class, host |-> host, db |-> db, sql |-> sql, link |-> link,
   prepared |-> class \in {"mysqli_stmt", "pdostatement", "oci"}]

\* The connection an object belongs to.
LinkOf(m, z) == IF z \in DOMAIN m.obj
                THEN IF m.obj[z].link = NULL THEN z ELSE m.obj[z].link
                ELSE NULL

\* The original handler.
OldHandler(m, k) ==
  LET made == IF k.ret \in DsHandles /\ k.makes # NULL
              THEN nr_hashmap_update(m.obj, k.ret, k.makes) ELSE m.obj
      sets == IF k.arg \in DOMAIN made /\ k.sets # NULL
              THEN [made EXCEPT ![k.arg] = k.sets] ELSE made
      link == IF k.parsed THEN LinkOf(m, k.arg) ELSE NULL
      sql  == IF k.arg \in DOMAIN m.obj /\ m.obj[k.arg].sql # NULL
              THEN m.obj[k.arg].sql ELSE k.sql
  IN  [m EXCEPT !.obj = sets, !.olds = @ + 1, !.caught = k.caught,
                !.did = IF m.generating THEN @
                        ELSE [fn |-> k.fn, sql |-> sql,
                              host |-> IF link = NULL THEN NULL
                                       ELSE m.obj[link].host,
                              db   |-> IF link = NULL THEN NULL
                                       ELSE m.obj[link].db,
                              made |-> /\ k.arg \in DOMAIN m.obj
                                       /\ m.obj[k.arg].sql # NULL
                                       /\ m.obj[k.arg].prepared]]

\* zend_bailout() after a bailout that nr_zend_call_old_handler has caught.
Rethrow(m, k) == IF k.caught THEN [m EXCEPT !.bailed = TRUE] ELSE m

\* The original handler called without catching: a bailout leaves the wrapper.
Plain(m, k, After(_)) ==
  LET o == OldHandler(m, k) IN IF k.caught THEN Rethrow(o, k) ELSE After(o)

Same1(m) == m
OldOnly(m, k) == Plain(m, k, Same1)

------------------------------------------------------------------------------
(* Segments.                                                               *)

SegmentStart(m) == [m EXCEPT !.open = @ + 1]

DatastoreEnd(m, product, sql, op, plan, instance) ==
  [m EXCEPT !.open = @ - 1,
            !.rec = [product |-> product, sql |-> sql, op |-> op,
                     plan |-> plan, instance |-> instance]]

\* An empty text returns before the segment is taken from its pointer: it is
\* neither ended nor discarded.
nr_php_txn_end_segment_sql(m, sql, plan, product, instance) ==
  IF sql = "" THEN m
  ELSE IF m.generating THEN [m EXCEPT !.open = @ - 1]
  ELSE DatastoreEnd(m, product, sql, NULL, plan, instance)

nr_php_instrument_datastore_operation_call(m, k, product, op, instance) ==
  Rethrow(DatastoreEnd(OldHandler(SegmentStart(m), k),
                       product, NULL, op, NULL, instance), k)

\* Start a segment, call the original, end the segment with what instance(_)
\* finds after the call.
QueryCall(m, k, sql, product, Instance(_)) ==
  LET o == OldHandler(SegmentStart(m), k)
  IN  nr_php_txn_end_segment_sql(o, sql, NULL, product, Instance(o))

NoInstance(m) == NULL

------------------------------------------------------------------------------
(* Keys and instances (php_datastore.c).                                   *)

nr_php_datastore_make_key(z, extension) ==
  CASE z = NULL                        -> <<extension, 0>>
    [] z = 0                           -> NULL
    [] extension \in {"mysql", "oci"}  -> <<"resource", z>>
    [] OTHER                           -> <<"object", z>>

nr_datastore_instance_create(host, port, db) ==
  [host |-> IF host = NULL THEN "unknown" ELSE host,
   port_path_or_id |-> IF port = NULL THEN "unknown" ELSE port, db |-> db]

\* "host:port": the host alone decides between port and socket.
nr_php_mysql_get_host_and_port_path_or_id(host, port) ==
  LET h == IF host \in {NULL, ""} THEN "localhost" ELSE host
      p == IF port \in {NULL, ""} THEN "default port" ELSE port
  IN  [host |-> h,
       port |-> IF h = "localhost" /\ p # "/socket" THEN "default socket" ELSE p]

nr_php_datastore_instance_save(m, key, instance) ==
  IF key = NULL \/ instance = NULL THEN m
  ELSE [m EXCEPT !.conn = nr_hashmap_update(@, key, instance)]

nr_php_datastore_instance_retrieve(m, key) ==
  IF key = NULL THEN NULL ELSE nr_hashmap_get(m.conn, key)

nr_php_datastore_instance_remove(m, key) ==
  IF key = NULL THEN m ELSE [m EXCEPT !.conn = nr_hashmap_delete(@, key)]

nr_datastore_instance_set_database_name(m, key, db) ==
  IF key # NULL /\ nr_hashmap_has(m.conn, key)
  THEN [m EXCEPT !.conn[key].db = db] ELSE m

------------------------------------------------------------------------------
(* mysql and pgsql: calls without a link use the last connection.          *)

nr_php_mysql_save_datastore_instance(m, z, host, port) ==
  LET key == nr_php_datastore_make_key(z, "mysql")
      at  == nr_php_mysql_get_host_and_port_path_or_id(host, port)
  IN  IF key # NULL /\ nr_hashmap_has(m.conn, key) THEN m
      ELSE [nr_php_datastore_instance_save(
              m, key, nr_datastore_instance_create(at.host, at.port, NULL))
              EXCEPT !.mysql_last_conn = key]

MysqlKey(m, z) ==
  IF z = NULL /\ m.mysql_last_conn # NULL THEN m.mysql_last_conn
  ELSE nr_php_datastore_make_key(z, "mysql")

\* A call without a link when there is no connection yet records the default one.
nr_php_mysql_retrieve_datastore_instance(m, z) ==
  IF z = NULL /\ m.mysql_last_conn = NULL
  THEN nr_php_mysql_save_datastore_instance(m, z, NULL, NULL) ELSE m

nr_php_mysql_remove_datastore_instance(m, z) ==
  LET key == MysqlKey(m, z)
      r   == nr_php_datastore_instance_remove(m, key)
  IN  IF key = m.mysql_last_conn THEN [r EXCEPT !.mysql_last_conn = NULL] ELSE r

nr_php_pgsql_save_datastore_instance(m, z, host, db) ==
  LET key == nr_php_datastore_make_key(z, "pgsql")
  IN  IF key # NULL /\ nr_hashmap_has(m.conn, key) THEN m
      ELSE [nr_php_datastore_instance_save(
              m, key, nr_datastore_instance_create(host, "5432", db))
              EXCEPT !.pgsql_last_conn = key]

PgsqlKey(m, z) ==
  IF z = NULL /\ m.pgsql_last_conn # NULL THEN m.pgsql_last_conn
  ELSE nr_php_datastore_make_key(z, "pgsql")

nr_php_pgsql_retrieve_datastore_instance(m, z) ==
  IF z = NULL /\ m.pgsql_last_conn = NULL
  THEN nr_php_pgsql_save_datastore_instance(m, z, NULL, NULL) ELSE m

nr_php_pgsql_remove_datastore_instance(m, z) ==
  LET key == PgsqlKey(m, z)
      r   == nr_php_datastore_instance_remove(m, key)
  IN  IF key = m.pgsql_last_conn THEN [r EXCEPT !.pgsql_last_conn = NULL] ELSE r

record_mysql_error(m, k) ==
  IF k.ret = 0 /\ ~k.ok THEN [m EXCEPT !.errors = @ + 1] ELSE m

mysql_connect(m, k) ==
  IF ~k.parsed THEN OldOnly(m, k)
  ELSE Rethrow(nr_php_mysql_save_datastore_instance(OldHandler(m, k),
                                                    k.ret, k.host, k.port), k)

mysql_close(m, k) ==
  OldOnly(IF k.parsed THEN nr_php_mysql_remove_datastore_instance(m, k.arg)
          ELSE m, k)

mysql_select_db(m, k) ==
  IF ~k.parsed THEN OldOnly(m, k)
  ELSE LET o == nr_php_mysql_retrieve_datastore_instance(OldHandler(m, k), k.arg)
       IN  Rethrow(nr_datastore_instance_set_database_name(
                     o, MysqlKey(o, k.arg), k.db), k)

MysqlQuery(m, k, Prepare(_)) ==
  IF ~k.parsed THEN OldOnly(m, k)
  ELSE LET o == nr_php_mysql_retrieve_datastore_instance(
                  OldHandler(SegmentStart(m), k), k.arg)
           p == Prepare(o)
           e == nr_php_txn_end_segment_sql(
                  p, k.sql, NULL, "MySQL",
                  nr_php_datastore_instance_retrieve(p, MysqlKey(p, k.arg)))
       IN  IF k.caught THEN Rethrow(e, k) ELSE record_mysql_error(e, k)

mysql_query(m, k) == MysqlQuery(m, k, Same1)

mysql_db_query(m, k) ==
  MysqlQuery(m, k, LAMBDA o : nr_datastore_instance_set_database_name(
                                o, MysqlKey(o, k.arg), k.db))

------------------------------------------------------------------------------
(* pgsql.  A prepared statement is kept under its connection and its name. *)

pg_connect(m, k) ==
  IF ~k.parsed THEN OldOnly(m, k)
  ELSE Rethrow(nr_php_pgsql_save_datastore_instance(
                 OldHandler(m, k), k.ret, k.host, k.db), k)

pg_close(m, k) ==
  OldOnly(IF k.parsed THEN nr_php_pgsql_remove_datastore_instance(m, k.arg)
          ELSE m, k)

nr_php_prepared_statement_make_pgsql_key(z) ==
  IF z \in DsHandles THEN <<"pgsql name", z>> ELSE <<"pgsql name", 0>>

nr_php_prepared_statement_find_internal(m, key) ==
  IF nr_hashmap_has(m.stmts, key) THEN m.stmts[key] ELSE UNKNOWN

nr_php_prepared_statement_save_internal(m, key, sql) ==
  IF key = NULL \/ sql = NULL \/ sql = "" THEN m
  ELSE [m EXCEPT !.stmts = nr_hashmap_update(@, key, sql)]

nr_php_prepared_statement_find(m, z, extension) ==
  nr_php_prepared_statement_find_internal(
    m, nr_php_datastore_make_key(z, extension))

nr_php_prepared_statement_save(m, z, extension, sql) ==
  nr_php_prepared_statement_save_internal(
    m, nr_php_datastore_make_key(z, extension), sql)

\* The instance is read before the original is called.
PgsqlQuery(m, k, sql) ==
  LET r    == nr_php_pgsql_retrieve_datastore_instance(m, k.arg)
      inst == nr_php_datastore_instance_retrieve(r, PgsqlKey(r, k.arg))
  IN  Rethrow(QueryCall(r, k, sql, "Postgres", LAMBDA o : inst), k)

pg_query(m, k) == PgsqlQuery(m, k, IF k.parsed THEN k.sql ELSE UnknownSql)

pg_query_params(m, k) ==
  Rethrow(QueryCall(m, k, IF k.parsed THEN k.sql ELSE UnknownSql, "Postgres",
                    NoInstance), k)

pg_prepare(m, k) ==
  Plain(m, k, LAMBDA o :
    IF ~k.parsed THEN o
    ELSE nr_php_prepared_statement_save_internal(
           o, nr_php_prepared_statement_make_pgsql_key(k.arg), k.sql))

pg_execute(m, k) ==
  IF k.parsed
  THEN PgsqlQuery(m, k, nr_php_prepared_statement_find_internal(
                          m, nr_php_prepared_statement_make_pgsql_key(k.arg)))
  ELSE Rethrow(QueryCall(m, k, UNKNOWN, "Postgres", NoInstance), k)

------------------------------------------------------------------------------
(* SQLite, MS SQL, Oracle, MongoDB and memcache keep no instances.         *)

SqlOrUnknown(m, k, product) ==
  Rethrow(QueryCall(m, k, IF k.parsed THEN k.sql ELSE UnknownSql, product,
                    NoInstance), k)

sqlite_query_function(m, k) == SqlOrUnknown(m, k, "SQLite")
sqlite_exec_or_query(m, k)  == SqlOrUnknown(m, k, "SQLite")
sqlite3(m, k)               == SqlOrUnknown(m, k, "SQLite")
sqlite3_querysingle(m, k)   == SqlOrUnknown(m, k, "SQLite")

mssql_query(m, k) ==
  IF k.parsed THEN SqlOrUnknown(m, k, "MSSQL") ELSE OldOnly(m, k)

oci_parse(m, k) ==
  Plain(m, k, LAMBDA o : IF k.parsed
                         THEN nr_php_prepared_statement_save(o, k.ret, "oci", k.sql)
                         ELSE o)

oci_execute(m, k) ==
  IF ~k.parsed THEN OldOnly(m, k)
  ELSE Rethrow(QueryCall(m, k, nr_php_prepared_statement_find(m, k.arg, "oci"),
                         "Oracle", NoInstance), k)

mongocollection_15(m, k) ==
  nr_php_instrument_datastore_operation_call(m, k, "MongoDB", k.fn, NULL)

mongodb_execute(m, k) ==
  nr_php_instrument_datastore_operation_call(m, k, "MongoDB", "execute", NULL)

memcache_function(m, k) ==
  nr_php_instrument_datastore_operation_call(m, k, "Memcached", k.fn, NULL)

\* A unix socket has port 0.
nr_php_memcached_create_datastore_instance(host, port) ==
  IF port = "0" THEN nr_datastore_instance_create("localhost", host, NULL)
  ELSE nr_datastore_instance_create(host, port, NULL)

nr_php_memcached_create_instance_metric(m, host, port) ==
  [m EXCEPT !.metrics =
     @ \cup {nr_php_memcached_create_datastore_instance(host, port)}]

\* The instance metric is made whatever the original answers.
memcached_add_server(m, k) ==
  Rethrow(OldHandler(IF k.parsed /\ k.host # NULL
                     THEN nr_php_memcached_create_instance_metric(m, k.host, k.port)
                     ELSE m, k), k)

memcached_add_servers(m, k) ==      \* k.servers: pairs <<host, port>>
  Rethrow(OldHandler(IF k.parsed
                     THEN FoldLeft(LAMBDA n, s :
                            nr_php_memcached_create_instance_metric(n, s[1], s[2]),
                            m, k.servers)
                     ELSE m, k), k)

------------------------------------------------------------------------------
(* Redis: the instance is saved, changed and removed before the original   *)
(* is called, whether or not it succeeds.                                  *)

nr_php_redis_create_datastore_instance(host, port) ==
  IF host = "/socket" THEN nr_datastore_instance_create("localhost", host, "0")
  ELSE nr_datastore_instance_create(host, port, "0")

nr_php_redis_save_datastore_instance(m, z, host, port) ==
  nr_php_datastore_instance_save(
    m, nr_php_datastore_make_key(z, "redis"),
    nr_php_redis_create_datastore_instance(host, port))

nr_php_redis_retrieve_datastore_instance(m, z) ==
  nr_php_datastore_instance_retrieve(m, nr_php_datastore_make_key(z, "redis"))

nr_php_redis_remove_datastore_instance(m, z) ==
  nr_php_datastore_instance_remove(m, nr_php_datastore_make_key(z, "redis"))

redis_connect(m, k) ==
  LET s == IF k.parsed
           THEN nr_php_redis_save_datastore_instance(m, k.arg, k.host, k.port)
           ELSE m
  IN  nr_php_instrument_datastore_operation_call(
        s, k, "Redis", k.fn,
        IF k.parsed THEN nr_php_redis_retrieve_datastore_instance(s, k.arg)
        ELSE NULL)

redis_close(m, k) ==
  Rethrow(OldHandler(nr_php_redis_remove_datastore_instance(m, k.arg), k), k)

redis_select(m, k) ==
  Rethrow(OldHandler(
    IF k.parsed
    THEN nr_datastore_instance_set_database_name(
           m, nr_php_datastore_make_key(k.arg, "redis"), k.db)
    ELSE m, k), k)

redis_function(m, k) ==
  nr_php_instrument_datastore_operation_call(
    m, k, "Redis", k.fn, nr_php_redis_retrieve_datastore_instance(m, k.arg))

rediscluster_function(m, k) ==
  nr_php_instrument_datastore_operation_call(
    m, k, "Redis", k.fn, nr_datastore_instance_create(NULL, NULL, NULL))

------------------------------------------------------------------------------
(* mysqli.  To run an EXPLAIN the agent opens a connection of its own with *)
(* what it has seen of the link (mysqli_links: host and database), and     *)
(* prepares the statement again with what it has seen of the query         *)
(* (mysqli_queries: link, query, whether parameters were bound).           *)

nr_php_mysqli_get_host_and_port_path_or_id(host, port) ==
  LET h == IF host \in {NULL, ""} THEN "localhost" ELSE host
  IN  [host |-> h, port |-> IF h = "localhost" THEN "default socket"
                            ELSE IF port = NULL THEN "default port" ELSE port]

\* Mutant: what is known of a handle is kept, as it is for resources.
SaveUnlessKnown(m, z, host, port, db) ==
  LET at  == nr_php_mysqli_get_host_and_port_path_or_id(host, port)
      key == nr_php_datastore_make_key(z, "mysqli")
  IN  IF key = NULL \/ nr_hashmap_has(m.conn, key) THEN m
      ELSE nr_php_datastore_instance_save(
             m, key, nr_datastore_instance_create(at.host, at.port, db))

nr_php_mysqli_save_datastore_instance(m, z, host, port, db) ==
  LET at == nr_php_mysqli_get_host_and_port_path_or_id(host, port)
  IN  nr_php_datastore_instance_save(
        m, nr_php_datastore_make_key(z, "mysqli"),
        nr_datastore_instance_create(at.host, at.port, db))

nr_php_mysqli_retrieve_datastore_instance(m, z) ==
  nr_php_datastore_instance_retrieve(m, nr_php_datastore_make_key(z, "mysqli"))

nr_php_mysqli_remove_datastore_instance(m, z) ==
  nr_php_datastore_instance_remove(m, nr_php_datastore_make_key(z, "mysqli"))

nr_mysqli_metadata_create_or_get(m, handle) ==
  IF nr_hashmap_has(m.links, handle) THEN m.links[handle]
  ELSE [host |-> NULL, db |-> NULL, options |-> {}]

\* A property that is not given keeps the value it had.
nr_mysqli_metadata_add_property(old, value) == IF value = NULL THEN old ELSE value

nr_mysqli_metadata_set_connect(m, handle, host, db) ==
  LET l == nr_mysqli_metadata_create_or_get(m, handle)
  IN  [m EXCEPT !.links = nr_hashmap_update(@, handle,
         [l EXCEPT !.host = nr_mysqli_metadata_add_property(@, host),
                   !.db   = nr_mysqli_metadata_add_property(@, db)])]

nr_mysqli_metadata_set_database(m, handle, db) ==
  LET l == nr_mysqli_metadata_create_or_get(m, handle)
  IN  IF db = NULL THEN m
      ELSE [m EXCEPT !.links =
              nr_hashmap_update(@, handle, [l EXCEPT !.db = db])]

nr_mysqli_metadata_set_option(m, handle, option) ==
  LET l == nr_mysqli_metadata_create_or_get(m, handle)
  IN  [m EXCEPT !.links = nr_hashmap_update(@, handle,
         [l EXCEPT !.options = @ \cup {option}])]

nr_php_mysqli_query_find(m, handle) == nr_hashmap_get(m.queries, handle)

nr_php_mysqli_query_find_or_create(m, handle) ==
  IF nr_hashmap_has(m.queries, handle) THEN m.queries[handle]
  ELSE [link |-> NULL, query |-> NULL, bound |-> FALSE]

SetQueryData(m, handle, q) ==
  [m EXCEPT !.queries = nr_hashmap_update(@, handle, q)]

nr_php_mysqli_query_set_link(m, handle, link) ==
  LET q == nr_php_mysqli_query_find_or_create(m, handle)
  IN  SetQueryData(m, handle,
        IF nr_php_mysqli_zval_is_link(m, link) THEN [q EXCEPT !.link = link] ELSE q)

\* Parameters bound to the query before are forgotten.
nr_php_mysqli_query_set_query(m, handle, sql) ==
  IF sql = NULL THEN m
  ELSE SetQueryData(m, handle,
         [nr_php_mysqli_query_find_or_create(m, handle)
            EXCEPT !.query = sql, !.bound = FALSE])

nr_php_mysqli_query_clear_query(m, handle) ==
  IF ~nr_hashmap_has(m.queries, handle) THEN m
  ELSE [m EXCEPT !.queries[handle].query = NULL, !.queries[handle].bound = FALSE]

nr_php_mysqli_query_set_bind_params(m, handle) ==
  IF ~nr_hashmap_has(m.queries, handle) THEN m
  ELSE [m EXCEPT !.queries[handle].bound = TRUE]

\* The link is an object that is still there: the metadata holds a reference.
nr_php_mysqli_query_get_link(m, handle) ==
  IF nr_hashmap_has(m.queries, handle)
     /\ nr_php_mysqli_zval_is_link(m, m.queries[handle].link)
  THEN m.queries[handle].link ELSE NULL

nr_php_mysqli_query_get_query(m, handle) ==
  IF nr_hashmap_has(m.queries, handle) THEN m.queries[handle].query ELSE NULL

\* A SELECT, of one statement, that locks nothing.
nr_php_explain_mysql_query_is_explainable(sql) == sql \in {"select1", "select2"}

nr_php_explain_wanted(m, k) == ~m.generating /\ k.slow

FreshHandle(m, n) ==
  CHOOSE h \in 1..(Cardinality(DOMAIN m.obj) + n) :
    h \notin DOMAIN m.obj
    /\ Cardinality({x \in 1..h : x \notin DOMAIN m.obj}) = n

\* What is left of the agent's own connection and statement: their objects are
\* freed again, what the wrappers saved for them stays.
LeftOfExplain(m, l) ==
  [m EXCEPT !.conn = nr_hashmap_update(@, <<"object", FreshHandle(m, 1)>>,
                       nr_datastore_instance_create(l.host, "default port", l.db)),
            !.stmts = nr_hashmap_update(@, <<"object", FreshHandle(m, 2)>>,
                                        "EXPLAIN")]

\* The plan, if the link has been seen: what EXPLAIN was run for, and where.
nr_php_explain_mysqli_issue(m, link, sql) ==
  IF ~nr_hashmap_has(m.links, link) THEN NULL
  ELSE [sql |-> sql, host |-> m.links[link].host, db |-> m.links[link].db]

AfterExplain(m, link, plan) ==
  IF plan = NULL THEN m ELSE LeftOfExplain(m, m.links[link])

nr_php_explain_mysqli_query(m, k, link, sql) ==
  IF /\ nr_php_mysqli_zval_is_link(m, link)
     /\ nr_php_explain_wanted(m, k)
     /\ nr_php_explain_mysql_query_is_explainable(sql)
  THEN nr_php_explain_mysqli_issue(m, link, sql) ELSE NULL

nr_php_explain_mysqli_stmt(m, k, handle) ==
  LET link == nr_php_mysqli_query_get_link(m, handle)
      sql  == nr_php_mysqli_query_get_query(m, handle)
  IN  IF /\ nr_php_explain_wanted(m, k)
         /\ link # NULL
         /\ nr_php_explain_mysql_query_is_explainable(sql)
      THEN nr_php_explain_mysqli_issue(m, link, sql) ELSE NULL

mysqli_close(m, k) ==
  OldOnly(IF k.parsed THEN nr_php_mysqli_remove_datastore_instance(m, k.arg)
          ELSE m, k)

\* The link is the value returned or, for a constructor, the object itself.
mysqli_construct(m, k) ==
  IF ~k.parsed THEN OldOnly(m, k)
  ELSE LET o    == OldHandler(m, k)
           link == CASE nr_php_mysqli_zval_is_link(o, k.ret) -> k.ret
                     [] nr_php_mysqli_zval_is_link(o, k.arg) -> k.arg
                     [] OTHER -> NULL
           i    == nr_php_mysqli_save_datastore_instance(o, link, k.host, k.port, k.db)
       IN  Rethrow(IF link = NULL \/ m.generating THEN i
                   ELSE nr_mysqli_metadata_set_connect(i, link, k.host, k.db), k)

mysqli_real_connect(m, k) ==
  IF ~k.parsed THEN OldOnly(m, k)
  ELSE LET o == OldHandler(m, k)
           i == nr_php_mysqli_save_datastore_instance(o, k.arg, k.host, k.port, k.db)
       IN  Rethrow(IF m.generating \/ ~nr_php_mysqli_zval_is_link(o, k.arg) THEN i
                   ELSE nr_mysqli_metadata_set_connect(i, k.arg, k.host, k.db), k)

mysqli_options(m, k) ==
  IF ~k.parsed THEN OldOnly(m, k)
  ELSE LET o == OldHandler(m, k)
       IN  Rethrow(IF ~m.generating /\ nr_php_mysqli_zval_is_link(o, k.arg) /\ k.ok
                   THEN nr_mysqli_metadata_set_option(o, k.arg, "option") ELSE o, k)

mysqli_commit(m, k) ==
  IF ~k.parsed THEN OldOnly(m, k)
  ELSE nr_php_instrument_datastore_operation_call(m, k, "MySQL", "commit", NULL)

\* The instance takes the new name even if the selection failed, the metadata
\* only if it did not.
mysqli_select_db(m, k) ==
  IF ~k.parsed THEN OldOnly(m, k)
  ELSE LET o == nr_datastore_instance_set_database_name(
                  OldHandler(m, k), nr_php_datastore_make_key(k.arg, "mysqli"), k.db)
       IN  Rethrow(IF ~m.generating /\ nr_php_mysqli_zval_is_link(o, k.arg) /\ k.ok
                   THEN nr_mysqli_metadata_set_database(o, k.arg, k.db) ELSE o, k)

mysqli_general_query(m, k) ==
  LET o    == OldHandler(SegmentStart(m), k)
      sql  == IF k.parsed THEN k.sql ELSE UnknownSql
      link == IF k.parsed THEN k.arg ELSE NULL
      plan == IF m.generating THEN NULL
              ELSE nr_php_explain_mysqli_query(o, k, link, sql)
      inst == nr_php_mysqli_retrieve_datastore_instance(o, link)
  IN  Rethrow(nr_php_txn_end_segment_sql(AfterExplain(o, link, plan), sql, plan,
                                         "MySQL", inst), k)

mysqli_stmt_bind_param(m, k) ==
  IF m.generating \/ ~nr_php_mysqli_zval_is_stmt(m, k.arg) \/ ~k.parsed
  THEN OldOnly(m, k)
  ELSE Rethrow(nr_php_mysqli_query_set_bind_params(OldHandler(m, k), k.arg), k)

mysqli_stmt_execute(m, k) ==
  LET sql  == nr_php_prepared_statement_find(m, k.arg, "mysqli")
      o    == OldHandler(SegmentStart(m), k)
      plan == IF nr_php_mysqli_zval_is_stmt(o, k.arg) /\ k.ret # NULL
              THEN nr_php_explain_mysqli_stmt(o, k, k.arg) ELSE NULL
  IN  Rethrow(nr_php_txn_end_segment_sql(
                AfterExplain(o, nr_php_mysqli_query_get_link(o, k.arg), plan),
                sql, plan, "MySQL", NULL), k)

nr_php_prepared_prepare_general(m, k, extension) ==
  IF ~k.parsed THEN OldOnly(m, k)
  ELSE Plain(m, k, LAMBDA o :
    LET p == nr_php_prepared_statement_save(o, k.ret, extension, k.sql)
        l == nr_php_mysqli_query_set_link(p, k.ret, k.arg)
    IN  CASE ~(/\ ~p.generating
               /\ nr_php_mysqli_zval_is_stmt(p, k.ret)
               /\ nr_php_mysqli_zval_is_link(p, k.arg)) -> p
          [] nr_php_explain_mysql_query_is_explainable(k.sql) ->
               nr_php_mysqli_query_set_query(l, k.ret, k.sql)
          [] OTHER -> nr_php_mysqli_query_clear_query(l, k.ret))

mysqli_prepare(m, k) == nr_php_prepared_prepare_general(m, k, "mysqli")
pdo_prepare(m, k)    == nr_php_prepared_prepare_general(m, k, "pdo")

\* A constructor returns nothing, so that the metadata is never set.
mysqli_stmt_construct(m, k) ==
  IF ~k.parsed THEN OldOnly(m, k)
  ELSE Plain(m, k, LAMBDA o :
    LET p == nr_php_prepared_statement_save(o, k.arg, "mysqli", k.sql)
        l == nr_php_mysqli_query_set_link(p, k.ret, k.link)
    IN  CASE k.ret \notin DsHandles -> p
          [] nr_php_explain_mysql_query_is_explainable(k.sql) ->
               nr_php_mysqli_query_set_query(l, k.ret, k.sql)
          [] OTHER -> l)

mysqli_stmt_init(m, k) ==
  IF m.generating \/ ~nr_php_mysqli_zval_is_link(m, k.arg) THEN OldOnly(m, k)
  ELSE LET o == OldHandler(m, k)
       IN  Rethrow(IF nr_php_mysqli_zval_is_stmt(o, k.ret)
                   THEN nr_php_mysqli_query_set_link(o, k.ret, k.arg) ELSE o, k)

\* A query that cannot be explained leaves the one before in the metadata.
mysqli_stmt_prepare(m, k) ==
  IF ~k.parsed THEN OldOnly(m, k)
  ELSE Plain(m, k, LAMBDA o :
    LET p == nr_php_prepared_statement_save(o, k.arg, "mysqli", k.sql)
    IN  IF /\ ~p.generating
           /\ nr_php_mysqli_zval_is_stmt(p, k.arg)
           /\ nr_php_explain_mysql_query_is_explainable(k.sql)
        THEN nr_php_mysqli_query_set_query(p, k.arg, k.sql) ELSE p)

------------------------------------------------------------------------------
(* PDO.  The instance is found under the driver and the data source name,  *)
(* which is "host" here, and made when it is first wanted.                 *)

nr_php_pdo_get_database_object_from_object(m, z) ==
  IF IsObject(m, z, "pdo") \/ IsObject(m, z, "pdostatement") THEN LinkOf(m, z)
  ELSE NULL

nr_php_pdo_get_datastore_for_driver(driver) ==
  CASE driver = "mysql"                        -> "MySQL"
    [] driver = "pgsql"                        -> "Postgres"
    [] driver = "oci"                          -> "Oracle"
    [] driver \in {"sqlite", "sqlite2"}        -> "SQLite"
    [] driver \in {"mssql", "dblib", "sqlsrv"} -> "MSSQL"
    [] driver = "firebird"                     -> "Firebird"
    [] driver = "odbc"                         -> "ODBC"
    [] driver = "sybase"                       -> "Sybase"
    [] driver = "informix"                     -> "Informix"
    [] OTHER                                   -> "PDO"

nr_php_pdo_datastore_make_key(m, dbh) == <<"pdo", m.obj[dbh].host>>

nr_php_pdo_get_datastore_instance(m, z) ==
  LET dbh == nr_php_pdo_get_database_object_from_object(m, z)
  IN  IF dbh = NULL THEN m
      ELSE LET key == nr_php_pdo_datastore_make_key(m, dbh)
           IN  IF nr_hashmap_has(m.conn, key) THEN m
               ELSE nr_php_datastore_instance_save(
                      m, key, nr_datastore_instance_create(
                                m.obj[dbh].host, "3306", m.obj[dbh].db))

\* The statement itself is asked for its query, its link for its data source.
nr_php_explain_pdo_statement(m, k, z) ==
  IF /\ nr_php_explain_wanted(m, k)
     /\ IsObject(m, z, "pdostatement")
     /\ nr_php_explain_mysql_query_is_explainable(m.obj[z].sql)
  THEN LET dbh == LinkOf(m, z)
       IN  [sql |-> m.obj[z].sql, host |-> m.obj[dbh].host, db |-> m.obj[dbh].db]
  ELSE NULL

nr_php_pdo_end_segment_sql(m, k, sql, z, try_explain) ==
  LET plan == IF try_explain THEN nr_php_explain_pdo_statement(m, k, z) ELSE NULL
      dbh  == nr_php_pdo_get_database_object_from_object(m, z)
      i    == nr_php_pdo_get_datastore_instance(m, z)
  IN  nr_php_txn_end_segment_sql(
        i, sql, plan,
        nr_php_pdo_get_datastore_for_driver(IF dbh = NULL THEN NULL ELSE "mysql"),
        IF dbh = NULL THEN NULL
        ELSE nr_hashmap_get(i.conn, nr_php_pdo_datastore_make_key(i, dbh)))

pdo_construct(m, k) == Rethrow(OldHandler(m, k), k)

pdo_exec(m, k) ==
  Rethrow(nr_php_pdo_end_segment_sql(
            OldHandler(SegmentStart(m), k), k,
            IF k.parsed THEN k.sql ELSE UnknownSql, k.arg, FALSE), k)

pdo_query(m, k) ==
  Rethrow(nr_php_pdo_end_segment_sql(
            OldHandler(SegmentStart(m), k), k,
            IF k.parsed THEN k.sql ELSE UnknownSql, k.ret, TRUE), k)

pdostatement_execute(m, k) ==
  Rethrow(nr_php_pdo_end_segment_sql(
            OldHandler(SegmentStart(m), k), k,
            nr_php_prepared_statement_find(m, k.arg, "pdo"), k.arg, TRUE), k)

------------------------------------------------------------------------------
(* Scripts.  A script uses one extension.                                  *)

VARIABLE ds
dsVars == <<ds>>

DsFamilies == {"mysql", "mysqli", "pgsql", "pdo", "redis", "other"}

Wrapper(m, k) ==
  CASE k.fn = "mysql_connect"          -> mysql_connect(m, k)
    [] k.fn = "mysql_close"            -> mysql_close(m, k)
    [] k.fn = "mysql_select_db"        -> mysql_select_db(m, k)
    [] k.fn = "mysql_query"            -> mysql_query(m, k)
    [] k.fn = "mysql_db_query"         -> mysql_db_query(m, k)
    [] k.fn = "mysqli_construct"       -> mysqli_construct(m, k)
    [] k.fn = "mysqli_real_connect"    -> mysqli_real_connect(m, k)
    [] k.fn = "mysqli_options"         -> mysqli_options(m, k)
    [] k.fn = "mysqli_close"           -> mysqli_close(m, k)
    [] k.fn = "mysqli_commit"          -> mysqli_commit(m, k)
    [] k.fn = "mysqli_select_db"       -> mysqli_select_db(m, k)
    [] k.fn = "mysqli_general_query"   -> mysqli_general_query(m, k)
    [] k.fn = "mysqli_prepare"         -> mysqli_prepare(m, k)
    [] k.fn = "mysqli_stmt_init"       -> mysqli_stmt_init(m, k)
    [] k.fn = "mysqli_stmt_construct"  -> mysqli_stmt_construct(m, k)
    [] k.fn = "mysqli_stmt_prepare"    -> mysqli_stmt_prepare(m, k)
    [] k.fn = "mysqli_stmt_bind_param" -> mysqli_stmt_bind_param(m, k)
    [] k.fn = "mysqli_stmt_execute"    -> mysqli_stmt_execute(m, k)
    [] k.fn = "pg_connect"             -> pg_connect(m, k)
    [] k.fn = "pg_close"               -> pg_close(m, k)
    [] k.fn = "pg_query"               -> pg_query(m, k)
    [] k.fn = "pg_query_params"        -> pg_query_params(m, k)
    [] k.fn = "pg_prepare"             -> pg_prepare(m, k)
    [] k.fn = "pg_execute"             -> pg_execute(m, k)
    [] k.fn = "pdo_construct"          -> pdo_construct(m, k)
    [] k.fn = "pdo_exec"               -> pdo_exec(m, k)
    [] k.fn = "pdo_query"              -> pdo_query(m, k)
    [] k.fn = "pdo_prepare"            -> pdo_prepare(m, k)
    [] k.fn = "pdostatement_execute"   -> pdostatement_execute(m, k)
    [] k.fn = "redis_connect"          -> redis_connect(m, k)
    [] k.fn = "redis_close"            -> redis_close(m, k)
    [] k.fn = "redis_select"           -> redis_select(m, k)
    [] k.fn = "redis_function"         -> redis_function(m, k)
    [] k.fn = "rediscluster_function"  -> rediscluster_function(m, k)
    [] k.fn = "sqlite_query_function"  -> sqlite_query_function(m, k)
    [] k.fn = "sqlite_exec_or_query"   -> sqlite_exec_or_query(m, k)
    [] k.fn = "sqlite3"                -> sqlite3(m, k)
    [] k.fn = "sqlite3_querysingle"    -> sqlite3_querysingle(m, k)
    [] k.fn = "mssql_query"            -> mssql_query(m, k)
    [] k.fn = "oci_parse"              -> oci_parse(m, k)
    [] k.fn = "oci_execute"            -> oci_execute(m, k)
    [] k.fn = "mongocollection_15"     -> mongocollection_15(m, k)
    [] k.fn = "mongodb_execute"        -> mongodb_execute(m, k)
    [] k.fn = "memcache_function"      -> memcache_function(m, k)
    [] k.fn = "memcached_add_server"   -> memcached_add_server(m, k)
    [] k.fn = "memcached_add_servers"  -> memcached_add_servers(m, k)

------------------------------------------------------------------------------
(* The calls of a script.                                                  *)

Hosts == {"h1", "h2"}
Sqls  == {"select1", "select2", "update", ""}

A0(fn) == [fn |-> fn, parsed |-> TRUE, arg |-> NULL, host |-> NULL,
           port |-> NULL, db |-> NULL, sql |-> NULL, ret |-> 0, ok |-> TRUE,
           caught |-> FALSE, slow |-> FALSE, makes |-> NULL, sets |-> NULL,
           link |-> NULL, servers |-> <<>>]

Objects(m, class) == {h \in DOMAIN m.obj : m.obj[h].class = class}

\* The handle of the next object: the one that was free last, here the least.
Fresh(m) == LET free == DsHandles \ DOMAIN m.obj
            IN  {h \in free : \A g \in free : h <= g}

\* Calls on a link, or on none: mysql and pgsql have a default link.
MysqlCalls(m) ==
  LET links == Objects(m, "mysql") \cup {NULL}
  IN  {[A0("mysql_connect") EXCEPT !.host = h, !.ret = f,
          !.makes = Object("mysql", h, NULL, NULL, NULL)] :
         h \in Hosts, f \in Fresh(m)}
      \cup {[A0(fn) EXCEPT !.arg = l, !.db = "d1", !.sql = q] :
              fn \in {"mysql_close", "mysql_select_db", "mysql_query",
                      "mysql_db_query"}, l \in links, q \in {"update", ""}}

PgsqlCalls(m) ==
  LET links == Objects(m, "pgsql") \cup {NULL}
  IN  {[A0("pg_connect") EXCEPT !.host = h, !.db = "d1", !.ret = f,
          !.makes = Object("pgsql", h, "d1", NULL, NULL)] :
         h \in Hosts, f \in Fresh(m)}
      \cup {[A0(fn) EXCEPT !.arg = l, !.sql = q] :
              fn \in {"pg_close", "pg_query", "pg_query_params", "pg_prepare",
                      "pg_execute"}, l \in links, q \in {"update", ""}}

MysqliCalls(m) ==
  LET links == Objects(m, "mysqli")
      stmts == Objects(m, "mysqli_stmt")
      Stmt(q, l) == Object("mysqli_stmt", NULL, NULL, q, l)
  IN  {[A0("mysqli_construct") EXCEPT !.host = h, !.db = d, !.ret = f,
          !.makes = Object("mysqli", h, d, NULL, NULL)] :
         h \in Hosts, d \in {NULL, "d1"}, f \in Fresh(m)}
      \cup {[A0("mysqli_real_connect") EXCEPT !.arg = l, !.host = "h2",
               !.sets = Object("mysqli", "h2", NULL, NULL, NULL)] : l \in links}
      \cup {[A0("mysqli_select_db") EXCEPT !.arg = l, !.db = "d2",
               !.sets = [m.obj[l] EXCEPT !.db = "d2"]] : l \in links}
      \cup {[A0("mysqli_general_query") EXCEPT !.arg = l, !.sql = q, !.slow = b] :
              l \in links, q \in {"select1", ""}, b \in BOOLEAN}
      \cup {[A0(fn) EXCEPT !.arg = l] :
              fn \in {"mysqli_close", "mysqli_commit", "mysqli_options"}, l \in links}
      \cup {[A0("mysqli_prepare") EXCEPT !.arg = l, !.sql = q, !.ret = f,
               !.makes = Stmt(q, l)] :
              l \in links, q \in {"select1", "update"}, f \in Fresh(m)}
      \cup {[A0("mysqli_stmt_init") EXCEPT !.arg = l, !.ret = f,
               !.makes = Stmt(NULL, l)] : l \in links, f \in Fresh(m)}
      \cup {[A0("mysqli_stmt_construct") EXCEPT !.arg = f, !.link = l,
               !.sql = "select2", !.ret = NULL, !.sets = Stmt("select2", l)] :
              l \in links, f \in Fresh(m)}
      \cup {[A0("mysqli_stmt_prepare") EXCEPT !.arg = z, !.sql = q,
               !.sets = [m.obj[z] EXCEPT !.sql = q]] :
              z \in stmts, q \in {"select2", "update"}}
      \cup {[A0(fn) EXCEPT !.arg = z, !.slow = TRUE] :
              fn \in {"mysqli_stmt_bind_param", "mysqli_stmt_execute"}, z \in stmts}

PdoCalls(m) ==
  LET links == Objects(m, "pdo")
      Stmt(q, l, p) == [Object("pdostatement", NULL, NULL, q, l)
                          EXCEPT !.prepared = p]
  IN  {[A0("pdo_construct") EXCEPT !.arg = f, !.host = h,
          !.sets = Object("pdo", h, "d1", NULL, NULL)] :
         f \in Fresh(m), h \in Hosts}
      \cup {[A0("pdo_exec") EXCEPT !.arg = l, !.sql = q] :
              l \in links, q \in {"update", ""}}
      \cup {[A0(fn) EXCEPT !.arg = l, !.sql = q, !.ret = f, !.slow = TRUE,
               !.makes = Stmt(q, l, fn = "pdo_prepare")] :
              fn \in {"pdo_query", "pdo_prepare"}, l \in links,
              q \in {"select1", "update"}, f \in Fresh(m)}
      \cup {[A0("pdostatement_execute") EXCEPT !.arg = z, !.slow = b] :
              z \in Objects(m, "pdostatement"), b \in BOOLEAN}

RedisCalls(m) ==
  {[A0("redis_connect") EXCEPT !.arg = z, !.host = h, !.port = "6379",
      !.sets = Object("redis", h, "0", NULL, NULL)] :
     z \in Objects(m, "redis") \cup Fresh(m), h \in Hosts \cup {"/socket"}}
  \cup {[A0("redis_select") EXCEPT !.arg = z, !.db = "1",
           !.sets = [m.obj[z] EXCEPT !.db = "1"]] : z \in Objects(m, "redis")}
  \cup {[A0(fn) EXCEPT !.arg = z] :
          fn \in {"redis_close", "redis_function", "rediscluster_function"},
          z \in Objects(m, "redis")}

OtherCalls(m) ==
  {[A0(fn) EXCEPT !.sql = q] :
     fn \in {"sqlite_query_function", "sqlite_exec_or_query", "sqlite3",
             "sqlite3_querysingle", "mssql_query"}, q \in Sqls}
  \cup {A0(fn) : fn \in {"mongocollection_15", "mongodb_execute",
                         "memcache_function"}}
  \cup {[A0("memcached_add_server") EXCEPT !.host = h, !.port = "0"] :
          h \in Hosts \cup {NULL}}
  \cup {[A0("memcached_add_servers") EXCEPT
           !.servers = <<<<"h1", "11211">>, <<"/socket", "0">>>>]}
  \cup {[A0("oci_parse") EXCEPT !.sql = q, !.ret = f,
           !.makes = Object("oci", NULL, NULL, q, NULL)] :
          q \in {"select1", "update"}, f \in Fresh(m)}
  \cup {[A0("oci_execute") EXCEPT !.arg = z] : z \in Objects(m, "oci")}

DsCalls(m) ==
  CASE m.family = "mysql"  -> MysqlCalls(m)
    [] m.family = "mysqli" -> MysqliCalls(m)
    [] m.family = "pgsql"  -> PgsqlCalls(m)
    [] m.family = "pdo"    -> PdoCalls(m)
    [] m.family = "redis"  -> RedisCalls(m)
    [] m.family = "other"  -> OtherCalls(m)

\* The same call with arguments the function refuses, one that ends in a fatal
\* error, and one that fails, which leaves a link that should have been
\* connected without a host.
Outcomes(k) ==
  LET failed  == [k EXCEPT !.ok = FALSE, !.makes = NULL, !.sets = NULL,
                           !.ret = IF k.fn = "mysqli_stmt_construct" THEN NULL ELSE 0]
      connect == k.fn \in {"mysqli_real_connect", "redis_connect"}
  IN  {k, [failed EXCEPT !.parsed = FALSE], [failed EXCEPT !.caught = TRUE],
       [failed EXCEPT !.sets = IF connect THEN [k.sets EXCEPT !.host = NULL]
                               ELSE NULL]}

\* The object of a constructor, and of a method, is there before the call.
Allocated(m, k) ==
  IF k.sets # NULL /\ k.arg \notin DOMAIN m.obj
  THEN [m EXCEPT !.obj = nr_hashmap_update(@, k.arg, k.sets)] ELSE m

\* A statement whose prepare fails is of no use to the script any more.
Usable(k, o) == k.fn \in {"mysqli_stmt_prepare", "mysqli_stmt_construct"}
                => o.parsed = o.ok

DsInit == \E f \in DsFamilies : ds = DsStart(f)

DsCall ==
  /\ ds.calls < DsMaxCalls
  /\ ~ds.bailed
  /\ \E k \in DsCalls(ds) : \E o \in Outcomes(k) :
       /\ Usable(k, o)
       /\ ds' = Wrapper([Allocated(ds, o) EXCEPT !.calls = @ + 1, !.olds = 0,
                           !.open = 0, !.rec = NULL, !.did = NULL,
                           !.caught = FALSE, !.errors = 0], o)

\* The last reference to an object goes: its handle is free.  Statements hold
\* their link, and so does what the agent keeps of mysqli statements.
DsFree ==
  /\ ds.family \notin {"mysql", "other"}
  /\ ~ds.bailed
  /\ \E h \in DOMAIN ds.obj :
       /\ \A g \in DOMAIN ds.obj : ds.obj[g].link # h
       /\ \A q \in DOMAIN ds.queries : ds.queries[q].link # h
       /\ ds' = [ds EXCEPT !.obj = nr_hashmap_delete(@, h), !.rec = NULL,
                           !.did = NULL, !.olds = 0, !.open = 0, !.errors = 0]

DsNext == DsCall \/ DsFree

------------------------------------------------------------------------------
(* Properties.                                                             *)

\* What the agent keeps is keyed by the handles and names it makes, and a last
\* connection of pgsql that is not the default one is known.
DsTypeOK ==
  /\ \A k \in DOMAIN ds.conn : ds.conn[k].host \in Hosts \cup
                                  {"localhost", "unknown", "/socket"}
  /\ DOMAIN ds.queries \cup DOMAIN ds.links \subseteq DsHandles
  /\ \A l \in {ds.mysql_last_conn, ds.pgsql_last_conn} :
       l \notin {NULL} => l \in DOMAIN ds.conn
  /\ ~ds.generating

\* Every path of every wrapper calls the original exactly once, and a fatal
\* error of the original goes on after the wrapper has cleaned up.
DsTransparent ==
  ds.did # NULL => ds.olds = 1 /\ ds.bailed = ds.caught

\* A wrapper ends the segment it has started, also when the original bails out
\* (nr_php_txn_end_segment_sql: unless it was given an empty text).
DsSegmentsClosed == ds.open # 0 => ds.did.sql = "" /\ ds.open = 1

\* Executing a statement reports the text it was prepared with last, although
\* handles are used again.
StatementSql ==
  /\ ds.rec # NULL /\ ds.did # NULL
  /\ ds.did.fn \in {"mysqli_stmt_execute", "pdostatement_execute", "oci_execute"}
  /\ ds.did.made
  => ds.rec.sql = ds.did.sql

\* A call on a connection that has been opened is reported with the host of
\* that connection, although handles are used again.
InstanceOfLink ==
  /\ ds.family \in {"mysqli", "redis", "pdo", "mysql"}
  /\ ds.rec # NULL /\ ds.did # NULL /\ ds.caught = FALSE
  /\ ds.did.host # NULL /\ ds.rec.instance \notin {NULL}
  /\ ds.did.fn \notin {"rediscluster_function", "redis_connect"}
  => ds.rec.instance.host = IF ds.did.host = "/socket" THEN "localhost"
                            ELSE ds.did.host

\* A script does not notice that its queries are recorded, and what is recorded
\* is the query, on the connection it ran on (agent/php_internal_instrument.c).
SqlQueriesAreRecorded ==
  DsTypeOK /\ DsTransparent /\ DsSegmentsClosed /\ StatementSql /\ InstanceOfLink
=============================================================================
