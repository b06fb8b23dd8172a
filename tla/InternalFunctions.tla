------------------------- MODULE InternalFunctions -------------------------
(***************************************************************************)
(* src/agent/php_internal_instrument.c: how the agent gets between a PHP   *)
(* script and the functions of the PHP extensions.  For every function of  *)
(* a table there is a wrap record with an inner wrapper; wrapping replaces *)
(* the function's handler by an outer wrapper, a C function of its own     *)
(* which finds its wrap record through a global variable, and the record   *)
(* keeps the handler that was there.                                       *)
(*                                                                         *)
(* The inner wrappers themselves are in Datastores and Externals.  Here a  *)
(* function is its full name <<class, function>>, split at "::" as         *)
(* nr_php_class_name_from_full_name does, with class "" for none.          *)
(***************************************************************************)
EXTENDS AgentBase

CONSTANT FnTable       \* the functions a run follows, in the table's order

FnSample == Range(FnTable)

------------------------------------------------------------------------------
(* The wrap records.  Except for the methods of the subclasses of PDO each *)
(* record has an outer wrapper, and a global, of its own.                  *)

WrapRec(class, f, inner, extra, outer) ==
  [full_name |-> <<class, f>>, inner |-> inner, extra |-> extra,
   outer |-> outer, disabled |-> (f = "call_user_func_array")]

Ops(class, fs, inner, extra) ==
  {WrapRec(class, f, inner, extra, <<class, f>>) : f \in fs}

Recs(class, fs, inner) == Ops(class, fs, inner, "")

\* Methods that are listed with their inner wrappers.
Listed(class, ms) == UNION {Recs(class, {m[1]}, m[2]) : m \in ms}

\* Methods whose operation has the name of the method.
OpNamed(class, fs, inner) == UNION {Ops(class, {f}, inner, f) : f \in fs}

\* Functions whose inner wrapper has the name of the function.
Same(fs) == {WrapRec("", f, f, "", <<"", f>>) : f \in fs}

MysqliMethods ==
  {<<"__construct", "mysqli_construct">>, <<"commit", "mysqli_commit">>,
   <<"multi_query", "mysqli_general_query">>,
   <<"query", "mysqli_general_query">>,
   <<"real_query", "mysqli_general_query">>,
   <<"options", "mysqli_options">>, <<"prepare", "mysqli_prepare">>,
   <<"real_connect", "mysqli_real_connect">>,
   <<"select_db", "mysqli_select_db">>,
   <<"stmt_init", "mysqli_stmt_init">>}

MysqliStmtMethods ==
  {<<"__construct", "mysqli_stmt_construct">>,
   <<"bind_param", "mysqli_stmt_bind_param">>,
   <<"execute", "mysqli_stmt_execute">>,
   <<"prepare", "mysqli_stmt_prepare">>}

MysqlFunctions ==
  Same({"mysql_select_db", "mysql_close", "mysql_connect", "mysql_query",
        "mysql_db_query", "mysqli_close", "mysqli_options", "mysqli_prepare",
        "mysqli_real_connect", "mysqli_select_db", "mysqli_stmt_init",
        "mysqli_commit", "mysqli_stmt_bind_param", "mysqli_stmt_execute",
        "mysqli_stmt_prepare"})
  \cup Recs("", {"mysql_selectdb"}, "mysql_select_db")
  \cup Recs("", {"mysql_pconnect"}, "mysql_connect")
  \cup Recs("", {"mysql_unbuffered_query"}, "mysql_query")
  \cup Recs("", {"mysqli_connect"}, "mysqli_construct")
  \cup Recs("", {"mysqli_multi_query", "mysqli_query", "mysqli_real_query"},
            "mysqli_general_query")
  \cup Listed("mysqli", MysqliMethods) \cup Listed("mysqli_stmt", MysqliStmtMethods)

MemcacheFunctions ==
  LET Plain(class, fs, op) == Ops(class, fs, "memcache_function", op)
  IN  Plain("", {"memcache_connect", "memcache_pconnect"}, "connect")
      \cup Plain("", {"memcache_add"}, "add")
      \cup Plain("", {"memcache_set"}, "set")
      \cup Plain("", {"memcache_replace"}, "replace")
      \cup Plain("", {"memcache_get"}, "get")
      \cup Plain("", {"memcache_delete"}, "delete")
      \cup Plain("", {"memcache_increment"}, "incr")
      \cup Plain("", {"memcache_decrement"}, "decr")
      \cup Plain("memcache", {"connect", "pconnect"}, "connect")
      \cup Plain("memcache", {"increment"}, "incr")
      \cup Plain("memcache", {"decrement"}, "decr")
      \cup OpNamed("memcache", {"add", "set", "replace", "get", "delete"}, "memcache_function")

MemcachedFunctions ==
  LET Plain(fs, op) == Ops("memcached", fs, "memcache_function", op)
  IN  Plain({"add", "addbykey"}, "add")
      \cup Plain({"append", "appendbykey", "cas", "casbykey", "prepend",
                  "prependbykey", "replace", "replacebykey"}, "replace")
      \cup Plain({"decrement"}, "decr") \cup Plain({"increment"}, "incr")
      \cup Plain({"delete", "deletebykey"}, "delete")
      \cup Plain({"get", "getbykey", "getdelayed", "getdelayedbykey",
                  "getmulti", "getmultibykey"}, "get")
      \cup Plain({"set", "setbykey", "setmulti", "setmultibykey"}, "set")
      \cup Recs("memcached", {"addserver"}, "memcached_add_server")
      \cup Recs("memcached", {"addservers"}, "memcached_add_servers")

RedisCommandsAtoR ==
  {"append", "bitcount", "bitop", "bitpos", "decr", "decrby", "del",
  "delete", "dbsize", "eval", "evalsha", "exec", "exists", "expire",
  "expireat", "flushall", "flushdb", "geoadd", "geodist", "geohash",
  "geopos", "georadius", "georadius_ro", "georadiusbymember",
  "georadiusbymember_ro", "get", "getbit", "getrange", "getset", "hdel",
  "hexists", "hget", "hgetall", "hincrby", "hincrbyfloat", "hkeys", "hlen",
  "hmget", "hmset", "hset", "hsetnx", "hstrlen", "hvals", "incr", "incrby",
  "incrbyfloat", "keys", "lget", "lindex", "linsert", "llen", "lpop",
  "lpush", "lpushx", "lrange", "lrem", "lremove", "lset", "ltrim", "mget",
  "migrate", "move", "mset", "msetnx", "persist", "pexpire", "pexpireat",
  "pfadd", "pfcount", "pfmerge", "ping", "psetex", "pttl", "publish",
  "randomkey"}

RedisCommandsRtoZ ==
  {"rawcommand", "rename", "renamenx", "rpop", "rpoplpush", "rpush",
  "rpushx", "sadd", "scard", "sdiff", "sdiffstore", "set", "setbit",
  "setex", "setnx", "setrange", "sinter", "sinterstore", "sismember",
  "smembers", "smismember", "smove", "spop", "srandmember", "srem",
  "strlen", "sunion", "sunionstore", "swapdb", "time", "ttl", "type",
  "unlink", "xack", "xadd", "xclaim", "xdel", "xgroup", "xinfo", "xlen",
  "xpending", "xrange", "xread", "xreadgroup", "xrevrange", "xtrim", "zadd",
  "zcard", "zcount", "zincrby", "zinterstore", "zlexcount", "zpopmax",
  "zpopmin", "zrange", "zrangebylex", "zrangebyscore", "zrank", "zrem",
  "zremrangebylex", "zremrangebyrank", "zremrangebyscore", "zrevrange",
  "zrevrangebylex", "zrevrangebyscore", "zrevrank", "zscore", "zunionstore"}
RedisConnections ==
  OpNamed("redis", {"connect", "pconnect", "open", "popen"}, "redis_connect")
  \cup Ops("redis", {"close"}, "redis_close", "close")
  \cup Ops("redis", {"select"}, "redis_select", "select")

RedisFunctions ==
  OpNamed("redis", RedisCommandsAtoR \cup RedisCommandsRtoZ, "redis_function")

\* A cluster has the same commands, but for a few.
RedisClusterAtoR ==
  OpNamed("rediscluster", RedisCommandsAtoR \ {"migrate", "move", "lremove", "delete"},
        "rediscluster_function")

RedisClusterRtoZ ==
  OpNamed("rediscluster", RedisCommandsRtoZ \ {"swapdb"}, "rediscluster_function")

PgsqlAndSqliteFunctions ==
  Same({"pg_close", "pg_connect", "pg_execute", "pg_prepare", "pg_query",
        "pg_query_params"})
  \cup Recs("", {"pg_pconnect"}, "pg_connect")
  \cup Recs("", {"sqlite_query", "sqlite_unbuffered_query"},
            "sqlite_query_function")
  \cup Recs("", {"sqlite_exec"}, "sqlite_exec_or_query")
  \cup Recs("sqlitedatabase", {"query", "unbufferedquery"},
            "sqlite_query_function")
  \cup Recs("sqlitedatabase", {"queryexec"}, "sqlite_exec_or_query")
  \cup Recs("sqlite3", {"query", "exec"}, "sqlite3")
  \cup Recs("sqlite3", {"querysingle"}, "sqlite3_querysingle")

PdoClasses == {"pdo", "pdo_firebird", "pdo_mysql", "pdo_odbc", "pdo_pgsql", "pdo_sqlite"}
PdoMethods == {<<"__construct", "pdo_construct">>, <<"query", "pdo_query">>,
               <<"exec", "pdo_exec">>, <<"prepare", "pdo_prepare">>}

\* Since PHP 8.4 PDO has subclasses; the records of a method and of its
\* copies in the subclasses name the same outer wrapper and so the same global.
PdoFunctions ==
  UNION {{WrapRec(class, m[1], m[2], "", <<"pdo", m[1]>>) : m \in PdoMethods} : class \in PdoClasses}

OtherFunctions ==
  Same({"curl_exec", "curl_setopt", "curl_setopt_array", "curl_init",
        "curl_multi_add_handle", "curl_multi_remove_handle",
        "curl_multi_exec", "call_user_func_array", "mssql_query", "oci_parse",
        "oci_execute", "file_get_contents", "dl"})
  \cup Recs("pdostatement", {"execute"}, "pdostatement_execute")
  \cup OpNamed("mongocollection", {"find", "findone", "insert", "remove", "save",
                                  "update", "group"}, "mongocollection_15")
  \cup Recs("mongodb", {"execute"}, "mongodb_execute")
  \cup Recs("httprequest", {"send"}, "httprequest_send")
  \cup Recs("", {"flush", "ob_flush", "ob_clean", "ob_end_clean",
                 "ob_end_flush", "ob_get_clean", "ob_get_flush",
                 "ob_implicit_flush", "ob_gzhandler"}, "ob_flush_common")
  \cup Recs("soapclient", {"__dorequest"}, "soapclient_dorequest")
  \cup Recs("", {"set_exception_handler", "restore_exception_handler"},
            "exception_common")

nr_php_generate_internal_wrap_records ==
  UNION {MysqlFunctions, MemcacheFunctions, MemcachedFunctions,
         RedisConnections, RedisFunctions, RedisClusterAtoR, RedisClusterRtoZ,
         PgsqlAndSqliteFunctions, PdoFunctions, OtherFunctions}

RecordOf(f) ==
  CHOOSE w \in nr_php_generate_internal_wrap_records : w.full_name = f

------------------------------------------------------------------------------
(* One PHP process.                                                        *)

VARIABLE fns   \* the function tables, the wrap records, the last call
fnVars == <<fns>>

\* A method that a class inherits is a copy with the handler of the parent's.
OriginalOf(f) == IF RecordOf(f).inner \in {"pdo_construct", "pdo_query",
                                           "pdo_exec", "pdo_prepare"}
                 THEN <<"pdo", f[2]>> ELSE f

Original(f) == [kind |-> "original", of |-> OriginalOf(f)]
Outer(w)    == [kind |-> "outer", of |-> w]

ASSUME FnAssumption ==
  /\ FnTable \in Seq({w.full_name : w \in nr_php_generate_internal_wrap_records})
  /\ \A f \in FnSample : NULL \notin {f, Original(f)}

\* The functions a process may have: a function may be missing, because its
\* extension is not loaded, may be defined by the script's own code or may be
\* one of disable_functions.
FnTypes == {"internal", "absent", "user", "disabled"}

FnStart(types) ==
  [type    |-> types,
   phase   |-> "loaded",  \* then "running", then "over"
   next    |-> Len(FnTable),   \* records that MINIT has yet to look at
   handler |-> [f \in FnSample |-> Original(f)],
   wrapped |-> [f \in FnSample |-> FALSE],
   off     |-> [f \in FnSample |-> RecordOf(f).disabled],
   old     |-> [f \in FnSample |-> NULL],
   global  |-> [o \in {RecordOf(f).outer : f \in FnSample} |-> NULL],
   cufa    |-> NULL,      \* cufa_callback
   called  |-> NULL]      \* what the last call came to

WrapTwice(s, f) ==      \* mutant: a record that has been wrapped is wrapped again
  IF s.type[f] # "internal" THEN s
  ELSE [s EXCEPT !.global[RecordOf(f).outer] = f,
                 !.old[f] = s.handler[f],
                 !.handler[f] = Outer(RecordOf(f).outer),
                 !.wrapped[f] = TRUE]

nr_php_wrap_internal_function(s, f) ==
  IF s.wrapped[f] \/ s.type[f] # "internal" THEN s
  ELSE [s EXCEPT !.global[RecordOf(f).outer] = f,
                 !.old[f] = s.handler[f],
                 !.handler[f] = Outer(RecordOf(f).outer),
                 !.wrapped[f] = TRUE]

\* One turn of the loop over the records, the last of the table first.
nr_php_add_internal_instrumentation(s) ==
  LET f == FnTable[s.next]
      t == [s EXCEPT !.next = @ - 1]
  IN  IF ~s.wrapped[f] /\ ~s.off[f] THEN nr_php_wrap_internal_function(t, f) ELSE t

nr_php_add_call_user_func_array_pre_callback(s, callback) ==
  LET c == <<"", "call_user_func_array">>
      t == [s EXCEPT !.cufa = callback]
  IN  IF c \notin FnSample THEN t
      ELSE nr_php_wrap_internal_function(
             [t EXCEPT !.off[c] = (callback = NULL)], c)

\* What a handler does: the original it reaches, NULL if it never gets there;
\* the function whose supportability metric is counted, and whether the
\* callback of call_user_func_array runs.
Reaches(s, h) ==
  IF h.kind = "original" THEN h.of
  ELSE LET w == s.global[h.of]
       IN  IF w = NULL \/ s.old[w] = NULL THEN NULL
           ELSE IF s.old[w].kind = "original" THEN s.old[w].of ELSE NULL

nr_php_instrument_delegate(s, f, recording) ==
  LET h == s.handler[f]
      w == IF h.kind = "outer" THEN s.global[h.of] ELSE NULL
      inner == w # NULL /\ recording
  IN  [fn |-> f, reached |-> Reaches(s, h),
       counted |-> IF inner THEN w ELSE NULL,
       callback |-> IF inner /\ f = <<"", "call_user_func_array">>
                    THEN s.cufa ELSE NULL]

nr_php_destroy_internal_wrap_records(s) ==
  [s EXCEPT !.global = [o \in DOMAIN s.global |-> NULL]]

FnInit == \E types \in [FnSample -> FnTypes] : fns = FnStart(types)

\* Until the loop of MINIT is over nothing else happens.
FnMinit ==
  /\ fns.phase = "loaded"
  /\ fns' = IF fns.next > 0 THEN nr_php_add_internal_instrumentation(fns)
            ELSE [fns EXCEPT !.phase = "running"]

\* A framework that names transactions with call_user_func_array is detected.
FnFramework == \E callback \in {NULL, "callback"} :
  /\ fns.phase = "running"
  /\ fns' = [nr_php_add_call_user_func_array_pre_callback(fns, callback)
               EXCEPT !.called = NULL]

FnRequestEnd == fns.phase = "running" /\ fns' = [fns EXCEPT !.cufa = NULL, !.called = NULL]

FnCall == \E f \in FnSample, recording \in BOOLEAN :
  /\ fns.phase = "running" /\ fns.type[f] \in {"internal", "disabled"}
  /\ fns' = [fns EXCEPT !.called = nr_php_instrument_delegate(fns, f, recording)]

FnMshutdown ==
  /\ fns.phase = "running"
  /\ fns' = [nr_php_destroy_internal_wrap_records(fns)
               EXCEPT !.phase = "over", !.called = NULL]

FnNext == FnMinit \/ FnMshutdown \/ FnFramework \/ FnRequestEnd \/ FnCall

FnSpec == FnInit /\ [][FnNext]_fnVars

------------------------------------------------------------------------------
(* Properties.                                                             *)

\* However often and in whatever order the functions have been wrapped, and
\* though the methods of the subclasses of PDO share their outer wrapper and
\* its global, a call of a function reaches that function's own original
\* handler (nr_php_wrap_internal_function, nr_php_instrument_delegate).
FnReachesOriginal ==
  fns.called # NULL => fns.called.reached = OriginalOf(fns.called.fn)
=============================================================================
