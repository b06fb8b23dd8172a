------------------------------- MODULE Predis -------------------------------
(***************************************************************************)
(* The commands that Predis sends to Redis servers (lib_predis.c).         *)
(*                                                                         *)
(* A command is written by one method of a connection and answered in      *)
(* another; predis_commands has the time it was written at by the handle   *)
(* of the command object, relative to the start of the transaction, and    *)
(* is never told of an answer or of an object that is gone.  The instance  *)
(* of a connection is saved when a client is made, or, for connections of  *)
(* a cluster, when the cluster first hands out a connection.  Pipelines    *)
(* answer their commands under an asynchronous context, of which there is  *)
(* a stack from PHP 8.0 on and one with a saved predecessor before.        *)
(***************************************************************************)
EXTENDS Datastores

CONSTANTS PrHandles,     \* handles of connections
          PrMaxSteps     \* calls of a script

VARIABLE pr
prVars == <<pr>>

PrStart(build) ==
  [build |-> build,
   txn |-> [start |-> 0],               \* the transaction, or NULL
   now |-> 0,
   conn |-> nr_hashmap_create,          \* datastore_connections
   commands |-> nr_hashmap_create,      \* predis_commands: times by handle
   ctxs |-> <<>>,                       \* predis_ctxs; before 8.0 predis_ctx is its last
   frames |-> <<>>,                     \* the pipelines that run (external)
   conns |-> nr_hashmap_create,         \* the connections themselves (external)
   reused |-> {},                       \* ... with the handle of an earlier one that was saved
   written |-> nr_hashmap_create,       \* when a command was written, and in which transaction
   broken |-> FALSE,                    \* a transaction ended inside of a pipeline
   rec |-> NULL]                        \* the last recorded command

Rel(p) == p.now - p.txn.start           \* nr_txn_now_rel

------------------------------------------------------------------------------
(* Instances.  The parameters of a connection are of one of several kinds; *)
(* what they say is a record of fields.                                    *)

NoFields == [scheme |-> NULL, host |-> NULL, port |-> NULL, path |-> NULL, database |-> NULL]

Default(v, d) == IF v = NULL THEN d ELSE v

\* The scheme is compared over its own length only: an empty one is unix, too.
nr_predis_create_datastore_instance_from_fields(f) ==
  LET db == Default(f.database, "0")
  IN  IF f.scheme \in {"unix", ""} THEN nr_datastore_instance_create("localhost", f.path, db)
      ELSE nr_datastore_instance_create(Default(f.host, "127.0.0.1"), Default(f.port, "6379"), db)

\* An array has values of any type; of those only texts, or numbers for the port,
\* are taken, and any scalar for the database.
nr_predis_create_datastore_instance_from_array(f) ==
  nr_predis_create_datastore_instance_from_fields(f)

nr_predis_create_datastore_instance_from_parameters_object(f) ==
  nr_predis_create_datastore_instance_from_fields(f)

\* parse_url takes no database; it comes from the query of the URL.
nr_predis_create_datastore_instance_from_string(url) ==
  IF url.fields = NULL THEN NULL
  ELSE nr_predis_create_datastore_instance_from_fields(
         [url.fields EXCEPT !.database = url.query])

FromParams(params) ==
  CASE params.kind = "string" -> nr_predis_create_datastore_instance_from_string(params)
    [] params.kind = "array"  -> nr_predis_create_datastore_instance_from_array(params.fields)
    [] params.kind = "object" -> nr_predis_create_datastore_instance_from_parameters_object(params.fields)
    [] OTHER                  -> nr_predis_create_datastore_instance_from_fields(NoFields)

\* A callable is called, and what it returns is taken in its place.
nr_predis_create_datastore_instance_from_connection_params(params) ==
  IF params.kind = "callable" THEN FromParams(params.returns) ELSE FromParams(params)

nr_predis_save_datastore_instance(p, conn, params) ==
  nr_php_datastore_instance_save(p, nr_php_datastore_make_key(conn, "predis"),
    nr_predis_create_datastore_instance_from_connection_params(params))

nr_predis_retrieve_datastore_instance(p, conn) ==
  nr_php_datastore_instance_retrieve(p, nr_php_datastore_make_key(conn, "predis"))

nr_php_datastore_has_conn(p, key) == key # NULL /\ nr_hashmap_has(p.conn, key)

\* The connection that the original returns.
nr_predis_aggregateconnection_getConnection(p, conn) ==
  IF nr_php_datastore_has_conn(p, nr_php_datastore_make_key(conn, "predis")) THEN p
  ELSE nr_predis_save_datastore_instance(p, conn, p.conns[conn].params)

\* A client with one connection; one with a cluster waits for getConnection.
nr_predis_client_construct(p, conn, params) ==
  IF conn = NULL THEN p ELSE nr_predis_save_datastore_instance(p, conn, params)

------------------------------------------------------------------------------
(* Commands and pipelines.                                                 *)

nr_predis_connection_writeRequest(p, cmd) ==
  [p EXCEPT !.commands = nr_hashmap_update(@, cmd, Rel(p))]

nr_time_duration(start, stop) == IF stop < start THEN 0 ELSE stop - start

CurrentCtx(p) == IF p.ctxs = <<>> THEN NULL ELSE Last(p.ctxs)

nr_predis_connection_readResponse(p, conn, cmd) ==
  LET start == nr_hashmap_get(p.commands, cmd)
  IN  IF start = NULL THEN p
      ELSE [p EXCEPT !.rec = [cmd |-> cmd, conn |-> conn, written |-> TRUE, start |-> start,
                              duration |-> nr_time_duration(start, Rel(p)),
                              instance |-> nr_predis_retrieve_datastore_instance(p, conn),
                              ctx |-> CurrentCtx(p)]]

nr_predis_pipeline_executePipeline(p, ctx) == [p EXCEPT !.ctxs = Append(@, ctx)]

predis_executePipeline_handle_stack(p) ==
  [p EXCEPT !.ctxs = IF @ = <<>> THEN @ ELSE Front(@)]

nr_predis_pipeline_executePipeline_after(p) == predis_executePipeline_handle_stack(p)

\* Mutant: an exception leaves the context of the pipeline where it is.
CleanNothing(p) == p

nr_predis_pipeline_executePipeline_clean(p) == predis_executePipeline_handle_stack(p)

\* Before 8.0: the predecessor is restored, whatever happened inside.
RestoreContext(p, frame) == [p EXCEPT !.ctxs = frame.before]

\* A segment from before the call until after it, or until an exception.
nr_predis_webdisconnection_executeCommand(p, conn, cmd) ==
  [p EXCEPT !.rec = [cmd |-> cmd, conn |-> conn, written |-> FALSE, start |-> Rel(p), duration |-> 0,
                     instance |-> nr_predis_retrieve_datastore_instance(p, conn), ctx |-> NULL]]

------------------------------------------------------------------------------
(* Scripts.  A command object is named by its handle.                      *)

Commands == {1, 2}

Fields(host) == [NoFields EXCEPT !.host = host]
PrParams == {[kind |-> "array", fields |-> Fields("h1")],
             [kind |-> "object", fields |-> [Fields("h2") EXCEPT !.port = "7000"]],
             [kind |-> "string", fields |-> Fields("h3"), query |-> "5"],
             [kind |-> "string", fields |-> NULL, query |-> NULL],
             [kind |-> "string", fields |-> [NoFields EXCEPT !.scheme = "unix", !.path = "/s"], query |-> NULL],
             [kind |-> "none"],
             [kind |-> "callable", returns |-> [kind |-> "array", fields |-> Fields("h1")]]}

PrInit == \E build \in {"7", "8"} : pr = PrStart(build)

PrMay == pr.now < PrMaxSteps
Tick == [pr EXCEPT !.now = @ + 1, !.rec = NULL]
PrRecording == pr.txn # NULL

\* A connection of a client or of a cluster is made; its handle may be one that
\* another connection had.
NewConn(params, cluster) ==
  [params |-> params, cluster |-> cluster, seen |-> PrRecording]

nr_predis_client ==
  /\ PrMay
  /\ \E c \in PrHandles, params \in PrParams, cluster \in BOOLEAN :
       LET made == [Tick EXCEPT
                      !.conns = nr_hashmap_update(@, c, NewConn(params, cluster)),
                      !.reused = IF nr_php_datastore_has_conn(pr, nr_php_datastore_make_key(c, "predis"))
                                 THEN @ \cup {c} ELSE @]
       IN  pr' = IF ~PrRecording THEN made
                 ELSE nr_predis_client_construct(made, IF cluster THEN NULL ELSE c, params)

PrGetConnection ==
  /\ PrMay /\ PrRecording
  /\ \E c \in DOMAIN pr.conns :
       pr.conns[c].cluster /\ pr' = nr_predis_aggregateconnection_getConnection(Tick, c)

PrWrite ==
  /\ PrMay /\ pr.conns # nr_hashmap_create
  /\ \E cmd \in Commands :
       LET w == [Tick EXCEPT !.written = nr_hashmap_update(@, cmd, [at |-> pr.now + 1, txn |-> pr.txn])]
       IN  pr' = IF PrRecording THEN nr_predis_connection_writeRequest(w, cmd) ELSE w

PrRead ==
  /\ PrMay /\ PrRecording
  /\ \E c \in DOMAIN pr.conns, cmd \in DOMAIN pr.written :
       pr' = nr_predis_connection_readResponse(Tick, c, cmd)

PrWebdis ==
  /\ PrMay /\ PrRecording
  /\ \E c \in DOMAIN pr.conns, cmd \in Commands :
       pr' = nr_predis_webdisconnection_executeCommand(Tick, c, cmd)

\* ctx: the name of the context, made from the time.
PrPipeline ==
  /\ PrMay /\ Len(pr.frames) < 2          \* bound: pipelines nest once
  /\ LET frame == [ctx |-> pr.now, seen |-> PrRecording, txn |-> pr.txn, before |-> pr.ctxs]
         f     == [Tick EXCEPT !.frames = Append(@, frame)]
     IN  pr' = IF PrRecording THEN nr_predis_pipeline_executePipeline(f, pr.now) ELSE f

\* From 8.0 on the callbacks are called in the transaction of the beginning; when
\* the transaction is another the segment of the call is gone.
PrPipelineEnds ==
  /\ PrMay /\ pr.frames # <<>>
  /\ LET frame == Last(pr.frames)
         f     == [Tick EXCEPT !.frames = Front(@)]
     IN  \/ pr.build = "7" /\ pr' = IF frame.seen THEN RestoreContext(f, frame) ELSE f
         \/ /\ pr.build = "8"
            /\ IF frame.seen /\ PrRecording /\ frame.txn = pr.txn
               THEN \/ pr' = nr_predis_pipeline_executePipeline_after(f)
                    \/ pr' = nr_predis_pipeline_executePipeline_clean(f)
               ELSE pr' = f

PrTransaction ==
  /\ PrMay
  /\ pr' = [Tick EXCEPT !.txn = IF PrRecording THEN NULL ELSE [start |-> pr.now],
                        !.broken = @ \/ (PrRecording /\ pr.frames # <<>>)]

PrNext == nr_predis_client \/ PrGetConnection \/ PrWrite \/ PrRead \/ PrWebdis \/ PrPipeline
          \/ PrPipelineEnds \/ PrTransaction

------------------------------------------------------------------------------
(* Properties.                                                             *)

\* A command of a pipeline is recorded under the context of the innermost
\* pipeline that runs and that the agent saw begin, one outside of pipelines under
\* none, unless a transaction ended inside of a pipeline (from PHP 8.0 on).
InnermostContext ==
  LET seen == SelectSeq(pr.frames, LAMBDA f : f.seen)
  IN  pr.build = "7" \/ ~pr.broken =>
        CurrentCtx(pr) = IF seen = <<>> THEN NULL ELSE Last(seen).ctx

\* A command that was written in this transaction is recorded from the time it was
\* written to the time of the answer.
TimedFromWrite ==
  pr.rec # NULL /\ pr.rec.written =>
    LET w == pr.written[pr.rec.cmd]
    IN  w.txn = pr.txn => /\ pr.rec.start = w.at - pr.txn.start
                          /\ pr.rec.start + pr.rec.duration = Rel(pr)

\* A command is recorded with the server of its connection, though handles are
\* used again; unless the one with the used handle is of a cluster, was made
\* between transactions, or has parameters that cannot be understood: then the
\* server of the earlier connection is recorded.
ServerOfConnection ==
  pr.rec # NULL /\ pr.rec.instance # NULL =>
    LET c == pr.conns[pr.rec.conn]
        own == nr_predis_create_datastore_instance_from_connection_params(c.params)
    IN  (pr.rec.conn \in pr.reused => c.seen /\ ~c.cluster /\ own # NULL)
        => pr.rec.instance = own

RedisCommandsAreRecorded == InnermostContext /\ TimedFromWrite /\ ServerOfConnection

\* A script does not notice that its queries are recorded, and what is recorded
\* is the query, on the connection it ran on (agent/php_internal_instrument.c); a
\* Redis command is recorded with its own time, server and pipeline
\* (agent/lib_predis.c).
QueriesAreRecorded == SqlQueriesAreRecorded /\ RedisCommandsAreRecorded
=============================================================================
