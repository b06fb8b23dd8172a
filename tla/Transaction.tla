----------------------------- MODULE Transaction -----------------------------
(***************************************************************************)
(* axiom/nr_txn.c: a transaction, as operators on a record t.  Each        *)
(* operator is a function of the source with its guards; the modules that  *)
(* have behaviour (Request, TraceChain) apply them.                        *)
(*                                                                         *)
(* Names, paths and messages are values without structure; a transaction's *)
(* name keeps the two things its prefix says (web or other, and the kind   *)
(* of path).  Metrics are the set of names that were added.  Times are     *)
(* small numbers.                                                          *)
(***************************************************************************)
EXTENDS DistributedTrace

\* nr_path_type_t (nr_txn.h), the values in their order.
PathTypes == {"UNKNOWN", "URI", "STATUS_CODE", "ACTION", "FUNCTION", "CUSTOM"}
PathRank ==
  [p \in PathTypes |-> CASE p = "UNKNOWN" -> 0 [] p = "URI" -> 1 [] p = "STATUS_CODE" -> 2
                         [] p = "ACTION" -> 3 [] p = "FUNCTION" -> 4 [] p = "CUSTOM" -> 5]

---------------------------------------------------------------------------
(* Options and security settings.                                           *)

\* Policies and the connect reply can only take away: what the policies deny,
\* and what the reply says is not collected (for traces and errors, what it
\* does not say is collected).
nr_txn_enforce_security_settings(opts, reply, policies) ==
  [opts EXCEPT
     !.recordsql = CASE policies.record_sql = FALSE -> "NONE"
                     [] policies.record_sql = TRUE /\ @ = "RAW" -> "OBFUSCATED"
                     [] OTHER -> @,
     !.allow_raw = @ /\ policies.allow_raw # FALSE,
     !.custom_events = @ /\ policies.custom_events # FALSE /\ reply.custom_events # FALSE,
     !.custom_parameters = @ /\ policies.custom_parameters # FALSE,
     !.analytics_events = @ /\ reply.analytics_events # FALSE,
     !.span_events = @ /\ reply.span_events # FALSE,
     !.tt = @ /\ reply.traces = TRUE,
     !.explain = @ /\ reply.traces = TRUE,
     !.slowsql = @ /\ reply.traces = TRUE,
     !.err = @ /\ reply.errors = TRUE,
     !.error_events = @ /\ reply.error_events # FALSE]

\* An event type whose harvest limit is zero is off.
BeginOptions(app, opts) ==
  LET limited == [opts EXCEPT
        !.analytics_events = @ /\ app.limits.analytics_events > 0,
        !.custom_events = @ /\ app.limits.custom_events > 0,
        !.error_events = @ /\ app.limits.error_events > 0,
        !.span_events = @ /\ app.limits.span_events > 0,
        !.apdex_t = app.apdex_t,
        !.tt_threshold = IF opts.tt_is_apdex_f THEN 4 * app.apdex_t ELSE @]
      secured == nr_txn_enforce_security_settings(limited, app.reply, app.policies)
  IN [secured EXCEPT !.request_params = @ /\ ~app.lasp]

\* The transaction's own identity, and the sampling decision of the application.
BeginTrace(app, opts, guid, prio, sampled) ==
  LET ids == nr_distributed_trace_set_ids(nr_distributed_trace_create, guid,
                app.trusted_key, app.account_id, app.app_id)
      dt  == IF opts.otel
             THEN nr_distributed_trace_set_trace_id(ids, [id |-> <<"trace">> \o guid, len |-> 32], FALSE)
             ELSE nr_distributed_trace_set_trace_id(ids, [id |-> guid, len |-> 16], opts.pad)
  IN [dt EXCEPT !.sampled = sampled, !.priority = IF sampled THEN prio + 10 ELSE prio]

nr_txn_begin(app, opts, guid, prio, sampled) ==
  LET o == BeginOptions(app, opts)
  IN [opts |-> o, high_security |-> app.high_security, lasp |-> app.lasp,
      run |-> app.run, recording |-> TRUE, ignore |-> FALSE, complete |-> FALSE,
      ignore_apdex |-> FALSE, background |-> FALSE, frozen |-> FALSE,
      path_type |-> "UNKNOWN", path |-> NULL, name |-> NULL, error |-> NULL,
      metrics |-> {}, attrs |-> {}, custom_events |-> 0, logs |-> {}, packages |-> {},
      type |-> {}, queue_start |-> 0, match_filenames |-> {}, request_uri |-> NULL,
      cross_process |-> IF o.cat THEN "START" ELSE "DISABLED",
      cat |-> [client |-> NULL, guid |-> NULL, trip |-> NULL, ref |-> NULL, alt |-> {}],
      synthetics |-> NULL, rum_header |-> 0, rum_footer |-> 0, onetime |-> FALSE,
      span_queue |-> o.span_events /\ app.observer,
      composer |-> FALSE,
      dt |-> BeginTrace(app, opts, guid, prio, sampled)]

\* A metric is a tuple that begins with its name.
nr_txn_force_single_count(t, metric) == [t EXCEPT !.metrics = @ \union {<<metric>>}]

AddMetrics(t, S) == [t EXCEPT !.metrics = @ \union S]

nr_txn_is_synthetics(t) == "SYNTHETICS" \in t.type
nr_txn_is_cat(t) == t.type \intersect {"CAT_INBOUND", "CAT_OUTBOUND"} # {}
nr_txn_is_dt(t) == t.type \intersect {"DT_INBOUND", "DT_OUTBOUND"} # {}
nr_txn_is_sampled(t) == t.opts.dt /\ t.dt.sampled

nr_txn_should_create_span_events(t) ==
  (t.span_queue \/ t.dt.sampled) /\ t.opts.dt /\ t.opts.span_events

\* High security obfuscates SQL that the settings want raw.
nr_txn_sql_recording_level(t) ==
  IF t.opts.recordsql = "RAW" /\ t.high_security THEN "OBFUSCATED" ELSE t.opts.recordsql

---------------------------------------------------------------------------
(* The name.                                                                *)

nr_txn_set_path(t, path, ptype, okToOverwrite) ==
  IF \/ path = NULL
     \/ t.frozen
     \/ PathRank[ptype] < PathRank[t.path_type]
     \/ ptype = t.path_type /\ ~okToOverwrite
  THEN t
  ELSE [t EXCEPT !.path_type = ptype, !.path = path]

nr_txn_name_from_function(t, path) ==
  IF PathRank[t.path_type] >= PathRank["FUNCTION"] THEN t
  ELSE nr_txn_set_path(t, path, "FUNCTION", FALSE)

nr_txn_add_file_naming_pattern(t, pattern) ==
  IF t.recording THEN [t EXCEPT !.match_filenames = @ \union {pattern}] ELSE t

nr_txn_match_file(t, file) ==
  IF ~t.recording \/ PathRank[t.path_type] >= PathRank["ACTION"]
     \/ file \notin t.match_filenames
  THEN t ELSE nr_txn_set_path(t, file, "ACTION", FALSE)

nr_txn_is_current_path_named(t, path) == t.path = path

nr_txn_change_background_status(t, is_background) ==
  IF t.frozen THEN nr_txn_force_single_count(t, "background_status_change_prevented")
  ELSE [t EXCEPT !.background = is_background]

nr_txn_should_do_url_rules(path_type, background) ==
  ~background /\ path_type \in {"CUSTOM", "URI"}

\* What a set of rules does to a name: axiom/nr_rules.c.
Renamed(path) == <<"renamed">> \o path

nr_txn_apply_url_rules(t, rules) ==
  CASE rules = "ignore" -> [t EXCEPT !.ignore = TRUE]
    [] rules = "change" -> [t EXCEPT !.path = Renamed(@)]
    [] OTHER -> t

nr_txn_apply_txn_rules(t, rules) ==
  CASE rules = "ignore" -> [t EXCEPT !.ignore = TRUE]
    [] rules = "change" -> [t EXCEPT !.name.path = Renamed(@)]
    [] OTHER -> t

nr_txn_apply_segment_terms(t, terms) ==
  IF terms THEN [t EXCEPT !.name.path = <<"*">> \o @] ELSE t

nr_txn_update_apdex_if_key_txn(t, key_apdex) ==
  IF key_apdex = NULL THEN t
  ELSE [t EXCEPT !.opts.apdex_t = key_apdex,
                 !.opts.tt_threshold = IF t.opts.tt_is_apdex_f THEN 4 * key_apdex ELSE @]

\* The prefix says web or other and the kind; an unknown path has a fixed name.
FullName(t) ==
  [other |-> t.background, kind |-> t.path_type,
   path |-> IF t.path_type = "UNKNOWN" THEN <<"<unknown>">>
            ELSE IF t.path = NULL THEN <<"unknown">> ELSE t.path]

\* Mutant: every caller computes the name again.
FreezeAgain(t, app) ==
  IF t.ignore \/ app.run # t.run THEN [t |-> t, ok |-> FALSE]
  ELSE [t |-> [t EXCEPT !.name = FullName(t)], ok |-> TRUE]

\* The name is frozen before the application is looked up by its run: when it
\* has another run by now (nr_app_verify_id), there is no name, and there will
\* be none.  [t, ok]
nr_txn_freeze_name_update_apdex(t, app) ==
  LET frozen  == [t EXCEPT !.frozen = TRUE]
      ruled   == IF t.path # NULL /\ nr_txn_should_do_url_rules(t.path_type, t.background)
                 THEN nr_txn_apply_url_rules(frozen, app.url_rules) ELSE frozen
      named   == nr_txn_apply_txn_rules([ruled EXCEPT !.name = FullName(ruled)], app.txn_rules)
      whole   == nr_txn_update_apdex_if_key_txn(
                    nr_txn_apply_segment_terms(named, app.terms), app.key_apdex)
  IN IF t.ignore THEN [t |-> t, ok |-> FALSE]
     ELSE IF t.frozen THEN [t |-> t, ok |-> TRUE]
     ELSE IF app.run # t.run THEN [t |-> frozen, ok |-> FALSE]
     ELSE IF ruled.ignore THEN [t |-> ruled, ok |-> FALSE]
     ELSE IF named.ignore THEN [t |-> named, ok |-> FALSE]
     ELSE [t |-> whole, ok |-> TRUE]

---------------------------------------------------------------------------
(* Errors, attributes, events and logs.                                     *)

nr_txn_record_error_worthy(t, priority) ==
  t.opts.err /\ t.recording /\ (t.error # NULL => priority >= t.error.priority)

HighSecurityMessage == <<"Message removed by New Relic 'high_security' setting">>
PolicyMessage == <<"Message removed by New Relic security settings">>

\* Mutant: the policy is looked at, high security is not.
RecordErrorPolicyOnly(t, priority, errmsg, span) ==
  IF ~nr_txn_record_error_worthy(t, priority) THEN t
  ELSE [t EXCEPT !.error = [priority |-> priority, span |-> span,
                            msg |-> IF t.opts.allow_raw THEN errmsg ELSE PolicyMessage]]

\* The highest priority, and the latest of them.  span is the current segment.
nr_txn_record_error(t, priority, errmsg, span) ==
  LET secure == IF t.high_security THEN HighSecurityMessage ELSE errmsg
      msg    == IF t.opts.allow_raw THEN secure ELSE PolicyMessage
      spans  == nr_txn_should_create_span_events(t)
  IN IF errmsg = NULL \/ ~nr_txn_record_error_worthy(t, priority) \/ (spans /\ span = NULL)
     THEN t
     ELSE [t EXCEPT !.error = [priority |-> priority, msg |-> msg,
                               span |-> IF spans THEN span ELSE NULL]]

\* The attributes of the agent and their destinations, by kind.
AttributeDestinations ==
  [request_uri |-> {"trace", "error", "event"}, request_headers |-> {"trace", "error", "event"},
   request_referer |-> {"error"}, user_agent |-> {"trace", "error"},
   server_name |-> {"trace", "error"}, response_headers |-> {"trace", "error", "event"},
   status_code |-> {"trace", "error", "event"}, error_message |-> {"event"}]

nr_txn_set_attribute(t, name, value) ==
  IF value = NULL THEN t
  ELSE [t EXCEPT !.attrs = @ \union {[name |-> <<name>>, dests |-> AttributeDestinations[name]]}]

\* The URI without its parameters.
nr_txn_set_request_uri(t, uri) ==
  IF uri = NULL THEN t
  ELSE nr_txn_set_attribute([t EXCEPT !.request_uri = uri], "request_uri", uri)

nr_txn_set_http_status(t, code) ==
  IF code = 0 \/ t.background THEN t ELSE nr_txn_set_attribute(t, "status_code", code)

nr_txn_set_request_headers(t, referer, content_length) ==
  LET a == nr_txn_set_attribute(t, "request_referer", referer)
  IN IF content_length \in {NULL, 0} THEN a
     ELSE nr_txn_set_attribute(a, "request_headers", content_length)

nr_txn_add_user_custom_parameter(t, key) ==
  IF t.high_security \/ ~t.opts.custom_parameters THEN t
  ELSE [t EXCEPT !.attrs = @ \union
          {[name |-> <<"user", key>>, dests |-> {"trace", "error", "event", "browser", "log"}]}]

nr_txn_add_request_parameter(t, key, legacy_enable) ==
  IF key = NULL \/ t.high_security \/ t.lasp THEN t
  ELSE [t EXCEPT !.attrs = @ \union
          {[name |-> <<"request.parameters", key>>,
            dests |-> IF legacy_enable THEN {"trace", "error"} ELSE {}]}]

\* A request start in the future counts as no time in the queue.
nr_txn_queue_time(t, start) ==
  IF t.queue_start = 0 \/ t.queue_start > start THEN 0 ELSE start - t.queue_start

nr_txn_set_queue_start(t, x_request_start) ==
  IF x_request_start = NULL \/ x_request_start = 0 THEN t
  ELSE [t EXCEPT !.queue_start = x_request_start]

nr_txn_record_custom_event(t) ==
  IF ~t.recording \/ t.high_security \/ ~t.opts.custom_events THEN t
  ELSE [t EXCEPT !.custom_events = @ + 1]

\* Infinite and undefined values are refused.
nr_txn_add_custom_metric(t, name, value) ==
  IF ~t.recording \/ value \in {"nan", "inf"} THEN t ELSE AddMetrics(t, {<<"Custom", name>>})

nr_txn_log_forwarding_enabled(t) == t.opts.log_forwarding /\ ~t.high_security

nr_txn_log_forwarding_log_level_verify(t, level) ==
  level = NULL \/ level <= t.opts.log_level

\* The event names the trace of the moment it is recorded at.
log_event_set_linking_metadata(t, level, span) ==
  [level |-> level, trace |-> IF t.opts.dt THEN t.dt.trace_id ELSE NULL, span |-> span]

nr_txn_add_log_event(t, level, message, span) ==
  IF ~nr_txn_log_forwarding_enabled(t) \/ message = NULL THEN t
  ELSE IF ~nr_txn_log_forwarding_log_level_verify(t, level)
       THEN nr_txn_force_single_count(t, "Logging/Forwarding/Dropped")
  ELSE [t EXCEPT !.logs = @ \union {log_event_set_linking_metadata(t, level, span)}]

nr_txn_add_logging_metrics(t, level) ==
  IF t.opts.log_metrics
  THEN AddMetrics(t, {<<"Logging/lines">>, <<"Logging/lines", level>>}) ELSE t

nr_txn_record_log_event(t, level, message, span) ==
  nr_txn_add_logging_metrics(nr_txn_add_log_event(t, level, message, span), level)

\* Packages that were detected by file are not added once Composer's own list
\* has been collected.
nr_txn_add_php_package_from_source(t, package, source) ==
  IF package = NULL \/ (source = "LEGACY" /\ t.composer) THEN t
  ELSE [t EXCEPT !.packages = @ \union {[name |-> package, source |-> source]}]

nr_txn_ignore(t) == [t EXCEPT !.ignore = TRUE, !.recording = FALSE]

---------------------------------------------------------------------------
(* Cross application tracing.                                               *)

MaxAlternatePathHashes == 10

nr_txn_add_alternate_path_hash(t, hash) ==
  IF Cardinality(t.cat.alt) >= MaxAlternatePathHashes THEN t
  ELSE [t EXCEPT !.cat.alt = @ \union {hash}]

\* The hash of what the transaction is called at the moment.
nr_txn_current_path_hash(t) ==
  <<IF t.name # NULL THEN t.name.path ELSE IF t.path # NULL THEN t.path ELSE <<"<unknown>">>,
    t.cat.ref>>

nr_txn_get_path_hash(t) == nr_txn_add_alternate_path_hash(t, nr_txn_current_path_hash(t))

nr_txn_get_alternate_path_hashes(t) == t.cat.alt \ {nr_txn_current_path_hash(t)}

nr_txn_get_cat_trip_id(t) == IF t.cat.trip # NULL THEN t.cat.trip ELSE t.dt.txn_id

nr_txn_is_account_trusted(app, account_id) ==
  account_id > 0 /\ account_id \in app.trusted_accounts

---------------------------------------------------------------------------
(* Distributed tracing.                                                     *)

WebOrOther(t) == IF t.background THEN "allOther" ELSE "allWeb"

\* Two metrics, one for all callers of this kind and one for the background
\* state the transaction has at the moment.
nr_txn_create_dt_metrics(t, prefix) ==
  LET caller == IF t.dt.inbound.set
                THEN <<t.dt.inbound.type, t.dt.inbound.account_id, t.dt.inbound.app_id>>
                ELSE <<"Unknown", "Unknown", "Unknown">>
  IN AddMetrics(t, {<<prefix, caller, "all">>, <<prefix, caller, WebOrOther(t)>>})

\* The id of a segment exists only where span events are made.
nr_segment_ensure_id(t, segment) ==
  IF nr_txn_should_create_span_events(t) THEN segment ELSE NULL

\* [t, header]; a request from a segment without an id has a fresh one.
nr_txn_create_w3c_traceparent_header(t, segment, fresh) ==
  LET id     == nr_segment_ensure_id(t, segment)
      header == nr_distributed_trace_create_w3c_traceparent_header(
                   t.dt.trace_id, IF id = NULL THEN fresh ELSE id, t.dt.sampled)
  IN [t |-> nr_txn_force_single_count(t, IF header = NULL THEN "TraceContext/Create/Exception"
                                         ELSE "TraceContext/Create/Success"),
      header |-> header]

nr_txn_create_w3c_tracestate_header(t, segment, now) ==
  nr_distributed_trace_create_w3c_tracestate_header(
     t.dt, IF t.opts.span_events THEN nr_segment_ensure_id(t, segment) ELSE NULL,
     IF t.opts.analytics_events THEN t.dt.txn_id ELSE NULL, now)

\* [t, header]
nr_txn_create_distributed_trace_payload(t, segment, now) ==
  LET refused == \/ segment = NULL \/ ~t.opts.dt \/ t.opts.exclude_newrelic
                 \/ ~t.opts.span_events /\ ~t.opts.analytics_events
      text    == IF refused THEN NULL
                 ELSE nr_distributed_trace_payload_as_text(t.dt, nr_segment_ensure_id(t, segment), now)
  IN [t |-> nr_txn_force_single_count(t, IF text = NULL THEN "CreatePayload/Exception"
                                         ELSE "CreatePayload/Success"),
      header |-> text]

nr_txn_is_account_trusted_dt(app, trusted_key) ==
  trusted_key # NULL /\ trusted_key = app.trusted_key

nr_txn_accept_new_relic_header(t, app, payload, transport) ==
  LET error == nr_distributed_trace_convert_payload_to_object(payload)
  IN IF error # "" THEN [t |-> nr_txn_force_single_count(t, error), ok |-> FALSE]
     ELSE IF ~nr_txn_is_account_trusted_dt(app,
               nr_distributed_trace_object_get_trusted_key(payload))
     THEN [t |-> nr_txn_force_single_count(t, "AcceptPayload/Ignored/UntrustedAccount"),
           ok |-> FALSE]
     ELSE [t |-> [t EXCEPT !.dt =
                    nr_distributed_trace_accept_inbound_payload(@, payload, transport)],
           ok |-> TRUE]

nr_txn_accept_w3c_trace_context_headers(t, app, traceparent, tracestate, transport) ==
  LET state   == nr_distributed_trace_convert_w3c_headers_tracestate(tracestate, app.trusted_key)
      counted == IF state.error = "" THEN t ELSE nr_txn_force_single_count(t, state.error)
      dt      == nr_distributed_trace_accept_inbound_w3c_payload(t.dt, traceparent, state, transport)
      final   == nr_distributed_trace_handle_inbound_w3c_sampled_flag(
                    dt, traceparent, t.opts.parent_sampled, t.opts.parent_not_sampled)
  IN IF ~nr_distributed_trace_convert_w3c_headers_traceparent(traceparent)
     THEN [t |-> nr_txn_force_single_count(t, "TraceContext/TraceParent/Parse/Exception"),
           ok |-> FALSE]
     ELSE [t |-> nr_txn_force_single_count([counted EXCEPT !.dt = final],
                                           "TraceContext/Accept/Success"),
           ok |-> TRUE]

CreateSuccess == {<<"CreatePayload/Success">>, <<"TraceContext/Create/Success">>}

\* Mutant: a payload is accepted after one was created.
AcceptAfterCreate(t, app, headers, transport) ==
  LET accepted == IF headers.traceparent # NULL
                  THEN nr_txn_accept_w3c_trace_context_headers(t, app, headers.traceparent,
                          headers.tracestate, transport)
                  ELSE nr_txn_accept_new_relic_header(t, app, headers.newrelic, transport)
  IN IF ~t.opts.dt \/ t.dt.inbound.set \/ ~accepted.ok THEN t
     ELSE [accepted.t EXCEPT !.type = @ \union {"DT_INBOUND"}]

\* One inbound payload, and none after an outbound one: the trace id must not
\* change once it has been told to anybody.
nr_txn_accept_distributed_trace_payload(t, app, headers, transport) ==
  LET accepted == IF headers.traceparent # NULL
                  THEN nr_txn_accept_w3c_trace_context_headers(t, app, headers.traceparent,
                          headers.tracestate, transport)
                  ELSE nr_txn_accept_new_relic_header(t, app, headers.newrelic, transport)
      type     == IF transport = NULL THEN (IF t.background THEN "Unknown" ELSE "HTTP")
                  ELSE transport
      typed    == [accepted.t EXCEPT !.dt =
                      nr_distributed_trace_inbound_set_transport_type(@, type),
                      !.type = @ \union {"DT_INBOUND"}]
  IN IF ~t.opts.dt THEN nr_txn_force_single_count(t, "AcceptPayload/Exception")
     ELSE IF t.dt.inbound.set
          THEN nr_txn_force_single_count(t, "AcceptPayload/Ignored/Multiple")
     ELSE IF CreateSuccess \intersect t.metrics # {}
          THEN nr_txn_force_single_count(t, "AcceptPayload/Ignored/CreateBeforeAccept")
     ELSE IF ~accepted.ok THEN accepted.t
     ELSE nr_txn_create_dt_metrics(
             nr_txn_force_single_count(typed, "AcceptPayload/Success"), "TransportDuration")

\* The newrelic header arrives base64 encoded; what is not base64 stops it all.
nr_txn_accept_distributed_trace_payload_httpsafe(t, app, headers, transport) ==
  IF headers = NULL THEN t
  ELSE IF headers.newrelic = NUM
       THEN nr_txn_force_single_count(t, "AcceptPayload/ParseException")
  ELSE nr_txn_accept_distributed_trace_payload(t, app, headers, transport)

---------------------------------------------------------------------------
(* The end: what the finished transaction reports.                          *)

nr_txn_apdex_zone(t, duration) ==
  IF t.error # NULL THEN "failing"
  ELSE IF duration <= t.opts.apdex_t THEN "satisfying"
  ELSE IF duration <= 4 * t.opts.apdex_t THEN "tolerating" ELSE "failing"

nr_txn_should_create_apdex_metrics(t) == ~t.ignore_apdex /\ ~t.background

nr_txn_create_apdex_metrics(t, duration) ==
  AddMetrics(t, {<<"Apdex">>} \union
                (IF t.name = NULL THEN {} ELSE {<<"Apdex/txn", t.name, nr_txn_apdex_zone(t, duration)>>}))

nr_txn_create_error_metrics(t) ==
  LET counted == AddMetrics(t, {<<"Errors/all">>, <<"Errors", WebOrOther(t)>>, <<"Errors/txn", t.name>>})
  IN IF t.name = NULL THEN t
     ELSE IF t.opts.dt THEN nr_txn_create_dt_metrics(counted, "ErrorsByCaller") ELSE counted

nr_txn_create_duration_metrics(t) ==
  LET web     == IF t.background THEN {<<"OtherTransaction/all">>, <<"OtherTransactionTotalTime">>}
                 ELSE {<<"WebTransaction">>, <<"WebTransactionTotalTime">>, <<"HttpDispatcher">>}
      counted == AddMetrics(t, web \union {<<"Duration", t.name>>, <<"TotalTime", t.name>>})
  IN IF t.opts.dt THEN nr_txn_create_dt_metrics(counted, "DurationByCaller") ELSE counted

nr_txn_create_queue_metric(t) ==
  IF t.background \/ t.queue_start = 0 THEN t ELSE AddMetrics(t, {<<"WebFrontend/QueueTime">>})

\* Datastore, External and MessageBroker have a sum for all transactions, which
\* is copied to the one for this kind.
Rollups == {"Datastore", "External", "MessageBroker"}
nr_txn_create_rollup_metrics(t) ==
  AddMetrics(t, {<<r, WebOrOther(t)>> : r \in {q \in Rollups : <<q, "all">> \in t.metrics}})

nr_txn_add_error_attributes(t) ==
  IF t.error = NULL THEN t ELSE nr_txn_set_attribute(t, "error_message", t.error.msg)

nr_txn_handle_total_time(t, duration) ==
  LET sums   == nr_txn_create_queue_metric(
                   nr_txn_create_duration_metrics(nr_txn_create_rollup_metrics(t)))
      apdex  == IF nr_txn_should_create_apdex_metrics(sums)
                THEN nr_txn_create_apdex_metrics(sums, duration) ELSE sums
  IN IF t.error = NULL THEN apdex
     ELSE nr_txn_add_error_attributes(nr_txn_create_error_metrics(apdex))

\* [t, finished]: without a name, or ignored, nothing is finalised.
nr_txn_end(t, app, duration) ==
  LET over   == [t EXCEPT !.complete = TRUE, !.recording = FALSE]
      frozen == nr_txn_freeze_name_update_apdex(over, app)
  IN IF t.complete THEN [t |-> t, finished |-> FALSE]
     ELSE IF t.ignore THEN [t |-> over, finished |-> FALSE]
     ELSE IF ~frozen.ok THEN [t |-> frozen.t, finished |-> FALSE]
     ELSE [t |-> nr_txn_handle_total_time(frozen.t, duration), finished |-> TRUE]

nr_txn_should_save_trace(t, duration) ==
  nr_txn_is_synthetics(t) \/ duration >= t.opts.tt_threshold

nr_txn_event_should_add_guid(t) ==
  ~nr_txn_is_dt(t) /\ (nr_txn_is_synthetics(t) \/ nr_txn_is_cat(t))

nr_txn_add_distributed_tracing_intrinsics(t) ==
  [guid |-> t.dt.txn_id, sampled |-> t.dt.sampled, priority |-> t.dt.priority,
   trace |-> t.dt.trace_id,
   parent |-> IF "DT_INBOUND" \in t.type THEN t.dt.inbound ELSE NULL]

nr_txn_add_cat_analytics_intrinsics(t) ==
  IF ~nr_txn_is_cat(t) THEN NULL
  ELSE [trip |-> nr_txn_get_cat_trip_id(t), hash |-> nr_txn_current_path_hash(t),
        ref |-> t.cat.ref, guid |-> t.cat.guid, alt |-> nr_txn_get_alternate_path_hashes(t)]

nr_error_to_event(t) ==
  IF ~t.opts.error_events \/ t.error = NULL THEN NULL
  ELSE [name |-> t.name, msg |-> t.error.msg, span |-> t.error.span,
        dt |-> IF t.opts.dt THEN nr_txn_add_distributed_tracing_intrinsics(t) ELSE NULL,
        attrs |-> {a.name : a \in {b \in t.attrs : "error" \in b.dests}}]

nr_txn_event_intrinsics(t, duration) ==
  [name |-> t.name, guid |-> nr_txn_event_should_add_guid(t),
   zone |-> IF nr_txn_should_create_apdex_metrics(t) THEN nr_txn_apdex_zone(t, duration) ELSE NULL,
   synthetics |-> t.synthetics, cat |-> nr_txn_add_cat_analytics_intrinsics(t),
   dt |-> IF t.opts.dt THEN nr_txn_add_distributed_tracing_intrinsics(t) ELSE NULL,
   error |-> t.error # NULL]

nr_txn_to_event(t, duration) ==
  IF ~t.opts.analytics_events THEN NULL
  ELSE [params |-> nr_txn_event_intrinsics(t, duration),
        attrs |-> {a.name : a \in {b \in t.attrs : "event" \in b.dests}}]
=============================================================================
