------------------------------- MODULE Headers -------------------------------
(***************************************************************************)
(* axiom/nr_header.c: the HTTP headers that tie transactions of different  *)
(* services together.  Distributed tracing has the three headers of        *)
(* DistributedTrace; cross application tracing (CAT) has X-NewRelic-ID,    *)
(* -Transaction and, in the response, -App-Data; synthetics has its own.   *)
(*                                                                         *)
(* An encoded header is [key, val]: the encoding key of the account that   *)
(* made it and the value; NUM is a header that is not base64 at all.  A    *)
(* value that was decoded with another key is noise (NUM).                 *)
(***************************************************************************)
EXTENDS Transaction

nr_header_validate_encoded_string(encoded) == encoded \notin {NULL, NUM}

\* Only a newrelic or a traceparent header makes a map.
nr_header_create_distributed_trace_map(newrelic, traceparent, tracestate) ==
  IF newrelic = NULL /\ traceparent = NULL THEN NULL
  ELSE [newrelic |-> newrelic, traceparent |-> traceparent, tracestate |-> tracestate]

nr_header_encode(app, val) ==
  IF val = NULL \/ app.encoding_key = NULL THEN NULL
  ELSE [key |-> app.encoding_key, val |-> val]

nr_header_decode(app, encoded) ==
  IF ~nr_header_validate_encoded_string(encoded) \/ app.encoding_key = NULL THEN NULL
  ELSE IF encoded.key = app.encoding_key THEN encoded.val ELSE NUM

\* "account#application".  0 stands for the -1 of what does not look like that:
\* only positive numbers are trusted.
nr_header_account_id_from_cross_process_id(id) == IF id \in {NULL, NUM} THEN 0 ELSE id.account

NR_CROSS_PROCESS_ID_LENGTH_MAX == 2   \* stands for 512 characters

nr_header_validate_decoded_id(app, id) ==
  /\ id \notin {NULL, NUM}
  /\ id.len < NR_CROSS_PROCESS_ID_LENGTH_MAX
  /\ nr_txn_is_account_trusted(app, nr_header_account_id_from_cross_process_id(id))

\* The answer to a caller that has named itself, once, with the name of the
\* transaction, which is frozen for it.  [t, header]
nr_header_inbound_response_internal(t, app, start) ==
  LET frozen  == nr_txn_freeze_name_update_apdex(t, app)
      refused == [t |-> t, header |-> NULL]
  IN IF \/ ~t.recording \/ ~t.opts.cat \/ t.cat.client = NULL
        \/ app.cross_process_id = NULL \/ t.cross_process # "START"
     THEN refused
     ELSE IF ~frozen.ok THEN [t |-> frozen.t, header |-> NULL]
     ELSE [t |-> [AddMetrics(frozen.t, {<<"ClientApplication", t.cat.client>>})
                    EXCEPT !.cross_process = "RESPONSE_CREATED"],
           header |-> [id |-> app.cross_process_id, name |-> frozen.t.name,
                       queue |-> nr_txn_queue_time(frozen.t, start), guid |-> t.dt.txn_id]]

nr_header_inbound_synthetics(app, header) == nr_header_decode(app, header)

nr_header_inbound_response(t, app, start) ==
  LET response == nr_header_inbound_response_internal(t, app, start)
  IN [t |-> response.t, header |-> nr_header_encode(app, response.header)]

nr_header_outbound_request_synthetics_encoded(t, app) ==
  IF ~t.opts.synthetics \/ t.synthetics = NULL THEN NULL
  ELSE nr_header_encode(app, t.synthetics)

\* [t, id, txn]: the path hash of the moment joins the alternate ones.
nr_header_outbound_request_decoded(t, app) ==
  IF ~t.opts.cat \/ app.cross_process_id = NULL THEN [t |-> t, id |-> NULL, txn |-> NULL]
  ELSE [t |-> [nr_txn_get_path_hash(t) EXCEPT !.type = @ \union {"CAT_OUTBOUND"}],
        id |-> app.cross_process_id,
        txn |-> [guid |-> t.dt.txn_id, tt |-> FALSE, trip |-> nr_txn_get_cat_trip_id(t),
                 ref |-> nr_txn_current_path_hash(t)]]

NoHeaders == [newrelic |-> NULL, traceparent |-> NULL, tracestate |-> NULL,
              x_id |-> NULL, x_txn |-> NULL, x_synthetics |-> NULL]

\* Our entry of the tracestate comes first, those of other vendors follow; when
\* we have none, theirs are not forwarded.
OutboundTracestate(t, segment, now) ==
  LET mine == nr_txn_create_w3c_tracestate_header(t, segment, now)
  IN IF mine = NULL THEN NULL ELSE <<mine>> \o t.dt.inbound.raw_tracing_vendors

\* [t, headers]
nr_header_outbound_request_create(t, app, segment, fresh, now) ==
  LET payload == IF t.opts.exclude_newrelic THEN [t |-> t, header |-> NULL]
                 ELSE nr_txn_create_distributed_trace_payload(t, segment, now)
      parent  == nr_txn_create_w3c_traceparent_header(payload.t, segment, fresh)
      cat     == nr_header_outbound_request_decoded(t, app)
      base    == [NoHeaders EXCEPT !.x_synthetics =
                    nr_header_outbound_request_synthetics_encoded(t, app)]
  IN IF segment = NULL THEN [t |-> t, headers |-> NULL]
     ELSE IF t.opts.dt
     THEN [t |-> [parent.t EXCEPT !.type = @ \union {"DT_OUTBOUND"}],
           headers |-> [base EXCEPT !.newrelic = payload.header, !.traceparent = parent.header,
                           !.tracestate = OutboundTracestate(t, segment, now)]]
     ELSE IF t.opts.cat
     THEN [t |-> cat.t,
           headers |-> [base EXCEPT !.x_id = nr_header_encode(app, cat.id),
                           !.x_txn = nr_header_encode(app, cat.txn)]]
     ELSE [t |-> t, headers |-> base]

\* The response of a called service: [id, name, guid], NULL when it is not
\* believed.
nr_header_outbound_response(t, app, header) ==
  LET r == nr_header_decode(app, header)
  IN IF \/ ~t.opts.cat \/ r \in {NULL, NUM}
     THEN NULL
     ELSE IF ~nr_header_validate_decoded_id(app, r.id) \/ r.name = NULL \/ r.guid = NULL
     THEN NULL ELSE r

\* All fields are looked at before the first of them is taken over.
nr_header_process_x_newrelic_transaction(t, fields) ==
  IF fields.guid \in {NULL, NUM} \/ fields.tt = NULL \/ NUM \in {fields.trip, fields.ref}
  THEN [t |-> t, ok |-> FALSE]
  ELSE [t |-> [t EXCEPT !.type = @ \union {"CAT_INBOUND"},
                        !.cat = [@ EXCEPT !.guid = fields.guid,
                            !.trip = IF fields.trip = NULL THEN @ ELSE fields.trip,
                            !.ref = IF fields.ref = NULL THEN @ ELSE fields.ref]],
        ok |-> TRUE]

nr_header_set_cat_txn(t, app, x_id, x_txn) ==
  LET id     == nr_header_decode(app, x_id)
      named  == [t EXCEPT !.cat.client = id]
      fields == nr_header_decode(app, x_txn)
  IN IF ~nr_header_validate_decoded_id(app, id) THEN [t |-> t, ok |-> FALSE]
     ELSE IF fields \in {NULL, NUM} THEN [t |-> named, ok |-> FALSE]
     ELSE nr_header_process_x_newrelic_transaction(named, fields)

\* A transaction takes one synthetics header, of a trusted account.
nr_header_set_synthetics_txn(t, app, header) ==
  LET s == nr_header_inbound_synthetics(app, header)
  IN IF header = NULL \/ t.synthetics # NULL \/ s \in {NULL, NUM} THEN t
     ELSE IF ~nr_txn_is_account_trusted(app, s.account) THEN t
     ELSE [t EXCEPT !.synthetics = s, !.type = @ \union {"SYNTHETICS"}]
=============================================================================
