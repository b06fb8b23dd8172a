--------------------------- MODULE DistributedTrace ---------------------------
(***************************************************************************)
(* axiom/nr_distributed_trace.c: the distributed trace of a transaction,   *)
(* as operators on a record, and the three headers that carry it between   *)
(* services: the "newrelic" payload, and W3C traceparent and tracestate.   *)
(*                                                                         *)
(* A header is NULL when it is absent and NUM when it cannot be parsed.    *)
(* The newrelic payload is a record of the keys of its JSON, an absent key *)
(* being NULL.  A tracestate is a sequence of entries [key, val]; the      *)
(* entry of a New Relic agent has an account as its key.  A trace id is    *)
(* its digits and its length, 16 or 32.  Priorities are in tenths.         *)
(***************************************************************************)
EXTENDS AgentBase

NoInbound == [set |-> FALSE, type |-> NULL, account_id |-> NULL, app_id |-> NULL,
              transport_type |-> NULL, guid |-> NULL, txn_id |-> NULL,
              tracing_vendors |-> <<>>, raw_tracing_vendors |-> <<>>,
              trusted_parent_id |-> NULL, timestamp |-> 0]

nr_distributed_trace_create ==
  [account_id |-> NULL, app_id |-> NULL, txn_id |-> NULL, trace_id |-> NULL,
   trusted_key |-> NULL, priority |-> 0, sampled |-> FALSE, inbound |-> NoInbound]

\* The setters nr_txn_begin uses: a NULL value leaves the field empty.
nr_distributed_trace_set_ids(dt, txn_id, trusted_key, account_id, app_id) ==
  [dt EXCEPT !.txn_id = txn_id, !.trusted_key = trusted_key,
             !.account_id = account_id, !.app_id = app_id]

Pad(trace_id) == [trace_id EXCEPT !.len = 32]

nr_distributed_trace_set_trace_id(dt, trace_id, do_padding) ==
  [dt EXCEPT !.trace_id =
      IF trace_id # NULL /\ do_padding THEN Pad(trace_id) ELSE trace_id]

TransportTypes == {"Unknown", "HTTP", "HTTPS", "Kafka", "JMS", "IronMQ", "AMQP",
                   "Queue", "Other"}

nr_distributed_trace_inbound_set_transport_type(dt, value) ==
  [dt EXCEPT !.inbound.transport_type =
      IF value \in TransportTypes THEN value ELSE "Unknown"]

---------------------------------------------------------------------------
(* The newrelic header.                                                     *)

SupportedMajorVersion == 0

\* The error metric of a payload that is refused, "" for one that is not.
nr_distributed_trace_convert_payload_to_object(payload) ==
  IF payload = NULL THEN "AcceptPayload/Ignored/Null"
  ELSE IF payload = NUM THEN "AcceptPayload/ParseException"
  ELSE IF payload.v = NULL THEN "AcceptPayload/ParseException"
  ELSE IF payload.v > SupportedMajorVersion
       THEN "AcceptPayload/Ignored/MajorVersion"
  ELSE IF AsString(payload.id) = NULL /\ AsString(payload.tx) = NULL
       THEN "AcceptPayload/ParseException"
  ELSE IF NULL \in {payload.ty, payload.ac, payload.ap, payload.tr, payload.ti}
       THEN "AcceptPayload/ParseException"
  ELSE ""

nr_distributed_trace_object_get_trusted_key(payload) ==
  IF AsString(payload.tk) = NULL THEN AsString(payload.ac) ELSE AsString(payload.tk)

\* The trace takes over the caller's identity and trace id, and its priority
\* and its sampling decision where the payload has them.
nr_distributed_trace_accept_inbound_payload(dt, payload, transport_type) ==
  LET accepted ==
        [dt EXCEPT
           !.trace_id = AsString(payload.tr),
           !.priority = IF payload.pr = NULL THEN @ ELSE payload.pr,
           !.sampled  = IF payload.sa = NULL THEN @ ELSE payload.sa,
           !.inbound  = [@ EXCEPT !.type = AsString(payload.ty),
                           !.account_id = AsString(payload.ac),
                           !.app_id = AsString(payload.ap),
                           !.guid = AsString(payload.id),
                           !.txn_id = AsString(payload.tx),
                           !.timestamp = payload.ti, !.set = TRUE]]
  IN nr_distributed_trace_inbound_set_transport_type(accepted, transport_type)

\* The payload of an outbound request from the segment parent_id.
nr_distributed_trace_payload_as_text(dt, parent_id, now) ==
  IF parent_id = NULL /\ dt.txn_id = NULL THEN NULL
  ELSE [v |-> SupportedMajorVersion, ty |-> "App", ac |-> dt.account_id,
        ap |-> dt.app_id, id |-> parent_id, tr |-> dt.trace_id, tx |-> dt.txn_id,
        pr |-> dt.priority, sa |-> dt.sampled, ti |-> now,
        tk |-> IF dt.trusted_key # dt.account_id THEN dt.trusted_key ELSE NULL]

---------------------------------------------------------------------------
(* W3C trace context, inbound.                                              *)

Zero == "zero"     \* an id of zeros only, which the standard forbids

\* The regular expression, the forbidden version ff, and what only version 00
\* forbids: further fields.
nr_distributed_trace_convert_w3c_headers_traceparent(traceparent) ==
  /\ traceparent \notin {NULL, NUM}
  /\ traceparent.version # "ff"
  /\ ~(traceparent.version = "00" /\ traceparent.additional)
  /\ traceparent.trace_id.id # Zero
  /\ traceparent.parent_id # Zero

\* What a sequence has at some places, in its order.
Pick(s, places) ==
  [i \in 1..Cardinality(places) |->
     s[CHOOSE p \in places : Cardinality({q \in places : q <= p}) = i]]

\* The trusted account's entry (the last one, when there are several), and the
\* entries and names of the other vendors.
nr_distributed_trace_convert_w3c_headers_tracestate(tracestate, trusted_key) ==
  LET entries == IF tracestate = NULL \/ trusted_key = NULL THEN <<>> ELSE tracestate
      mine    == {i \in DOMAIN entries : entries[i].key = trusted_key}
      entry   == IF mine = {} THEN NULL ELSE entries[Max(mine)].val
  IN [entry   |-> IF entry = NUM THEN NULL ELSE entry,
      vendors |-> Pick(entries, DOMAIN entries \ mine),
      error   |-> IF entry = NULL THEN "TraceState/NoNrEntry"
                  ELSE IF entry = NUM THEN "TraceState/InvalidNrEntry" ELSE ""]

\* parent_type 0, 1 and 2; any other number counts as an App.
nr_distributed_trace_set_parent_type(w3c_type) ==
  CASE w3c_type = 1 -> "Browser" [] w3c_type = 2 -> "Mobile" [] OTHER -> "App"

\* The numbers are read without a look at the status of the read: an entry that
\* leaves out the sampling decision reads as "not sampled".
nr_distributed_trace_accept_tracestate(dt, entry) ==
  [dt EXCEPT
     !.sampled  = (entry.sampled = TRUE),
     !.priority = IF entry.priority # NULL /\ entry.priority > 0
                  THEN entry.priority ELSE @,
     !.inbound  = [@ EXCEPT
        !.trusted_parent_id = IF entry.span_id # NULL THEN entry.span_id ELSE @,
        !.account_id = entry.account_id,
        !.app_id = entry.app_id,
        !.txn_id = IF entry.txn_id # NULL THEN entry.txn_id ELSE @,
        !.timestamp = entry.timestamp,
        !.type = nr_distributed_trace_set_parent_type(entry.parent_type)]]

\* Mutant: the entries of other vendors are read, and not kept for outbound calls.
AcceptForgetsVendors(dt, traceparent, state, transport_type) ==
  LET fromState == IF state.entry = NULL THEN dt
                   ELSE nr_distributed_trace_accept_tracestate(dt, state.entry)
      typed     == nr_distributed_trace_inbound_set_transport_type(fromState, transport_type)
  IN [typed EXCEPT !.inbound.guid = traceparent.parent_id,
                   !.trace_id = traceparent.trace_id,
                   !.inbound.set = TRUE]

nr_distributed_trace_accept_inbound_w3c_payload(dt, traceparent, state, transport_type) ==
  LET fromState == IF state.entry = NULL THEN dt
                   ELSE nr_distributed_trace_accept_tracestate(dt, state.entry)
      vendors   == IF state.vendors = <<>> THEN fromState
                   ELSE [fromState EXCEPT
                           !.inbound.tracing_vendors =
                              [i \in DOMAIN state.vendors |-> state.vendors[i].key],
                           !.inbound.raw_tracing_vendors = state.vendors]
      typed     == nr_distributed_trace_inbound_set_transport_type(vendors, transport_type)
  IN [typed EXCEPT !.inbound.guid = traceparent.parent_id,
                   !.trace_id = traceparent.trace_id,
                   !.inbound.set = TRUE]

\* distributed_tracing.sampler.remote_parent_sampled and _not_sampled.
nr_distributed_trace_handle_inbound_w3c_sampled_flag(dt, traceparent, ifSampled, ifNot) ==
  LET control == IF traceparent.sampled THEN ifSampled ELSE ifNot
  IN CASE control = "DEFAULT" -> dt
       [] control = "ALWAYS_KEEP" -> [dt EXCEPT !.sampled = TRUE, !.priority = 20]
       [] control = "ALWAYS_DROP" -> [dt EXCEPT !.sampled = FALSE]

---------------------------------------------------------------------------
(* W3C trace context, outbound.                                             *)

nr_distributed_trace_create_w3c_tracestate_header(dt, span_id, txn_id, now) ==
  IF NULL \in {dt.trusted_key, dt.account_id, dt.app_id} THEN NULL
  ELSE [key |-> dt.trusted_key,
        val |-> [parent_type |-> 0, account_id |-> dt.account_id,
                 app_id |-> dt.app_id, span_id |-> span_id, txn_id |-> txn_id,
                 sampled |-> dt.sampled, priority |-> dt.priority,
                 timestamp |-> now]]

nr_distributed_trace_create_w3c_traceparent_header(trace_id, span_id, sampled) ==
  IF trace_id = NULL \/ span_id = NULL THEN NULL
  ELSE [version |-> "00", additional |-> FALSE, trace_id |-> Pad(trace_id),
        parent_id |-> span_id, sampled |-> sampled]
=============================================================================
