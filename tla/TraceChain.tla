----------------------------- MODULE TraceChain -----------------------------
(***************************************************************************)
(* A trace through several services: each runs one transaction (Request),  *)
(* calls the next one with the headers of nr_header_outbound_request_create*)
(* or of the API (agent/php_api_distributed_trace.c), and takes over what  *)
(* it is called with, at its beginning or later by an API call.  Between   *)
(* two services a proxy of another vendor may add its entry to the         *)
(* tracestate, or a hop may lose a header.                                 *)
(***************************************************************************)
EXTENDS Request

CONSTANTS ChainLength,    \* services
          ChainMaxOut,    \* bound: calls a service makes to the next one
          ChainInis       \* the settings services may have

VARIABLES cini,    \* the settings of each service
          ctxn,    \* the transactions of the services that have begun one
          cnet,    \* [to, headers, lost]: the calls, which stay for later API use
          cout,    \* history: per service, the headers it has sent
          cfrom    \* history: by service, the call it has taken over and the headers it read

chainVars == <<cini, ctxn, cnet, cout, cfrom>>
Services == 1..ChainLength

Guid(s) == <<"guid", s>>

\* What headers are made of: an entry of another vendor, and what our own agent
\* writes.
VendorEntry == [key |-> "vendor", val |-> NUM]
Guids == {Guid(s) : s \in Services}
Traces == [id : Guids \union {<<"trace">> \o g : g \in Guids}, len : {16, 32}]
Spans == {<<k, s, n>> : k \in {"segment", "fresh"}, s \in Services, n \in 0..ChainMaxOut}
Payloads ==
  [v : {0}, ty : {"App"}, ac : {"acct"}, ap : {"app"}, id : Spans \union {NULL}, tr : Traces,
   tx : Guids, pr : Nat, sa : BOOLEAN, ti : Nat, tk : {NULL}]
Parents ==
  [version : {"00"}, additional : {FALSE}, trace_id : Traces, parent_id : Spans, sampled : BOOLEAN]
EntryValues ==
  [parent_type : {0}, account_id : {"acct"}, app_id : {"app"}, span_id : Spans \union {NULL},
   txn_id : Guids \union {NULL}, sampled : BOOLEAN, priority : Nat, timestamp : Nat]
Entries == [key : {"acct"}, val : EntryValues] \union {VendorEntry}
States == Seq(Entries)

\* There is a first service, settings say what to do with a caller's decision,
\* and what is absent or malformed is none of what an agent writes.
ASSUME ChainAssumption ==
  /\ ChainLength \in Nat \ {0} /\ ChainMaxOut \in Nat
  /\ \A ini \in ChainInis : {ini.parent_sampled, ini.parent_not_sampled}
                              \subseteq {"DEFAULT", "ALWAYS_KEEP", "ALWAYS_DROP"}
  /\ NULL # NUM
  /\ \A x \in {NULL, NUM} :
       /\ x \notin {"App", "acct", "app"} /\ x \notin Guids /\ x \notin Spans /\ x \notin Traces
       /\ x \notin Payloads /\ x \notin Parents /\ x \notin EntryValues /\ x \notin Entries
       /\ x \notin States
  /\ \A x \in Spans : x # Zero
  /\ \A g \in Guids : g # Zero /\ <<"trace">> \o g # Zero

\* A function with one more value, or another one.
With(f, x, v) == [y \in DOMAIN f \union {x} |-> IF y = x THEN v ELSE f[y]]

---------------------------------------------------------------------------
(* agent/php_api_distributed_trace.c and php_api_internal.c.                *)

\* The array's string keys, in lower case and without "http_".
nr_php_api_distributed_trace_transform_zval_array(headers) ==
  [newrelic |-> headers.newrelic, traceparent |-> headers.traceparent,
   tracestate |-> headers.tracestate]

newrelic_accept_distributed_trace_headers(t, app, headers, type) ==
  IF ~t.recording THEN t
  ELSE nr_txn_accept_distributed_trace_payload_httpsafe(t, app,
          nr_php_api_distributed_trace_transform_zval_array(headers), type)

OnlyNewrelic(payload) == [newrelic |-> payload, traceparent |-> NULL, tracestate |-> NULL]

\* The two deprecated functions take the newrelic payload alone; the one for
\* encoded payloads does not ask whether the transaction is recording.
newrelic_accept_distributed_trace_payload_httpsafe(t, app, payload, type) ==
  nr_txn_accept_distributed_trace_payload_httpsafe(t, app, OnlyNewrelic(payload), type)

newrelic_accept_distributed_trace_payload(t, app, payload, type) ==
  IF ~t.recording THEN t
  ELSE nr_txn_accept_distributed_trace_payload(t, app, OnlyNewrelic(payload), type)

\* [t, headers]: an object with the text of the payload.
newrelic_create_distributed_trace_payload(t, segment, now) ==
  LET r == nr_txn_create_distributed_trace_payload(t, segment, now)
  IN IF ~t.recording THEN [t |-> t, headers |-> NULL]
     ELSE [t |-> r.t, headers |-> [NoHeaders EXCEPT !.newrelic = r.header]]

\* [t, headers].  Unlike the automatic headers, the tracestate has our own entry
\* only, and the transaction is not marked as one with outbound tracing.
newrelic_insert_distributed_trace_headers(t, segment, fresh, now) ==
  LET payload == nr_txn_create_distributed_trace_payload(t, segment, now)
      parent  == nr_txn_create_w3c_traceparent_header(payload.t, segment, fresh)
      state   == nr_txn_create_w3c_tracestate_header(t, segment, now)
  IN IF ~t.recording THEN [t |-> t, headers |-> NULL]
     ELSE [t |-> parent.t,
           headers |-> [NoHeaders EXCEPT !.newrelic = payload.header, !.traceparent = parent.header,
                           !.tracestate = IF state = NULL THEN NULL ELSE <<state>>]]

newrelic_get_request_metadata(t, app, segment, fresh, now) ==
  nr_header_outbound_request_create(t, app, segment, fresh, now)

---------------------------------------------------------------------------
(* Behaviour.                                                               *)

\* What may happen to the headers on their way.
OnTheWay(h) ==
  {h, [h EXCEPT !.newrelic = NULL], [h EXCEPT !.traceparent = NULL, !.tracestate = NULL],
   [h EXCEPT !.tracestate = IF @ = NULL THEN <<VendorEntry>> ELSE <<VendorEntry>> \o @],
   [h EXCEPT !.traceparent = NUM]}

ChainInit ==
  /\ cini \in [Services -> ChainInis]
  /\ \E sampled \in BOOLEAN :
       ctxn = [s \in {1} |->
                 nr_php_txn_begin(DefaultApp, cini[1], DefaultServer, Guid(1), 3, sampled)]
  /\ cnet = {} /\ cout = [s \in Services |-> {}] /\ cfrom = [s \in {} |-> NULL]

\* A service begins a transaction: called over HTTP, or on its own account.
BeginService ==
  \E s \in Services \ {1}, sampled \in BOOLEAN :
    /\ s \notin DOMAIN ctxn /\ s - 1 \in DOMAIN ctxn
    /\ \E call \in {c \in cnet : c.to = s} \union {NULL} :
         LET server == IF call = NULL THEN DefaultServer
                       ELSE [DefaultServer EXCEPT !.newrelic = call.headers.newrelic,
                               !.traceparent = call.headers.traceparent,
                               !.tracestate = call.headers.tracestate]
             t == nr_php_txn_begin(DefaultApp, cini[s], server, Guid(s), 2 * s, sampled)
         IN /\ ctxn' = With(ctxn, s, t)
            /\ cfrom' = IF t.dt.inbound.set THEN With(cfrom, s, call) ELSE cfrom
    /\ UNCHANGED <<cini, cnet, cout>>

\* What the functions of the API make of the headers of a call, with the headers
\* each of them reads.
Acceptances(t, call) ==
  LET payload == call.headers.newrelic
  IN {[t |-> newrelic_accept_distributed_trace_headers(t, DefaultApp, call.headers, "Queue"),
       headers |-> call.headers],
      [t |-> newrelic_accept_distributed_trace_payload_httpsafe(t, DefaultApp, payload, "Queue"),
       headers |-> OnlyNewrelic(payload)],
      [t |-> newrelic_accept_distributed_trace_payload(t, DefaultApp, payload, NULL),
       headers |-> OnlyNewrelic(payload)]}

\* A later call of the API with the headers of some call.
AcceptLater ==
  \E s \in DOMAIN ctxn \ {1} :
    /\ \E call \in {c \in cnet : c.to = s} : \E a \in Acceptances(ctxn[s], call) :
         /\ ctxn' = [ctxn EXCEPT ![s] = a.t]
         /\ cfrom' = IF a.t.dt.inbound.set /\ ~ctxn[s].dt.inbound.set
                     THEN With(cfrom, s, [call EXCEPT !.headers = a.headers]) ELSE cfrom
    /\ UNCHANGED <<cini, cnet, cout>>

\* A call to the next service (of the last one, to somebody else), instrumented or
\* by hand.
CallNext ==
  \E s \in DOMAIN ctxn :
    /\ Cardinality(cout[s]) < ChainMaxOut
    /\ LET n     == Cardinality(cout[s])
           seg   == <<"segment", s, n>>
           fresh == <<"fresh", s, n>>
       IN \E r \in {[r |-> newrelic_get_request_metadata(ctxn[s], DefaultApp, seg, fresh, n), auto |-> TRUE],
                    [r |-> newrelic_insert_distributed_trace_headers(ctxn[s], seg, fresh, n), auto |-> FALSE],
                    [r |-> newrelic_create_distributed_trace_payload(ctxn[s], seg, n), auto |-> FALSE]} :
            /\ ctxn' = [ctxn EXCEPT ![s] = r.r.t]
            /\ cout' = [cout EXCEPT ![s] = @ \union {[headers |-> r.r.headers, auto |-> r.auto]}]
            /\ \E h \in OnTheWay(r.r.headers) :
                 cnet' = cnet \union {[to |-> s + 1, n |-> n, headers |-> h,
                                       sampled |-> ctxn[s].dt.sampled, priority |-> ctxn[s].dt.priority,
                                       trace |-> ctxn[s].dt.trace_id]}
    /\ UNCHANGED <<cini, cfrom>>

ChainNext == BeginService \/ AcceptLater \/ CallNext

ChainSpec == ChainInit /\ [][ChainNext]_chainVars

---------------------------------------------------------------------------
(* Properties.                                                              *)

TraceIds(out) ==
  {h.headers.newrelic.tr.id : h \in {g \in out : g.headers.newrelic # NULL}}
  \union {h.headers.traceparent.trace_id.id : h \in {g \in out : g.headers.traceparent # NULL}}

ChainTypeOK ==
  \A s \in DOMAIN ctxn :
    /\ ctxn[s].dt.trace_id.len \in {16, 32}
    /\ ctxn[s].dt.inbound.set <=> s \in DOMAIN cfrom
    /\ "DT_INBOUND" \in ctxn[s].type <=> s \in DOMAIN cfrom

\* All that a transaction ever tells of its trace, in whatever header and before
\* or after it has taken over a caller's trace, is one trace id, the one it is
\* reported with: an inbound payload is refused once there was an outbound one.
OneTraceId ==
  \A s \in DOMAIN ctxn : TraceIds(cout[s]) \subseteq {ctxn[s].dt.trace_id.id}

\* A service that has taken over a call is in its caller's trace.
SameTrace ==
  \A s \in DOMAIN cfrom : ctxn[s].dt.trace_id.id = cfrom[s].trace.id

\* The sampling decision and the priority of the caller hold for the callee when
\* an entry of our own arrives, unless a setting overrules it.
DecisionFollows ==
  \A s \in DOMAIN cfrom :
    (/\ cini[s].parent_sampled = "DEFAULT" /\ cini[s].parent_not_sampled = "DEFAULT"
     /\ \/ cfrom[s].headers.traceparent = NULL
        \/ /\ cfrom[s].headers.tracestate # NULL
           /\ \E i \in DOMAIN cfrom[s].headers.tracestate :
                cfrom[s].headers.tracestate[i].key = DefaultApp.trusted_key)
    => /\ ctxn[s].dt.sampled = cfrom[s].sampled
       /\ ctxn[s].dt.priority = cfrom[s].priority

\* The entries of other vendors that came with an accepted tracestate leave with
\* every instrumented call, after our own.
VendorsForwarded ==
  \A s \in DOMAIN cfrom :
    (/\ cfrom[s].headers.traceparent # NULL /\ cfrom[s].headers.tracestate # NULL
     /\ VendorEntry \in Range(cfrom[s].headers.tracestate))
    => \A h \in cout[s] : h.auto => VendorEntry \in Range(h.headers.tracestate)

\* A request that passes through several services, with third parties and retries
\* in between, is one trace with one decision about it
\* (nr_txn_accept_distributed_trace_payload, nr_header_outbound_request_create).
ChainIsOneTrace ==
  ChainTypeOK /\ OneTraceId /\ SameTrace /\ DecisionFollows /\ VendorsForwarded
=============================================================================
