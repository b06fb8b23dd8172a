------------------------------- MODULE Request -------------------------------
(***************************************************************************)
(* One request of a PHP process, from RINIT to post-deactivate:            *)
(* agent/php_txn.c on top of axiom/nr_txn.c (Transaction), the headers     *)
(* (Headers) and browser monitoring (Rum), with the calls an application   *)
(* makes in between and the daemon's news about the application, which may *)
(* get a new agent run while the request is running.                       *)
(*                                                                         *)
(* Calls of different kinds touch different fields of the transaction: a   *)
(* request makes the calls of one topic.                                   *)
(***************************************************************************)
EXTENDS Rum

CONSTANTS RqMaxCalls,   \* bound: calls of one request
          RqPages       \* the buffers a response may consist of

\* A path or a message is a sequence of these words and of numbers; a name is a
\* path and what its prefix says.
Words == PathTypes \union {"a.php", "f.php", "<unknown>", "unknown", "function", "status", "raw",
                           "renamed", "*"}
Texts == Seq(Words \union Nat)
TxnNames == [other : BOOLEAN, kind : PathTypes, path : Texts]

\* The null pointer is none of the values it stands beside, and a page is HTML
\* that has no loader of its own.
ASSUME RequestAssumption ==
  /\ RqMaxCalls \in Nat
  /\ NULL \notin Nat \union BOOLEAN /\ NULL \notin {"RUM_header", "RUM_footer", "segment"}
  /\ NULL \notin Texts /\ NULL \notin TxnNames
  /\ NULL \notin [priority : Nat, msg : Texts, span : {"segment", NULL}]
  /\ \A page \in RqPages : page \in Seq(HtmlItems)

VARIABLES rtopic,   \* the kind of calls this request makes
          rini,     \* the settings the request has begun with
          rapp,     \* the application, as the process knows it
          rtxn,     \* NRPRG(txn), NULL when there is none
          rcalls,   \* calls made so far
          rserver,  \* $_SERVER and the response, as far as the agent looks
          rpage,    \* what the browser has received
          rhist,    \* history: what this transaction has told, and was told
          rsent     \* what nr_cmd_txndata_tx was given, transaction by transaction

requestVars == <<rtopic, rini, rapp, rserver, rtxn, rcalls, rpage, rhist, rsent>>

---------------------------------------------------------------------------
(* Settings, policies and labels.                                           *)

DefaultIni ==
  [custom_events |-> TRUE, synthetics |-> TRUE, err |-> TRUE, capture_params |-> FALSE,
   autorum |-> TRUE, analytics_events |-> TRUE, transaction_events |-> TRUE,
   error_events |-> TRUE, tt |-> TRUE, explain |-> TRUE, slowsql |-> TRUE,
   recordsql |-> "RAW", tt_threshold |-> 2, tt_is_apdex_f |-> TRUE, cat |-> FALSE,
   allow_raw |-> TRUE, custom_parameters |-> TRUE, dt |-> TRUE, pad |-> FALSE, otel |-> FALSE,
   exclude_newrelic |-> FALSE, span_events |-> TRUE, log_forwarding |-> TRUE,
   log_level |-> 4, log_metrics |-> TRUE, log_labels |-> FALSE, log_labels_exclude |-> {},
   parent_sampled |-> "DEFAULT", parent_not_sampled |-> "DEFAULT", cli |-> FALSE,
   no_background_jobs |-> FALSE, observer |-> NULL]

OptionNames ==
  {"custom_events", "synthetics", "err", "autorum", "analytics_events", "error_events", "tt",
   "explain", "slowsql", "recordsql", "tt_threshold", "cat", "tt_is_apdex_f", "allow_raw",
   "custom_parameters", "dt", "pad", "otel", "exclude_newrelic", "span_events", "parent_sampled",
   "parent_not_sampled", "log_forwarding", "log_level", "log_metrics", "log_labels",
   "request_params", "apdex_t"}

\* Settings under their own names but for three: the Apdex threshold is the
\* application's, and transaction events have two switches.
TxnOptions(ini) ==
  [f \in OptionNames |-> CASE f = "request_params" -> ini.capture_params
                           [] f = "apdex_t" -> 0
                           [] f = "analytics_events" -> ini.analytics_events /\ ini.transaction_events
                           [] OTHER -> ini[f]]

Policies == {"record_sql", "allow_raw_exception_messages", "custom_events", "custom_parameters"}

nr_php_txn_is_policy_secure(policy, opts) ==
  CASE policy = "record_sql" -> opts.recordsql = "NONE"
    [] policy = "allow_raw_exception_messages" -> ~opts.allow_raw
    [] policy = "custom_events" -> ~opts.custom_events
    [] policy = "custom_parameters" -> ~opts.custom_parameters
    [] OTHER -> FALSE

\* What the agent tells the collector of the policies it supports.
nr_php_txn_get_supported_security_policy_settings(opts) ==
  [p \in Policies |-> [enabled |-> ~nr_php_txn_is_policy_secure(p, opts), supported |-> TRUE]]

\* What the application is registered with; an observer only with tracing.
AppInfo(ini) ==
  [policies |-> nr_php_txn_get_supported_security_policy_settings(TxnOptions(ini)),
   observer |-> IF ini.dt THEN ini.observer ELSE NULL]

\* Labels without the ones that are excluded, whatever their case; NULL for none.
nr_php_txn_get_log_forwarding_labels(labels, ini) ==
  LET kept == {l \in labels : l.lower \notin ini.log_labels_exclude}
  IN IF ~ini.log_labels \/ kept = {} THEN NULL ELSE kept

---------------------------------------------------------------------------
(* The beginning.                                                           *)

nr_php_txn_send_metrics_once(t) ==
  IF t.onetime THEN t
  ELSE [AddMetrics(t, {<<"Logging/Forwarding/PHP", nr_txn_log_forwarding_enabled(t)>>,
                       <<"Logging/Metrics/PHP", t.opts.log_metrics>>,
                       <<"Logging/Labels/PHP", t.opts.log_labels>>})
          EXCEPT !.onetime = TRUE]

nr_php_collect_x_request_start(t, server) == nr_txn_set_queue_start(t, server.request_start)

\* The file of the script, or argv[0] of a command line script, which has no
\* REQUEST_METHOD and whose path stays unknown.
nr_php_set_initial_path(t, server) ==
  LET background == IF server.script = NULL /\ server.argv # NULL /\ ~server.request_method
                    THEN nr_txn_change_background_status(t, TRUE) ELSE t
  IN IF server.script # NULL THEN nr_txn_set_path(background, server.script, "URI", FALSE)
     ELSE nr_txn_set_path(background, <<"<unknown>">>, "UNKNOWN", FALSE)

nr_php_gather_global_params(t, server) ==
  nr_txn_set_attribute(
    nr_txn_set_attribute(
      nr_txn_set_request_headers(t, server.referer, server.content_length),
      "user_agent", server.user_agent),
    "server_name", server.server_name)

\* Keys are cut at 511 bytes and values are turned into strings of that length.
nr_php_capture_request_parameters(t, params, ini) ==
  [t EXCEPT !.attrs = @ \union
     UNION {nr_txn_add_request_parameter(t, k, ini.capture_params).attrs : k \in Range(params)}]

AcceptInbound(t, app, server) ==
  IF t.opts.dt
  THEN nr_txn_accept_distributed_trace_payload_httpsafe(t, app,
          nr_header_create_distributed_trace_map(server.newrelic, server.traceparent,
             server.tracestate), "HTTP")
  ELSE IF t.opts.cat THEN nr_header_set_cat_txn(t, app, server.x_id, server.x_txn).t ELSE t

\* The order matters: a CLI script is a background job before the headers are
\* looked at, whose metrics depend on that.
nr_php_txn_begin(app, ini, server, guid, prio, sampled) ==
  LET new     == nr_txn_begin(app, TxnOptions(ini), guid, prio, sampled)
      started == nr_php_collect_x_request_start(nr_php_txn_send_metrics_once(new), server)
      path    == nr_php_set_initial_path(started, server)
      job     == IF ini.cli THEN nr_txn_change_background_status(path, TRUE) ELSE path
      params  == nr_php_gather_global_params(job, server)
      Synthetics(inbound) ==
        IF inbound.opts.synthetics
        THEN nr_header_set_synthetics_txn(inbound, app, server.x_synthetics) ELSE inbound
  IN IF app.state # "OK" THEN NULL ELSE Synthetics(AcceptInbound(params, app, server))

---------------------------------------------------------------------------
(* The end.                                                                 *)

nr_php_txn_should_ignore(t, ignoretxn, ini) ==
  ignoretxn \/ t.ignore \/ (t.background /\ ini.no_background_jobs)

nr_php_txn_do_shutdown(t, server, ini) ==
  nr_php_capture_request_parameters(nr_txn_set_request_uri(t, server.uri), server.params, ini)

\* Under FPM a request that has run no code is named for its status.
nr_php_txn_handle_fpm_error(t, server) ==
  IF t.path_type = "URI" /\ server.fpm /\ ~server.executed
  THEN nr_txn_set_path(nr_txn_set_attribute(t, "request_uri", t.path),
                       <<"status", server.code>>, "STATUS_CODE", FALSE)
  ELSE t

nr_php_txn_set_response_header_attributes(t, server) ==
  IF t.background THEN t
  ELSE nr_txn_set_attribute(t, "response_headers", server.content_type)

VersionMetrics(t) == AddMetrics(t, {<<"PHP/AgentVersion">>, <<"PHP/Version">>})

PackageMetrics(t) == AddMetrics(t, {<<"PHP/package", p.name>> : p \in t.packages})

\* The transaction that is handed to nr_cmd_txndata_tx, or NULL.  The result of
\* nr_txn_end is not looked at: a transaction that could not be finished, because
\* its application has another run by now, is sent as it is.
nr_php_txn_end(t, app, ini, server, ignoretxn, post_deactivate) ==
  LET stopped == [t EXCEPT !.recording = FALSE]
      shut    == IF post_deactivate THEN stopped
                 ELSE nr_php_txn_do_shutdown(stopped, server, ini)
      counted == PackageMetrics(VersionMetrics(shut))
      status  == nr_txn_set_http_status(counted, server.code)
      headers == nr_php_txn_set_response_header_attributes(status, server)
      Send(ended) == IF ended.t.ignore THEN NULL ELSE [t |-> ended.t, finished |-> ended.finished]
  IN IF nr_php_txn_should_ignore(stopped, ignoretxn, ini) THEN NULL
     ELSE Send(nr_txn_end(nr_php_txn_handle_fpm_error(headers, server), app, 1))

---------------------------------------------------------------------------
(* Behaviour.                                                               *)

DefaultApp ==
  [state |-> "OK", run |-> 1, apdex_t |-> 1, high_security |-> FALSE, lasp |-> FALSE,
   observer |-> FALSE, trusted_key |-> "acct", account_id |-> "acct", app_id |-> "app",
   trusted_accounts |-> {1}, encoding_key |-> "key",
   cross_process_id |-> [account |-> 1, len |-> 1], loader |-> "loader",
   limits |-> [f \in {"analytics_events", "custom_events", "error_events", "span_events"} |-> 1],
   reply |-> [traces |-> TRUE, errors |-> TRUE, analytics_events |-> NULL, custom_events |-> NULL,
              span_events |-> NULL, error_events |-> NULL],
   policies |-> [record_sql |-> NULL, allow_raw |-> NULL, custom_events |-> NULL,
                 custom_parameters |-> NULL],
   url_rules |-> "none", txn_rules |-> "none", terms |-> FALSE, key_apdex |-> NULL]

DefaultServer ==
  [script |-> <<"a.php">>, argv |-> NULL, request_method |-> TRUE, referer |-> "ref",
   content_length |-> 1, user_agent |-> "ua", server_name |-> "host", request_start |-> 1,
   uri |-> "/a", params |-> <<"p">>, fpm |-> FALSE, executed |-> TRUE, code |-> 200,
   content_type |-> "html", newrelic |-> NULL, traceparent |-> NULL, tracestate |-> NULL,
   x_id |-> NULL, x_txn |-> NULL, x_synthetics |-> NULL]

\* A caller of the same account that has named itself (CAT), without tracing.
Called == [DefaultServer EXCEPT
  !.x_id = [key |-> "key", val |-> [account |-> 1, len |-> 1]],
  !.x_txn = [key |-> "key", val |-> [guid |-> "g", tt |-> FALSE, trip |-> "trip", ref |-> NULL]]]

Servers(topic) ==
  CASE topic = "name" -> {Called, [Called EXCEPT !.fpm = TRUE, !.executed = FALSE],
                          [DefaultServer EXCEPT !.script = NULL, !.argv = "x", !.request_method = FALSE]}
    [] topic = "security" -> {[DefaultServer EXCEPT !.x_synthetics =
                                  [key |-> k, val |-> [account |-> 1]]] : k \in {"key", "other"}}
    [] OTHER -> {DefaultServer}

Inis(topic) ==
  CASE topic = "name" -> {[DefaultIni EXCEPT !.dt = FALSE, !.cat = TRUE, !.cli = c[1],
                              !.no_background_jobs = c[2]] :
                             c \in {<<FALSE, FALSE>>, <<FALSE, TRUE>>, <<TRUE, FALSE>>}}
    [] topic = "security" -> {[DefaultIni EXCEPT !.capture_params = TRUE, !.dt = b] : b \in BOOLEAN}
    [] OTHER -> {DefaultIni}

AppChoices(topic) ==
  CASE topic = "name" -> {[DefaultApp EXCEPT !.url_rules = u, !.txn_rules = x, !.terms = (u = x),
                               !.key_apdex = IF u = "none" THEN NULL ELSE 2] :
                            u, x \in {"none", "ignore", "change"}}
    [] topic = "security" -> {[DefaultApp EXCEPT !.high_security = h, !.lasp = l,
                                 !.policies.allow_raw = p, !.policies.custom_parameters = p,
                                 !.policies.custom_events = p, !.policies.record_sql = p] :
                                h, l \in BOOLEAN, p \in {NULL, FALSE, TRUE}}
    [] OTHER -> {DefaultApp}

NoHistory == [told |-> {}, errors |-> <<>>, ignored |-> FALSE, best |-> 0]

RequestInit ==
  /\ rtopic \in {"name", "error", "page", "security"}
  /\ rini \in Inis(rtopic)
  /\ rapp \in AppChoices(rtopic)
  /\ rserver \in Servers(rtopic)
  /\ rtxn = nr_php_txn_begin(rapp, rini, rserver, <<"guid", 1>>, 1, TRUE)
  /\ rcalls = 0 /\ rpage = <<>> /\ rhist = NoHistory /\ rsent = <<>>

\* A call of the application while there is a transaction; t is what it makes
\* of it.
Call(topic, t, hist) ==
  /\ rtopic = topic /\ rtxn # NULL /\ rcalls < RqMaxCalls
  /\ rtxn' = t /\ rhist' = hist /\ rcalls' = rcalls + 1
  /\ UNCHANGED <<rtopic, rini, rapp, rserver, rsent>>

Higher(a, b) == IF a > b THEN a ELSE b

\* A framework or newrelic_name_transaction names the transaction.  The history
\* has the best name that came in time.
SetPath ==
  \E ptype \in PathTypes \ {"UNKNOWN", "URI"}, overwrite \in BOOLEAN :
    /\ rtxn # NULL
    /\ Call("name", nr_txn_set_path(rtxn, <<ptype, rcalls>>, ptype, overwrite),
            IF rtxn.frozen THEN rhist
            ELSE [rhist EXCEPT !.best = Higher(@, PathRank[ptype])])
    /\ UNCHANGED rpage

\* The two weaker ways to a name: a function (wraprec of the user) and a file
\* that matches newrelic.webtransaction.name.files.
NameFromFunctionOrFile ==
  /\ rtxn # NULL
  /\ \/ Call("name", nr_txn_name_from_function(rtxn, <<"function", rcalls>>), rhist)
     \/ Call("name", nr_txn_match_file(nr_txn_add_file_naming_pattern(rtxn, <<"f.php">>), <<"f.php">>), rhist)
  /\ UNCHANGED rpage

\* newrelic_background_job and newrelic_ignore_transaction.
BackgroundJob ==
  \E b \in BOOLEAN :
    /\ rtxn # NULL
    /\ Call("name", nr_txn_change_background_status(rtxn, b), rhist)
    /\ UNCHANGED rpage

IgnoreTransaction ==
  /\ rtxn # NULL
  /\ Call("name", nr_txn_ignore(rtxn), [rhist EXCEPT !.ignored = TRUE])
  /\ UNCHANGED rpage

\* The output handler of CAT: PHP is about to send the headers.
nr_php_header_output_handler ==
  /\ rtxn # NULL
  /\ \E r \in {nr_header_inbound_response(rtxn, rapp, 2)} :
       Call("name", r.t, IF r.header = NULL THEN rhist
                         ELSE [rhist EXCEPT !.told = @ \union {r.header.val.name}])
  /\ UNCHANGED rpage

\* newrelic_get_browser_timing_header and _footer.
BrowserTiming ==
  \E topic \in {"name", "page"} :
    /\ rtxn # NULL
    /\ \/ \E h \in {nr_rum_produce_header(rtxn, rapp, FALSE)} :
            /\ Call(topic, h.t, rhist)
            /\ rpage' = IF h.out = NULL THEN rpage ELSE Append(rpage, h.out)
       \/ \E f \in {nr_rum_produce_footer(rtxn, rapp, FALSE)} :
            /\ Call(topic, f.t, IF f.out = NULL THEN rhist
                                ELSE [rhist EXCEPT !.told = @ \union {f.t.name}])
            /\ rpage' = IF f.out = NULL THEN rpage ELSE Append(rpage, f.out)

\* A buffer leaves PHP.
Output ==
  \E buffer \in RqPages, has_length, html \in BOOLEAN :
    /\ rtxn # NULL
    /\ \E r \in {nr_php_rum_output_handler(rtxn, rapp, buffer, has_length, html)} :
         /\ Call("page", r.t, IF "RUM_footer" \in Range(r.out)
                              THEN [rhist EXCEPT !.told = @ \union {r.t.name}] ELSE rhist)
         /\ rpage' = rpage \o r.out

\* An error of some priority; the message is what the application said.
RecordError ==
  \E priority \in 1..3, topic \in {"error", "security"} :
    /\ rtxn # NULL
    /\ Call(topic, nr_txn_record_error(rtxn, priority, <<"raw", rcalls>>, "segment"),
            IF rtxn.recording
            THEN [rhist EXCEPT !.errors = Append(@, [priority |-> priority, msg |-> <<"raw", rcalls>>])]
            ELSE rhist)
    /\ UNCHANGED rpage

\* What an application tells of itself.
AddData ==
  /\ rtxn # NULL
  /\ \/ Call("security", nr_txn_add_user_custom_parameter(rtxn, "k"), rhist)
     \/ Call("security", nr_txn_record_custom_event(rtxn), rhist)
     \/ \E v \in {"nan", "1"} : Call("security", nr_txn_add_custom_metric(rtxn, "m", v), rhist)
     \/ \E level \in {3, 5} : Call("security", nr_txn_record_log_event(rtxn, level, "text", "segment"), rhist)
     \/ \E source \in {"LEGACY", "COMPOSER"} :
          Call("security", nr_txn_add_php_package_from_source(rtxn, "pkg", source), rhist)
  /\ UNCHANGED rpage

\* Another request of the process has learned of a new run.
NewRun ==
  /\ rtopic = "name" /\ rapp.run = 1
  /\ rapp' = [rapp EXCEPT !.run = 2]
  /\ UNCHANGED <<rtopic, rini, rserver, rtxn, rcalls, rpage, rhist, rsent>>

\* newrelic_end_transaction, or post-deactivate.
End ==
  \E ignoretxn, post \in BOOLEAN :
    /\ rtxn # NULL
    /\ \E r \in {nr_php_txn_end(rtxn, rapp, rini, rserver, ignoretxn, post)} :
         rsent' = IF r = NULL THEN rsent
                  ELSE Append(rsent, [t |-> r.t, finished |-> r.finished, hist |-> rhist,
                                      run |-> rapp.run])
    /\ rtxn' = NULL
    /\ UNCHANGED <<rtopic, rini, rapp, rserver, rcalls, rpage, rhist>>

\* newrelic_start_transaction: a second one of the same request, once.
Restart ==
  /\ rtxn = NULL /\ rtopic = "error" /\ Len(rsent) = 1 /\ rcalls < RqMaxCalls
  /\ rtxn' = nr_php_txn_begin(rapp, rini, rserver, <<"guid", 2>>, 1, TRUE)
  /\ rhist' = NoHistory
  /\ UNCHANGED <<rtopic, rini, rapp, rserver, rcalls, rpage, rsent>>

RequestNext ==
  \/ SetPath \/ NameFromFunctionOrFile \/ BackgroundJob \/ IgnoreTransaction
  \/ nr_php_header_output_handler \/ BrowserTiming \/ Output \/ RecordError \/ AddData
  \/ NewRun \/ End \/ Restart

RequestSpec == RequestInit /\ [][RequestNext]_requestVars

---------------------------------------------------------------------------
(* Properties.                                                              *)

Sent == {rsent[i] : i \in DOMAIN rsent}
IsNamed(s) == s.finished /\ s.t.name # NULL

RequestTypeOK ==
  /\ rcalls \in 0..RqMaxCalls /\ Len(rsent) <= 2
  /\ rtxn # NULL => /\ rtxn.path_type \in PathTypes
                    /\ rtxn.rum_header \in 0..2 /\ rtxn.rum_footer \in 0..2
                    /\ ~rtxn.complete
  /\ \A s \in Sent : s.t.complete /\ ~s.t.recording

\* The name a browser or a caller was told is the name the transaction is
\* reported under: nr_txn_freeze_name_update_apdex has an effect once.
OneName ==
  /\ Cardinality(rhist.told) <= 1
  /\ \A s \in Sent : s.hist.told \subseteq {s.t.name}

\* A finished transaction has the best name that was given to it before its name
\* was frozen: path types only go up.
BestName == \A s \in Sent : IsNamed(s) => PathRank[s.t.name.kind] >= s.hist.best

\* Its metrics say "web" or "other" like its name: nothing changes the
\* background status of a frozen transaction.
KindAgrees ==
  \A s \in Sent : IsNamed(s) =>
    /\ s.t.name.other <=> <<"OtherTransaction/all">> \in s.t.metrics
    /\ s.t.name.other => <<"Apdex">> \notin s.t.metrics

\* An application that has asked to ignore the transaction is heard, whatever
\* happened before or after; and only a change of the run leaves what is sent
\* unfinished or, when the name was asked for before, without a name.
IgnoredOrFinished ==
  \A s \in Sent : ~s.hist.ignored /\ (IsNamed(s) \/ s.run # s.t.run)

\* Of all errors the one of the highest priority is reported, of several the
\* latest.
HighestError ==
  \A s \in Sent :
    LET E == s.hist.errors
        best == {i \in DOMAIN E : \A j \in DOMAIN E : E[j].priority < E[i].priority
                                    \/ (E[j].priority = E[i].priority /\ j <= i)}
    IN rtopic = "error" =>
         IF E = <<>> THEN s.t.error = NULL
         ELSE \E i \in best : /\ s.t.error.priority = E[i].priority
                              /\ s.t.error.msg = E[i].msg

IsRaw(error) == error # NULL /\ error.msg \notin {HighSecurityMessage, PolicyMessage}
IsUser(name) == name \in {<<"user", "k">>}
IsParam(name) == name \in {<<"request.parameters", "p">>}

\* High security, a policy or a token of security policies keeps out of the data
\* what it says: raw messages, custom parameters and events, raw SQL, request
\* parameters and log lines.
SecurityHolds ==
  \A s \in Sent :
    LET names == {a.name : a \in s.t.attrs}
    IN /\ (rapp.high_security \/ rapp.policies.allow_raw = FALSE) => ~IsRaw(s.t.error)
       /\ (rapp.high_security \/ rapp.policies.custom_parameters = FALSE)
             => \A n \in names : ~IsUser(n)
       /\ (rapp.high_security \/ rapp.policies.custom_events = FALSE) => s.t.custom_events = 0
       /\ (rapp.high_security \/ rapp.lasp) => \A n \in names : ~IsParam(n)
       /\ (rapp.high_security \/ rapp.policies.record_sql = TRUE)
             => nr_txn_sql_recording_level(s.t) # "RAW"
       /\ rapp.high_security => s.t.logs = {}

\* However the page is cut into buffers and whoever asks for it, the browser gets
\* at most one loader and one footer, the footer not without the loader before.
OneLoader ==
  LET at(item) == {i \in DOMAIN rpage : rpage[i] = item}
  IN /\ Cardinality(at("RUM_header")) <= 1 /\ Cardinality(at("RUM_footer")) <= 1
     /\ \A f \in at("RUM_footer") : \E h \in at("RUM_header") : h < f

\* What is sent of a transaction is what the request has told, in whatever order
\* it named, ignored and ended it and met errors (nr_php_txn_end).
ReportIsFaithful ==
  /\ RequestTypeOK /\ OneName /\ BestName
  /\ KindAgrees /\ IgnoredOrFinished /\ HighestError
=============================================================================
