------------------------------ MODULE Settings ------------------------------
(***************************************************************************)
(* The newrelic.* settings of the PHP extension: the table of INI entries  *)
(* and the handlers that PHP calls when one changes (agent/php_nrini.c).   *)
(*                                                                         *)
(* A text is a string; what it parses to is looked up in tables, since     *)
(* only the class of a text matters.  An unsigned int is written as the    *)
(* int with the same bits.  A handler takes the configuration c, the name  *)
(* of the entry and the new text, and returns [ok, c].  The field "where"  *)
(* of a setting is written by the handlers and read by nobody; it is left  *)
(* out.                                                                    *)
(***************************************************************************)
EXTENDS AgentBase, Integers

CONSTANTS IniTexts     \* the texts that appear in INI files

INT_MAX == 2147483647

System(def, mh) == [def |-> def, perdir |-> FALSE, mh |-> mh]
PerDir(def, mh) == [def |-> def, perdir |-> TRUE, mh |-> mh]
Flag(def) == PerDir(def, "nr_boolean_mh")
Text(def) == PerDir(def, "nr_string_mh")

IniDaemon ==
  "logfile" :> System("path", "nr_logfile_mh") @@
  "loglevel" :> System("info", "nr_loglevel_mh") @@
  "high_security" :> System("0", "nr_high_security_mh") @@
  "feature_flag" :> System("", "nr_feature_flag_mh") @@
  "preload_framework_library_detection" :> System("1", "nr_preload_framework_library_detection_mh") @@
  "vulnerability_management.composer_api.per_process_detection" :> System("1", "nr_composer_per_process_detection_mh") @@
  "daemon.auditlog" :> System("", "nr_daemon_auditlog_mh") @@
  "daemon.logfile" :> System("", "nr_daemon_logfile_mh") @@
  "daemon.loglevel" :> System("", "nr_daemon_loglevel_mh") @@
  "daemon.port" :> System("path", "nr_daemon_port_mh") @@
  "daemon.address" :> System("path", "nr_daemon_address_mh") @@
  "daemon.ssl_ca_bundle" :> System("", "nr_daemon_ssl_cafile_mh") @@
  "daemon.ssl_ca_path" :> System("", "nr_daemon_ssl_capath_mh") @@
  "daemon.collector_host" :> System("", "nr_daemon_collector_host_mh") @@
  "daemon.proxy" :> System("", "nr_daemon_proxy_mh") @@
  "daemon.location" :> System("path", "nr_daemon_location_mh") @@
  "daemon.pidfile" :> System("", "nr_daemon_pidfile_mh") @@
  "daemon.dont_launch" :> System("", "nr_daemon_dont_launch_mh") @@
  "daemon.app_timeout" :> System("", "nr_daemon_app_timeout_mh") @@
  "daemon.app_connect_timeout" :> System("", "nr_daemon_app_connect_timeout_mh") @@
  "daemon.start_timeout" :> System("", "nr_daemon_start_timeout_mh")

IniOtel ==
  "otel_service_name" :> System("", "nr_otel_service_name_mh") @@
  "otel_service_version" :> System("", "nr_otel_service_version_mh") @@
  "otel_environment" :> System("", "nr_otel_environment_mh") @@
  "otel_endpoint" :> System("", "nr_otel_endpoint_mh") @@
  "otel_exporter_headers" :> System("", "nr_otel_exporter_headers_mh") @@
  "otel_profile_type" :> System("cpu", "nr_otel_profile_type_mh") @@
  "otel_sample_period" :> System("", "nr_otel_sample_period_mh") @@
  "otel_no_phone_home" :> System("", "nr_otel_no_phone_home_mh") @@
  "otel_exporter_insecure" :> System("", "nr_otel_exporter_insecure_mh") @@
  "daemon.utilization.detect_aws" :> System("1", "nr_daemon_utilization_mh") @@
  "daemon.utilization.detect_azure" :> System("1", "nr_daemon_utilization_mh") @@
  "daemon.utilization.detect_gcp" :> System("1", "nr_daemon_utilization_mh") @@
  "daemon.utilization.detect_pcf" :> System("1", "nr_daemon_utilization_mh") @@
  "daemon.utilization.detect_docker" :> System("1", "nr_daemon_utilization_mh") @@
  "daemon.utilization.detect_kubernetes" :> System("1", "nr_daemon_utilization_mh")

IniSpecial ==
  "daemon.special.integration" :> System("", "nr_daemon_special_integration_mh") @@
  "special" :> System("", "nr_special_mh") @@
  "special.appinfo_timeout" :> System("", "nr_special_appinfo_timeout_mh") @@
  "special.disable_instrumentation" :> System("", "nr_special_disable_instrumentation_mh") @@
  "special.expensive_node_min" :> System("", "nr_special_expensive_node_min_mh") @@
  "special.enable_extension_instrumentation" :> System("", "nr_special_enable_extension_instrumentation_mh") @@
  "daemon.special.curl_verbose" :> System("", "nr_daemon_special_curl_verbose_mh")

IniGeneral ==
  "enabled" :> PerDir("1", "nr_enabled_mh") @@
  "license" :> PerDir("", "nr_license_mh") @@
  "appname" :> Text("PHP Application") @@
  "webtransaction.name.remove_trailing_path" :> Flag("0") @@
  "framework.drupal.modules" :> Flag("1") @@
  "framework.wordpress.hooks" :> Flag("1") @@
  "framework.wordpress.hooks.options" :> PerDir("plugin_callbacks", "nr_wordpress_hooks_options_mh") @@
  "framework.wordpress.hooks.threshold" :> PerDir("1ms", "nr_time_mh") @@
  "framework.wordpress.hooks_skip_filename" :> Text("") @@
  "framework" :> PerDir("", "nr_framework_mh") @@
  "cross_application_tracer.enabled" :> PerDir("0", "nr_cat_enabled_mh") @@
  "special.max_nesting_level" :> PerDir("-1", "nr_max_nesting_level_mh") @@
  "labels" :> Text("") @@
  "process_host.display_name" :> Text("") @@
  "webtransaction.name.files" :> Text("") @@
  "guzzle.enabled" :> Flag("1")

IniAttributes ==
  "attributes.enabled" :> Flag("1") @@
  "attributes.include" :> Text("") @@
  "attributes.exclude" :> Text("") @@
  "capture_params" :> Flag("0") @@
  "ignored_params" :> Text("") @@
  "transaction_tracer.capture_attributes" :> Flag("1") @@
  "transaction_tracer.attributes.enabled" :> Flag("1") @@
  "transaction_tracer.attributes.include" :> Text("") @@
  "transaction_tracer.attributes.exclude" :> Text("")

IniTracer ==
  "transaction_tracer.enabled" :> Flag("1") @@
  "transaction_tracer.explain_enabled" :> Flag("1") @@
  "transaction_tracer.detail" :> PerDir("1", "nr_tt_detail_mh") @@
  "transaction_tracer.max_segments_cli" :> PerDir("100000", "nr_tt_max_segments_cli_mh") @@
  "transaction_tracer.max_segments_web" :> PerDir("0", "nr_tt_max_segments_web_mh") @@
  "transaction_tracer.slow_sql" :> Flag("1") @@
  "transaction_tracer.threshold" :> PerDir("apdex_f", "nr_tt_threshold_mh") @@
  "transaction_tracer.explain_threshold" :> PerDir("500", "nr_time_mh") @@
  "transaction_tracer.stack_trace_threshold" :> PerDir("500", "nr_time_mh") @@
  "transaction_tracer.record_sql" :> PerDir("obfuscated", "nr_recordsql_mh") @@
  "transaction_tracer.gather_input_queries" :> Flag("1") @@
  "transaction_tracer.internal_functions_enabled" :> System("0", "nr_tt_internal_mh")

IniErrors ==
  "error_collector.enabled" :> Flag("1") @@
  "error_collector.ignore_user_exception_handler" :> Flag("0") @@
  "error_collector.ignore_framework_error_exception_handler" :> Flag("0") @@
  "error_collector.ignore_errors" :> PerDir("", "nr_int_mh") @@
  "error_collector.ignore_exceptions" :> Text("") @@
  "error_collector.record_database_errors" :> Flag("1") @@
  "error_collector.prioritize_api_errors" :> Flag("0") @@
  "error_collector.capture_attributes" :> Flag("1") @@
  "error_collector.attributes.enabled" :> Flag("1") @@
  "error_collector.attributes.include" :> Text("") @@
  "error_collector.attributes.exclude" :> Text("")

IniEvents ==
  "analytics_events.enabled" :> Flag("1") @@
  "analytics_events.capture_attributes" :> Flag("1") @@
  "transaction_events.enabled" :> Flag("1") @@
  "error_collector.capture_events" :> Flag("1") @@
  "transaction_events.attributes.enabled" :> Flag("1") @@
  "transaction_events.attributes.include" :> Text("") @@
  "transaction_events.attributes.exclude" :> Text("") @@
  "custom_insights_events.enabled" :> Flag("1") @@
  "custom_events.max_samples_stored" :> PerDir("30000", "nr_custom_events_max_samples_stored_mh") @@
  "synthetics.enabled" :> Flag("1") @@
  "datastore_tracer.instance_reporting.enabled" :> Flag("1") @@
  "datastore_tracer.database_name_reporting.enabled" :> Flag("1")

IniBrowser ==
  "browser_monitoring.auto_instrument" :> Flag("1") @@
  "browser_monitoring.debug" :> Flag("0") @@
  "browser_monitoring.loader" :> PerDir("rum", "nr_rum_loader_mh") @@
  "browser_monitoring.capture_attributes" :> Flag("0") @@
  "browser_monitoring.attributes.enabled" :> Flag("0") @@
  "browser_monitoring.attributes.include" :> Text("") @@
  "browser_monitoring.attributes.exclude" :> Text("") @@
  "webtransaction.name.functions" :> PerDir("", "nr_wtfuncs_mh") @@
  "transaction_tracer.custom" :> PerDir("", "nr_ttcustom_mh") @@
  "security_policies_token" :> Text("") @@
  "allow_raw_exception_messages" :> Flag("1") @@
  "custom_parameters_enabled" :> Flag("1")

IniTracing ==
  "distributed_tracing_enabled" :> Flag("1") @@
  "distributed_tracing_exclude_newrelic_header" :> Flag("0") @@
  "distributed_tracing.sampler.remote_parent_sampled" :> PerDir("default", "nr_dt_sampler_remote_parent_mh") @@
  "distributed_tracing.sampler.remote_parent_not_sampled" :> PerDir("default", "nr_dt_sampler_remote_parent_mh") @@
  "distributed_tracing.pad_trace_id" :> Flag("") @@
  "otel_w3c_trace_id" :> Flag("") @@
  "span_events_enabled" :> Flag("1") @@
  "span_events.max_samples_stored" :> PerDir("2000", "nr_span_events_max_samples_stored_mh") @@
  "span_events.attributes.enabled" :> Flag("1") @@
  "span_events.attributes.include" :> Text("") @@
  "span_events.attributes.exclude" :> Text("")

IniStreaming ==
  "infinite_tracing.trace_observer.host" :> Text("") @@
  "infinite_tracing.trace_observer.port" :> PerDir("443", "nr_unsigned_int_mh") @@
  "infinite_tracing.span_events.queue_size" :> PerDir("100000", "nr_span_queue_size_mh") @@
  "infinite_tracing.span_events.agent_queue.size" :> PerDir("1000", "nr_unsigned_int_mh") @@
  "infinite_tracing.span_events.agent_queue.timeout" :> PerDir("1s", "nr_time_mh") @@
  "code_level_metrics.enabled" :> Flag("0")

IniLogging ==
  "application_logging.enabled" :> Flag("1") @@
  "application_logging.local_decorating.enabled" :> Flag("0") @@
  "application_logging.forwarding.enabled" :> Flag("1") @@
  "application_logging.forwarding.max_samples_stored" :> PerDir("10000", "nr_log_events_max_samples_stored_mh") @@
  "application_logging.forwarding.log_level" :> PerDir("WARNING", "nr_log_forwarding_log_level_mh") @@
  "application_logging.metrics.enabled" :> Flag("1") @@
  "application_logging.forwarding.context_data.enabled" :> Flag("0") @@
  "application_logging.forwarding.context_data.include" :> Text("") @@
  "application_logging.forwarding.context_data.exclude" :> Text("") @@
  "application_logging.forwarding.labels.enabled" :> Flag("0") @@
  "application_logging.forwarding.labels.exclude" :> Text("") @@
  "vulnerability_management.package_detection.enabled" :> Flag("1") @@
  "vulnerability_management.composer_api.enabled" :> Flag("1") @@
  "cloud.aws.account_id" :> PerDir("", "nr_aws_account_id_mh") @@
  "message_tracer.segment_parameters.enabled" :> Flag("1") @@
  "fibers.disabled" :> Flag("1") @@
  "fibers.disabled" :> Flag("1")
Entries ==
  IniDaemon @@ IniOtel @@ IniSpecial @@ IniGeneral @@ IniAttributes @@ IniTracer @@ IniErrors
  @@ IniEvents @@ IniBrowser @@ IniTracing @@ IniStreaming @@ IniLogging

---------------------------------------------------------------------------
(* What texts parse to.                                                     *)

\* -1 for what is no boolean (axiom/nr_configstrings.c)
nr_bool_from_str(v) ==
  IF v \in {"", "0", "n", "f", "off", "no", "false"} THEN 0
  ELSE IF v \in {"1", "y", "t", "on", "yes", "true"} THEN 1 ELSE -1

\* (int)strtol: 2^32 + 1 is truncated to 1.
AsInt(v) ==
  LET T == ("1" :> 1) @@ ("2" :> 2) @@ ("-2" :> -2) @@ ("-1" :> -1) @@ ("5ms" :> 5) @@ ("443" :> 443) @@ ("500" :> 500)
           @@ ("1000" :> 1000) @@ ("2000" :> 2000) @@ ("10000" :> 10000) @@ ("30000" :> 30000)
           @@ ("100000" :> 100000) @@ ("200000" :> 200000) @@ ("4294967297" :> 1) @@ ("1ms" :> 1) @@ ("1s" :> 1)
  IN IF v \in DOMAIN T THEN T[v] ELSE 0

BeyondInt(v) == v = "4294967297"

\* strtoimax read the whole text
IsNumber(v) == v \in {"0", "1", "2", "-1", "-2", "443", "500", "1000", "2000", "10000", "30000", "100000",
                      "200000", "4294967297"}

\* nr_parse_time, in milliseconds: a number without a suffix counts them.
AsTime(v) == IF v = "1s" THEN 1000 ELSE IF v = "4294967297" THEN INT_MAX ELSE AsInt(v)

check_ini_int_min_max(n, low, high) == IF n < low THEN low ELSE IF n > high /\ high > 0 THEN high ELSE n

---------------------------------------------------------------------------
(* The handlers of the settings of the process.                             *)

Accept(c, n, val) == [ok |-> TRUE, c |-> [c EXCEPT !.ini[n] = val]]
Refuse(c) == [ok |-> FALSE, c |-> c]
EmptyIsNull(c, n, v) == Accept(c, n, IF v = "" THEN NULL ELSE v)
Bool(c, n, v) == IF nr_bool_from_str(v) = -1 THEN Refuse(c) ELSE Accept(c, n, nr_bool_from_str(v))

nr_logfile_mh(c, n, v) == Accept(c, n, IF v = "" THEN "path" ELSE v)
nr_daemon_auditlog_mh(c, n, v) == EmptyIsNull(c, n, v)
nr_high_security_mh(c, n, v) == Bool(c, n, v)
nr_preload_framework_library_detection_mh(c, n, v) == Bool(c, n, v)
nr_composer_per_process_detection_mh(c, n, v) == Bool(c, n, v)
nr_loglevel_mh(c, n, v) ==
  IF v = "" THEN Accept(c, n, "info") ELSE IF v = "info" THEN Accept(c, n, v) ELSE Refuse(c)
nr_daemon_logfile_mh(c, n, v) == EmptyIsNull(c, n, v)
nr_daemon_loglevel_mh(c, n, v) == EmptyIsNull(c, n, v)
nr_daemon_port_mh(c, n, v) == EmptyIsNull(c, n, v)
nr_daemon_address_mh(c, n, v) == EmptyIsNull(c, n, v)
nr_daemon_ssl_cafile_mh(c, n, v) == EmptyIsNull(c, n, v)
nr_daemon_ssl_capath_mh(c, n, v) == EmptyIsNull(c, n, v)
nr_daemon_collector_host_mh(c, n, v) == EmptyIsNull(c, n, v)
nr_daemon_proxy_mh(c, n, v) == EmptyIsNull(c, n, v)
nr_daemon_location_mh(c, n, v) == EmptyIsNull(c, n, v)
nr_daemon_pidfile_mh(c, n, v) == EmptyIsNull(c, n, v)
nr_daemon_app_timeout_mh(c, n, v) == EmptyIsNull(c, n, v)
nr_daemon_app_connect_timeout_mh(c, n, v) == Accept(c, n, AsTime(v))
nr_daemon_start_timeout_mh(c, n, v) == EmptyIsNull(c, n, v)
NR_OTEL_STRING_MH(c, n, v) == EmptyIsNull(c, n, v)
nr_daemon_dont_launch_mh(c, n, v) ==
  IF v = "" THEN [ok |-> TRUE, c |-> c] ELSE Accept(c, n, check_ini_int_min_max(AsInt(v), 0, 3))
NR_PHP_UTILIZATION_MH(c, n, v) == Bool(c, n, v)
nr_daemon_special_curl_verbose_mh(c, n, v) ==
  IF v = "" THEN [ok |-> TRUE, c |-> c] ELSE Accept(c, n, AsInt(v))
nr_daemon_special_integration_mh(c, n, v) ==
  IF v = "" THEN [ok |-> TRUE, c |-> c] ELSE Accept(c, n, AsInt(v))

\* foreach_list: the parts of a list
Parts(v) == IF v = "" THEN {} ELSE IF v = "curl,text" THEN {"curl", "text"} ELSE {v}

\* foreach_special_control_flag: only known flags are taken.
SpecialFlags ==
  {"no_sql_parsing", "show_sql_parsing", "enable_path_translated", "no_background_jobs", "show_executes",
   "show_execute_params", "show_execute_stack", "show_execute_returns", "show_executes_untrimmed",
   "no_exception_handler", "no_signal_handler", "debug_autorum", "show_loaded_files", "debug_cat", "debug_dt",
   "disable_laravel_queue"}
nr_special_mh(c, n, v) == [ok |-> TRUE, c |-> [c EXCEPT !.lists[n] = Parts(v) \intersect SpecialFlags]]

\* There is no feature flag at present.
nr_feature_flag_mh(c, n, v) == [ok |-> TRUE, c |-> c]

nr_special_appinfo_timeout_mh(c, n, v) ==
  IF AsTime(v) > 0 THEN Accept(c, n, AsTime(v)) ELSE [ok |-> TRUE, c |-> c]

\* foreach_disable_instrumentation: a wrapped function is disabled for good.
nr_special_disable_instrumentation_mh(c, n, v) ==
  [ok |-> TRUE, c |-> [c EXCEPT !.lists[n] = @ \union (Parts(v) \intersect {"curl"})]]

nr_special_expensive_node_min_mh(c, n, v) == Accept(c, n, IF v = "" THEN 2 ELSE AsTime(v))
nr_special_enable_extension_instrumentation_mh(c, n, v) == Bool(c, n, v)
nr_tt_internal_mh(c, n, v) == Bool(c, n, v)

---------------------------------------------------------------------------
(* The handlers of the settings of a directory.                             *)

\* Only the value of the start-up counts for the process.
nr_enabled_mh(c, n, v, stage) ==
  LET b == nr_bool_from_str(v)
  IN IF b = -1 THEN Refuse(c)
     ELSE [ok |-> TRUE, c |-> [c EXCEPT !.ini[n] = b, !.enabled = IF stage = "startup" THEN b ELSE @]]

nr_license_mh(c, n, v) == IF v = "license" THEN Accept(c, n, v) ELSE Refuse(c)
nr_string_mh(c, n, v) == IF v # "" THEN Accept(c, n, v) ELSE Refuse(c)
nr_aws_account_id_mh(c, n, v) == IF v = "account" THEN Accept(c, n, v) ELSE Refuse(c)
nr_boolean_mh(c, n, v) == Bool(c, n, v)
nr_cat_enabled_mh(c, n, v) == Bool(c, n, v)
nr_tt_detail_mh(c, n, v) == Accept(c, n, check_ini_int_min_max(AsInt(v), 0, 2))

\* An empty text changes nothing, and is accepted.
Bounded(c, n, v, low, high) ==
  IF v = "" THEN [ok |-> TRUE, c |-> c] ELSE Accept(c, n, check_ini_int_min_max(AsInt(v), low, high))
nr_tt_max_segments_cli_mh(c, n, v) == Bounded(c, n, v, 0, INT_MAX)
nr_tt_max_segments_web_mh(c, n, v) == Bounded(c, n, v, 0, INT_MAX)
NR_MAX_8T_SPAN_BATCH_SIZE == 1000
nr_span_queue_size_mh(c, n, v) == Bounded(c, n, v, NR_MAX_8T_SPAN_BATCH_SIZE, INT_MAX)
nr_max_nesting_level_mh(c, n, v) == Bounded(c, n, v, -1, 100000)

nr_span_events_max_samples_stored_mh(c, n, v) ==
  Accept(c, n, IF AsInt(v) <= 0 \/ AsInt(v) > 10000 THEN 2000 ELSE AsInt(v))

\* Below zero or no number: the default; above the limit: the limit.
MaxSamples(c, n, v, def, max) ==
  Accept(c, n, IF v = "" \/ AsInt(v) < 0 \/ ~IsNumber(v) THEN def ELSE IF AsInt(v) > max THEN max ELSE AsInt(v))
nr_log_events_max_samples_stored_mh(c, n, v) == MaxSamples(c, n, v, 10000, 20000)
nr_custom_events_max_samples_stored_mh(c, n, v) == MaxSamples(c, n, v, 30000, 100000)

\* The flag is set here, and cleared nowhere.
nr_tt_threshold_mh(c, n, v) ==
  IF v \in {"", "apdex_f"} THEN [ok |-> TRUE, c |-> [c EXCEPT !.ini[n] = 0, !.apdex_f = TRUE]]
  ELSE Accept(c, n, AsTime(v))
nr_time_mh(c, n, v) == Accept(c, n, AsTime(v))
nr_recordsql_mh(c, n, v) ==
  IF v = "" THEN Accept(c, n, "off")
  ELSE IF v \in {"off", "raw", "obfuscated"} THEN Accept(c, n, v) ELSE Refuse(c)

\* A framework that is not known sets the framework back, and is refused.
nr_framework_mh(c, n, v) ==
  IF v = "" THEN Accept(c, n, NULL)
  ELSE IF v = "laravel" THEN Accept(c, n, v) ELSE Refuse([c EXCEPT !.ini[n] = NULL])

\* The functions stay instrumented when the setting changes; a name that is no
\* function of the program makes no difference.
UserFunctions == {"curl", "text"}
nr_wtfuncs_mh(c, n, v) == [ok |-> TRUE, c |-> [c EXCEPT !.lists[n] = @ \union (Parts(v) \intersect UserFunctions)]]
nr_ttcustom_mh(c, n, v) == [ok |-> TRUE, c |-> [c EXCEPT !.lists[n] = @ \union (Parts(v) \intersect UserFunctions)]]
nr_rum_loader_mh(c, n, v) == IF v # "" THEN Accept(c, n, v) ELSE Refuse(c)
nr_int_mh(c, n, v) == Accept(c, n, IF BeyondInt(v) THEN INT_MAX ELSE AsInt(v))
nr_unsigned_int_mh(c, n, v) ==
  Accept(c, n, IF v \in {"", "-1", "-2"} THEN 0 ELSE IF BeyondInt(v) THEN -1 ELSE AsInt(v))

\* LOG_LEVEL_WARNING is 4, and the default.
nr_log_forwarding_log_level_mh(c, n, v) ==
  IF v = "" THEN Refuse(c) ELSE Accept(c, n, IF v = "info" THEN 6 ELSE 4)

\* Mutant: core callbacks stay on when only plugins are asked for.
HooksKeepCore(c, n, v) ==
  LET set(p, k) == [ok |-> TRUE, c |-> [c EXCEPT !.ini[n] = v, !.wp = [plugins |-> p, core |-> k]]]
  IN CASE v = "all_callbacks" -> set(TRUE, TRUE)
       [] v = "plugin_callbacks" -> set(TRUE, c.wp.core)
       [] v = "threshold" -> set(FALSE, FALSE)
       [] OTHER -> Refuse(c)

nr_wordpress_hooks_options_mh(c, n, v) ==
  LET set(p, k) == [ok |-> TRUE, c |-> [c EXCEPT !.ini[n] = v, !.wp = [plugins |-> p, core |-> k]]]
  IN CASE v = "all_callbacks" -> set(TRUE, TRUE)
       [] v = "plugin_callbacks" -> set(TRUE, FALSE)
       [] v = "threshold" -> set(FALSE, FALSE)
       [] OTHER -> Refuse(c)

nr_dt_sampler_remote_parent_mh(c, n, v) ==
  LET which == IF n = "distributed_tracing.sampler.remote_parent_sampled" THEN "sampled" ELSE "not_sampled"
  IN IF v \notin {"default", "always_on", "always_off"} THEN Refuse(c)
     ELSE [ok |-> TRUE, c |-> [c EXCEPT !.ini[n] = v, !.sampler[which] = v]]

OtelStrings ==
  {"nr_otel_service_name_mh", "nr_otel_service_version_mh", "nr_otel_environment_mh", "nr_otel_endpoint_mh",
   "nr_otel_exporter_headers_mh", "nr_otel_profile_type_mh", "nr_otel_sample_period_mh",
   "nr_otel_no_phone_home_mh", "nr_otel_exporter_insecure_mh"}

\* The handler PHP calls for an entry.
on_modify(c, n, v, stage) ==
  LET Handler(h) ==
       CASE h = "nr_aws_account_id_mh" -> nr_aws_account_id_mh(c, n, v)
       [] h = "nr_boolean_mh" -> nr_boolean_mh(c, n, v)
       [] h = "nr_cat_enabled_mh" -> nr_cat_enabled_mh(c, n, v)
       [] h = "nr_composer_per_process_detection_mh" -> nr_composer_per_process_detection_mh(c, n, v)
       [] h = "nr_custom_events_max_samples_stored_mh" -> nr_custom_events_max_samples_stored_mh(c, n, v)
       [] h = "nr_daemon_address_mh" -> nr_daemon_address_mh(c, n, v)
       [] h = "nr_daemon_app_connect_timeout_mh" -> nr_daemon_app_connect_timeout_mh(c, n, v)
       [] h = "nr_daemon_app_timeout_mh" -> nr_daemon_app_timeout_mh(c, n, v)
       [] h = "nr_daemon_auditlog_mh" -> nr_daemon_auditlog_mh(c, n, v)
       [] h = "nr_daemon_collector_host_mh" -> nr_daemon_collector_host_mh(c, n, v)
       [] h = "nr_daemon_dont_launch_mh" -> nr_daemon_dont_launch_mh(c, n, v)
       [] h = "nr_daemon_location_mh" -> nr_daemon_location_mh(c, n, v)
       [] h = "nr_daemon_logfile_mh" -> nr_daemon_logfile_mh(c, n, v)
       [] h = "nr_daemon_loglevel_mh" -> nr_daemon_loglevel_mh(c, n, v)
       [] h = "nr_daemon_pidfile_mh" -> nr_daemon_pidfile_mh(c, n, v)
       [] h = "nr_daemon_port_mh" -> nr_daemon_port_mh(c, n, v)
       [] h = "nr_daemon_proxy_mh" -> nr_daemon_proxy_mh(c, n, v)
       [] h = "nr_daemon_special_curl_verbose_mh" -> nr_daemon_special_curl_verbose_mh(c, n, v)
       [] h = "nr_daemon_special_integration_mh" -> nr_daemon_special_integration_mh(c, n, v)
       [] h = "nr_daemon_ssl_cafile_mh" -> nr_daemon_ssl_cafile_mh(c, n, v)
       [] h = "nr_daemon_ssl_capath_mh" -> nr_daemon_ssl_capath_mh(c, n, v)
       [] h = "nr_daemon_start_timeout_mh" -> nr_daemon_start_timeout_mh(c, n, v)
       [] h = "nr_daemon_utilization_mh" -> NR_PHP_UTILIZATION_MH(c, n, v)
       [] h = "nr_dt_sampler_remote_parent_mh" -> nr_dt_sampler_remote_parent_mh(c, n, v)
       [] h = "nr_enabled_mh" -> nr_enabled_mh(c, n, v, stage)
       [] h = "nr_feature_flag_mh" -> nr_feature_flag_mh(c, n, v)
       [] h = "nr_framework_mh" -> nr_framework_mh(c, n, v)
       [] h = "nr_high_security_mh" -> nr_high_security_mh(c, n, v)
       [] h = "nr_int_mh" -> nr_int_mh(c, n, v)
       [] h = "nr_license_mh" -> nr_license_mh(c, n, v)
       [] h = "nr_log_events_max_samples_stored_mh" -> nr_log_events_max_samples_stored_mh(c, n, v)
       [] h = "nr_log_forwarding_log_level_mh" -> nr_log_forwarding_log_level_mh(c, n, v)
       [] h = "nr_logfile_mh" -> nr_logfile_mh(c, n, v)
       [] h = "nr_loglevel_mh" -> nr_loglevel_mh(c, n, v)
       [] h = "nr_max_nesting_level_mh" -> nr_max_nesting_level_mh(c, n, v)
       [] h = "nr_preload_framework_library_detection_mh" -> nr_preload_framework_library_detection_mh(c, n, v)
       [] h = "nr_recordsql_mh" -> nr_recordsql_mh(c, n, v)
       [] h = "nr_rum_loader_mh" -> nr_rum_loader_mh(c, n, v)
       [] h = "nr_span_events_max_samples_stored_mh" -> nr_span_events_max_samples_stored_mh(c, n, v)
       [] h = "nr_span_queue_size_mh" -> nr_span_queue_size_mh(c, n, v)
       [] h = "nr_special_appinfo_timeout_mh" -> nr_special_appinfo_timeout_mh(c, n, v)
       [] h = "nr_special_disable_instrumentation_mh" -> nr_special_disable_instrumentation_mh(c, n, v)
       [] h = "nr_special_enable_extension_instrumentation_mh" -> nr_special_enable_extension_instrumentation_mh(c, n, v)
       [] h = "nr_special_expensive_node_min_mh" -> nr_special_expensive_node_min_mh(c, n, v)
       [] h = "nr_special_mh" -> nr_special_mh(c, n, v)
       [] h = "nr_string_mh" -> nr_string_mh(c, n, v)
       [] h = "nr_time_mh" -> nr_time_mh(c, n, v)
       [] h = "nr_tt_detail_mh" -> nr_tt_detail_mh(c, n, v)
       [] h = "nr_tt_internal_mh" -> nr_tt_internal_mh(c, n, v)
       [] h = "nr_tt_max_segments_cli_mh" -> nr_tt_max_segments_cli_mh(c, n, v)
       [] h = "nr_tt_max_segments_web_mh" -> nr_tt_max_segments_web_mh(c, n, v)
       [] h = "nr_tt_threshold_mh" -> nr_tt_threshold_mh(c, n, v)
       [] h = "nr_ttcustom_mh" -> nr_ttcustom_mh(c, n, v)
       [] h = "nr_unsigned_int_mh" -> nr_unsigned_int_mh(c, n, v)
       [] h = "nr_wordpress_hooks_options_mh" -> nr_wordpress_hooks_options_mh(c, n, v)
       [] h = "nr_wtfuncs_mh" -> nr_wtfuncs_mh(c, n, v)
       [] h \in OtelStrings -> NR_OTEL_STRING_MH(c, n, v)
  IN Handler(Entries[n].mh)

---------------------------------------------------------------------------
(* What is shown of a setting, by phpinfo() and to the collector.           *)

\* nr_app_create_printable_license and nr_url_proxy_clean: "" if they fail.
Printable(v) == IF v = "license" THEN "li...se" ELSE ""
ProxyClean(v) == IF v = "user:pw@proxy" THEN "user:****@proxy" ELSE v

nr_license_dh(v) == IF Printable(v) = "" THEN "***INVALID FORMAT***" ELSE Printable(v)
nr_daemon_proxy_dh(v) == IF ProxyClean(v) = "" THEN "no value" ELSE ProxyClean(v)
nr_framework_dh(v) == IF v = "" THEN "auto-detect" ELSE v

\* The value that is shown, the active one or the original one.
nr_ini_displayer_cb(n, e, orig) ==
  LET v == IF orig /\ e.modified THEN e.orig ELSE e.value
  IN CASE n = "license" -> nr_license_dh(v)
       [] n = "daemon.proxy" -> nr_daemon_proxy_dh(v)
       [] n = "framework" -> nr_framework_dh(v)
       [] OTHER -> IF v = "" THEN "no value" ELSE v

Specials == {"special", "special.appinfo_timeout", "special.disable_instrumentation",
             "special.expensive_node_min", "special.enable_extension_instrumentation"}
DaemonSpecials == {"daemon.special.integration", "daemon.special.curl_verbose"}

\* phpinfo() lists the settings of the process with one value ...
nr_ini_displayer_global(n, e) ==
  IF Entries[n].perdir \/ (e.value = "" /\ n \in Specials \union DaemonSpecials) THEN {}
  ELSE {nr_ini_displayer_cb(n, e, FALSE)}

\* ... and those of a directory with two.
nr_ini_displayer_perdir(n, e) ==
  IF ~Entries[n].perdir THEN {} ELSE {nr_ini_displayer_cb(n, e, FALSE), nr_ini_displayer_cb(n, e, TRUE)}

\* The settings the application reports when it connects (nr_ini_settings).
nr_php_app_settings(n, e) ==
  IF /\ ~Entries[n].perdir /\ e.value = ""
     /\ n \in Specials \union (DOMAIN IniDaemon \ {"logfile", "loglevel", "high_security", "feature_flag"})
  THEN {}
  ELSE IF n \in {"browser_monitoring.debug", "distributed_tracing_enabled"}
  THEN {IF nr_bool_from_str(e.value) = 0 THEN "0" ELSE "1"}
  ELSE IF e.value = "" THEN {"no value"}
  ELSE IF n = "license" THEN {IF Printable(e.value) = "" THEN "INVALID_FORMAT" ELSE Printable(e.value)}
  ELSE IF n = "daemon.proxy" THEN {IF ProxyClean(e.value) = "" THEN "INVALID_FORMAT" ELSE ProxyClean(e.value)}
  ELSE {e.value}

---------------------------------------------------------------------------
(* The machine: a process that starts with a php.ini, and requests to       *)
(* directories with settings of their own.  A behaviour is about one        *)
(* setting, its subject: handlers touch nothing of another setting.         *)

VARIABLES
  iniSubject,  \* the name of the entry
  iniMaster,   \* its text in php.ini, NULL if it is not there
  iniEntry,    \* PHP's view: [value, orig, modified]
  iniConfig,   \* the agent's view
  iniPhase     \* "off", "idle" between requests, "request"

iniVars == <<iniSubject, iniMaster, iniEntry, iniConfig, iniPhase>>

\* php_newrelic_init_globals; the process globals are zero as well.
php_newrelic_init_globals(n) ==
  [ini |-> (n :> NULL), enabled |-> NULL, apdex_f |-> FALSE, wp |-> [plugins |-> FALSE, core |-> FALSE],
   sampler |-> [sampled |-> "default", not_sampled |-> "default"], lists |-> (n :> {})]

\* PHP registers the entry: with the text of php.ini if the handler takes it,
\* else with the default.
Registered(c, n, text) ==
  LET Outcome(r, d) ==
        IF r.ok THEN [value |-> text, c |-> r.c]
        ELSE [value |-> d, c |-> on_modify(r.c, n, d, "startup").c]
  IN Outcome(IF text = NULL THEN Refuse(c) ELSE on_modify(c, n, text, "startup"), Entries[n].def)

IniInit ==
  /\ iniSubject \in DOMAIN Entries
  /\ iniMaster \in {NULL} \union IniTexts
  /\ iniEntry = [value |-> "", orig |-> "", modified |-> FALSE]
  /\ iniConfig = php_newrelic_init_globals(iniSubject)
  /\ iniPhase = "off"

\* nr_php_register_ini_entries
IniStartup ==
  /\ iniPhase = "off"
  /\ \E r \in {Registered(iniConfig, iniSubject, iniMaster)} :
       /\ iniEntry' = [value |-> r.value, orig |-> "", modified |-> FALSE]
       /\ iniConfig' = r.c
  /\ iniPhase' = "idle"
  /\ UNCHANGED <<iniSubject, iniMaster>>

\* A request to a directory that sets the entry, or does not (NULL).  PHP does not
\* let a directory change a setting of the process.  A text the handler refuses
\* counts as a change too, which is undone at the end.
IniRequest ==
  \E text \in {NULL} \union IniTexts :
    /\ iniPhase = "idle"
    /\ IF text = NULL \/ ~Entries[iniSubject].perdir THEN UNCHANGED <<iniEntry, iniConfig>>
       ELSE \E r \in {on_modify(iniConfig, iniSubject, text, "activate")} :
              /\ iniConfig' = r.c
              /\ iniEntry' = [value |-> IF r.ok THEN text ELSE iniEntry.value,
                              orig |-> iniEntry.value, modified |-> TRUE]
    /\ iniPhase' = "request"
    /\ UNCHANGED <<iniSubject, iniMaster>>

\* PHP puts the original text back, whatever the handler says.
IniRequestEnd ==
  /\ iniPhase = "request"
  /\ IF ~iniEntry.modified THEN UNCHANGED <<iniEntry, iniConfig>>
     ELSE /\ iniConfig' = on_modify(iniConfig, iniSubject, iniEntry.orig, "deactivate").c
          /\ iniEntry' = [value |-> iniEntry.orig, orig |-> "", modified |-> FALSE]
  /\ iniPhase' = "idle"
  /\ UNCHANGED <<iniSubject, iniMaster>>

IniNext == IniStartup \/ IniRequest \/ IniRequestEnd

---------------------------------------------------------------------------

\* The type invariant: whatever an INI file says, every number that limits a queue
\* or a reservoir is in the range the code behind it was written for.  One text
\* escapes: an empty one in php.ini leaves the size of the span queue at zero.
IniTypeOK ==
  LET InRange(mh, val) ==
        CASE mh = "nr_span_queue_size_mh" ->
               IF val = NULL THEN iniMaster = "" ELSE val >= NR_MAX_8T_SPAN_BATCH_SIZE
          [] mh = "nr_span_events_max_samples_stored_mh" -> val \in 1 .. 10000
          [] mh = "nr_log_events_max_samples_stored_mh" -> val \in 0 .. 20000
          [] mh = "nr_custom_events_max_samples_stored_mh" -> val \in 0 .. 100000
          [] mh = "nr_tt_detail_mh" -> val \in 0 .. 2
          [] mh = "nr_boolean_mh" -> val \in 0 .. 1
          [] OTHER -> TRUE
  IN /\ iniPhase \in {"off", "idle", "request"}
     /\ iniPhase # "off" => InRange(Entries[iniSubject].mh, iniConfig.ini[iniSubject])

\* The state after the start-up.
Started(n, text) == Registered(php_newrelic_init_globals(n), n, text).c

\* A setting of a directory ends with its request, as long as the master's text is
\* not empty and the handler takes it back: the value, the callbacks of WordPress that are
\* instrumented and the decisions of the sampler are those of the start-up again
\* (side effects of the handlers in agent/php_nrini.c).
MasterComesBack ==
  (/\ iniPhase = "idle" /\ iniEntry.value # ""
   /\ on_modify(iniConfig, iniSubject, iniEntry.value, "startup").ok) =>
    \A s \in {Started(iniSubject, iniMaster)} :
      /\ iniConfig.ini = s.ini
      /\ iniConfig.wp = s.wp
      /\ iniConfig.sampler = s.sampler

\* The agent is switched on or off for the process by php.ini alone; a directory
\* that switches it off does so for its requests (nr_enabled_mh).
ProcessEnabledByMaster ==
  iniSubject = "enabled" /\ iniPhase # "off" =>
    iniConfig.enabled = Started(iniSubject, iniMaster).enabled

\* Neither phpinfo() nor the settings that go to the collector show the license or
\* the password of the proxy, with either text, in any phase
\* (nr_license_dh, nr_daemon_proxy_dh, nr_ini_settings).
SecretsAreCleaned ==
  LET shown == nr_php_app_settings(iniSubject, iniEntry) \union nr_ini_displayer_global(iniSubject, iniEntry)
               \union nr_ini_displayer_perdir(iniSubject, iniEntry)
  IN /\ iniSubject = "license" => "license" \notin shown
     /\ iniSubject = "daemon.proxy" => "user:pw@proxy" \notin shown

\* Settings of a directory count for its requests, limits are kept and secrets
\* are not shown, whatever the INI files say (agent/php_nrini.c).
SettingsHold == IniTypeOK /\ MasterComesBack /\ ProcessEnabledByMaster /\ SecretsAreCleaned
=============================================================================
