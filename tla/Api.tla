--------------------------------- MODULE Api ---------------------------------
(***************************************************************************)
(* The functions a PHP application calls, agent/php_api.c: each looks for  *)
(* a transaction that is recording, counts itself, parses its arguments    *)
(* and hands them to the transaction.  Three of them do not work on the    *)
(* current transaction but end it, begin one, or do one after the other    *)
(* (newrelic_set_appname).                                                 *)
(*                                                                         *)
(* a is the state of the request: its transaction with the application and *)
(* the license it belongs to, what outlives a transaction, and what the    *)
(* call has answered.  A value is a pair of its PHP type and its text.     *)
(***************************************************************************)
EXTENDS Request

CONSTANTS ApMaxCalls   \* bound: calls of one request

VARIABLE ap

apVars == <<ap>>

---------------------------------------------------------------------------
(* PHP's side.                                                              *)

Scalars == {"null", "long", "double", "true", "false", "string"}

\* The types that each letter of a parameter specification takes.
ZppTypes ==
  [s |-> Scalars, b |-> Scalars, l |-> Scalars \ {"string"}, d |-> Scalars \ {"string"},
   z |-> Scalars \union {"array", "object", "badstring"}, a |-> {"array"}, o |-> {"object"},
   f |-> {"callable"}]

\* As many arguments as the specification has, but for the optional ones.
zend_parse_parameters(args, spec, optional) ==
  /\ Len(args) \in (Len(spec) - optional)..Len(spec)
  /\ \A i \in DOMAIN args : args[i].type \in ZppTypes[spec[i]]

Ret(a, answer) == [a EXCEPT !.ret = answer]
\* Mutant: any transaction will do, one that is over included.
HasTransaction(a) == a.txn # NULL

IsRecording(a) == a.txn # NULL /\ a.txn.recording

nr_php_api_error(a) == [a EXCEPT !.warnings = @ + 1]

nr_php_api_add_supportability_metric(a, name) ==
  IF a.txn = NULL THEN a
  ELSE [a EXCEPT !.txn = AddMetrics(@, {<<"Supportability/api", name>>})]

\* The beginning of most functions: the answer outside of a transaction, or the
\* rest of the function, which is counted before its arguments are looked at.
Counted(a, name, outside, Rest(_)) ==
  IF ~IsRecording(a) THEN Ret(a, outside)
  ELSE Rest(nr_php_api_add_supportability_metric(a, name))

\* A flag is on when it is not given, or cannot be parsed.
FlagOf(args) ==
  IF Len(args) >= 1 /\ zend_parse_parameters(args, <<"b">>, 0)
  THEN args[1].type \notin {"false", "null"} ELSE TRUE

\* Scalars become attributes, anything else is refused with a warning.
nr_php_api_zval_to_attribute_obj(a, zval) ==
  IF zval.type \in Scalars THEN [a |-> a, obj |-> zval.v]
  ELSE [a |-> nr_php_api_error(a), obj |-> NULL]

---------------------------------------------------------------------------
(* Errors.                                                                  *)

ApiErrorPriority(a) == IF a.prioritize THEN 99 ELSE 5

\* The exception of the arguments, or the message.
ExceptionArgument(args) ==
  IF Len(args) = 1 /\ zend_parse_parameters(args, <<"o">>, 0) THEN args[1].v
  ELSE IF Len(args) = 2 /\ args[2].type = "object" THEN args[2].v ELSE NULL

ParsesAsNotice(args) ==
  CASE Len(args) = 1 -> zend_parse_parameters(args, <<"o">>, 0)
                          \/ zend_parse_parameters(args, <<"s">>, 0)
    [] Len(args) = 2 -> args[2].type \in {"object", "null"}
    [] Len(args) \in {4, 5} -> zend_parse_parameters(args, <<"l", "s", "s", "l", "z">>, 1)
    [] OTHER -> FALSE

MessageArgument(args) ==
  CASE Len(args) = 1 -> <<args[1].v>>
    [] Len(args) = 2 -> NULL
    [] OTHER -> <<args[2].v>>

\* A null exception is taken for an error without a message, which is refused
\* later: the answer is TRUE all the same.
newrelic_notice_error(a0, args) ==
  LET Rest(a) ==
        LET exc == ExceptionArgument(args)
            Record(msg) == Ret([a EXCEPT !.txn = nr_txn_record_error(@, ApiErrorPriority(a), msg, "segment")],
                               "TRUE")
        IN IF ~nr_txn_record_error_worthy(a.txn, ApiErrorPriority(a)) THEN Ret(a, "FALSE")
           ELSE IF ~ParsesAsNotice(args) THEN Ret(a, "NULL")
           ELSE IF exc = NULL THEN Record(MessageArgument(args))
           ELSE IF exc \in {"ignored", "stdclass"} THEN Ret(a, "NULL")
           ELSE Record(<<exc>>)
  IN Counted(a0, "notice_error", "FALSE", Rest)

\* Only one that takes two arguments; it stays for the process.
newrelic_set_error_group_callback(a0, args) ==
  LET a == nr_php_api_add_supportability_metric(a0, "set_error_group_callback")
  IN IF ~zend_parse_parameters(args, <<"f">>, 0) \/ args[1].v # "two" THEN Ret(a, "FALSE")
     ELSE Ret([a EXCEPT !.callback = TRUE], "TRUE")

---------------------------------------------------------------------------
(* What kind of transaction it is.                                          *)

newrelic_ignore_transaction(a) ==
  IF ~IsRecording(a) THEN Ret(a, "NULL") ELSE Ret([a EXCEPT !.txn = nr_txn_ignore(@)], "NULL")

newrelic_ignore_apdex(a0) ==
  LET Rest(a) == Ret([a EXCEPT !.txn.ignore_apdex = TRUE], "NULL")
  IN Counted(a0, "ignore_apdex", "NULL", Rest)

newrelic_background_job(a0, args) ==
  LET Rest(a) == Ret([a EXCEPT !.txn = nr_txn_change_background_status(@, FlagOf(args))], "NULL")
  IN Counted(a0, "background_job", "NULL", Rest)

\* TRUE even when it is too late for a name.
newrelic_name_transaction(a0, args) ==
  LET Rest(a) == IF ~zend_parse_parameters(args, <<"s">>, 0) \/ args[1].v = "" THEN Ret(a, "FALSE")
                 ELSE Ret([a EXCEPT !.txn = nr_txn_set_path(@, <<args[1].v>>, "CUSTOM", TRUE)], "TRUE")
  IN Counted(a0, "name_transaction", "TRUE", Rest)

newrelic_disable_autorum(a0) ==
  LET Rest(a) == Ret([a EXCEPT !.txn.opts.autorum = FALSE], "TRUE")
  IN Counted(a0, "disable_autorum", "NULL", Rest)

BrowserTimingOf(a, produced) ==
  Ret([a EXCEPT !.txn = produced.t], IF produced.out = NULL THEN "EMPTY" ELSE produced.out)

newrelic_get_browser_timing_header(a0) ==
  LET Rest(a) == BrowserTimingOf(a, nr_rum_produce_header(a.txn, a.conn, FALSE))
  IN Counted(a0, "get_browser_timing_header", "EMPTY", Rest)

newrelic_get_browser_timing_footer(a0) ==
  LET Rest(a) == BrowserTimingOf(a, nr_rum_produce_footer(a.txn, a.conn, FALSE))
  IN Counted(a0, "get_browser_timing_footer", "EMPTY", Rest)

---------------------------------------------------------------------------
(* What it carries.                                                         *)

nr_php_api_capture_params_internal(a0, function_name, args) ==
  LET Rest(a) == Ret([a EXCEPT !.capture = FlagOf(args)], "NULL")
  IN Counted(a0, function_name, "NULL", Rest)

newrelic_enable_params(a, args) == nr_php_api_capture_params_internal(a, "enable_params", args)
newrelic_capture_params(a, args) == nr_php_api_capture_params_internal(a, "capture_params", args)

newrelic_custom_metric(a0, args) ==
  LET Rest(a) ==
        IF ~zend_parse_parameters(args, <<"s", "d">>, 0) \/ args[2].v \in {"nan", "inf"}
        THEN Ret(a, "FALSE")
        ELSE Ret([a EXCEPT !.txn = nr_txn_add_custom_metric(@, args[1].v, args[2].v)], "TRUE")
  IN Counted(a0, "custom_metric", "TRUE", Rest)

\* A key of any type has a name.
KeyOf(zval) ==
  CASE zval.type \in {"string", "long", "double"} -> zval.v
    [] zval.type = "null" -> "(null)"
    [] zval.type = "true" -> "True"
    [] zval.type = "false" -> "False"
    [] zval.type = "badstring" -> "(Invalid String)"
    [] OTHER -> "(Other)"

UserParameterRefused(t, value) == t.high_security \/ ~t.opts.custom_parameters \/ value \in {"nan", "inf"}

AddUserParameter(a, key, value) ==
  IF UserParameterRefused(a.txn, value) THEN Ret(a, "FALSE")
  ELSE Ret([a EXCEPT !.txn = nr_txn_add_user_custom_parameter(@, key)], "TRUE")

\* A value that is no attribute is a warning, and the answer is TRUE.
newrelic_add_custom_parameter(a0, args) ==
  LET Rest(a) ==
        IF ~zend_parse_parameters(args, <<"z", "z">>, 0) THEN Ret(a, "FALSE")
        ELSE LET value == nr_php_api_zval_to_attribute_obj(a, args[2])
             IN IF value.obj = NULL THEN Ret(value.a, "TRUE")
                ELSE AddUserParameter(a, KeyOf(args[1]), value.obj)
  IN Counted(a0, "add_custom_parameter", "TRUE", Rest)

nr_php_api_add_custom_parameter_string(a, key, val) ==
  IF val = "" THEN Ret(a, "TRUE") ELSE AddUserParameter(a, key, val)

\* The first that is refused is the last.
newrelic_set_user_attributes(a0, args) ==
  LET Rest(a) ==
        LET Add(b, i) == IF b.ret = "FALSE" THEN b
                         ELSE nr_php_api_add_custom_parameter_string(b,
                                <<"user", "account", "product">>[i], args[i].v)
        IN IF ~zend_parse_parameters(args, <<"s", "s", "s">>, 0) THEN Ret(a, "FALSE")
           ELSE Add(Add(Add(Ret(a, "TRUE"), 1), 2), 3)
  IN Counted(a0, "set_user_attributes", "TRUE", Rest)

\* On the segment that is running.
nr_php_api_add_custom_span_attribute(a, key, value) ==
  IF value = NULL THEN Ret(a, "FALSE") ELSE Ret([a EXCEPT !.span = @ \union {key}], "TRUE")

newrelic_add_custom_span_parameter(a0, args) ==
  LET Rest(a) ==
        IF ~zend_parse_parameters(args, <<"s", "z">>, 0) THEN Ret(a, "FALSE")
        ELSE LET value == nr_php_api_zval_to_attribute_obj(a, args[2])
             IN nr_php_api_add_custom_span_attribute(value.a, args[1].v, value.obj)
  IN Counted(a0, "add_custom_span_parameter", "TRUE", Rest)

\* The identity of a user: a string of at most 255 bytes.
newrelic_set_user_id(a0, args) ==
  LET Rest(a) ==
        IF Len(args) # 1 \/ args[1].type # "string" \/ args[1].v \in {"", "too_long"}
        THEN Ret(a, "FALSE")
        ELSE Ret([a EXCEPT !.txn.attrs = @ \union
                    {[name |-> <<"enduser.id">>, dests |-> {"event", "trace", "error", "span"}]}],
                 "TRUE")
  IN Counted(a0, "set_user_id", "FALSE", Rest)

\* The members of an array that have a string for a key; the others, and those
\* that are no attributes, cost a warning each.
nr_php_api_transform_custom_events_attributes(a, elements) ==
  LET refused == {i \in DOMAIN elements : \/ elements[i].key.type # "string"
                                         \/ nr_php_api_zval_to_attribute_obj(a, elements[i].val).obj = NULL}
  IN [a EXCEPT !.warnings = @ + Cardinality(refused)]

newrelic_record_custom_event(a0, args) ==
  LET Rest(a) ==
        IF ~zend_parse_parameters(args, <<"s", "a">>, 0) THEN Ret(a, "NULL")
        ELSE IF args[1].v = "" THEN Ret(nr_php_api_error(a), "NULL")
        ELSE Ret([nr_php_api_transform_custom_events_attributes(a, args[2].elements)
                    EXCEPT !.txn = nr_txn_record_custom_event(@)], "NULL")
  IN IF IsRecording(a0) /\ ~a0.txn.opts.custom_events THEN Ret(a0, "NULL")
     ELSE Counted(a0, "record_custom_event", "NULL", Rest)

newrelic_add_custom_tracer(a0, args) ==
  LET Rest(a) == IF ~zend_parse_parameters(args, <<"s">>, 0) THEN Ret(a, "FALSE")
                 ELSE Ret([a EXCEPT !.tracers = @ \union {args[1].v}], "TRUE")
  IN Counted(a0, "add_custom_tracer", "TRUE", Rest)

---------------------------------------------------------------------------
(* What it tells.                                                           *)

newrelic_is_sampled(a0) ==
  LET Rest(a) == Ret(a, IF nr_txn_is_sampled(a.txn) THEN "TRUE" ELSE "FALSE")
  IN Counted(a0, "is_sampled", "FALSE", Rest)

\* The members of the answer: those that are known.
nr_php_add_assoc_string_const(told, key, value) ==
  IF value = NULL THEN told ELSE told \union {<<key, value>>}

TraceMembers(a) ==
  IF a.txn = NULL \/ ~a.txn.opts.dt THEN {} ELSE {<<"trace.id", a.txn.dt.trace_id.id>>}

newrelic_get_linking_metadata(a0) ==
  LET a      == nr_php_api_add_supportability_metric(a0, "get_linking_metadata")
      entity == IF a.app = NULL THEN {}
                ELSE nr_php_add_assoc_string_const({}, "entity.name", <<a.app.name>>)
  IN Ret([a EXCEPT !.told = entity \union TraceMembers(a)], "array")

newrelic_get_trace_metadata(a0) ==
  LET a == nr_php_api_add_supportability_metric(a0, "get_trace_metadata")
  IN Ret([a EXCEPT !.told = TraceMembers(a)], "array")

---------------------------------------------------------------------------
(* Ending and beginning.                                                    *)

\* The transaction is over, and stays until it is sent.
newrelic_end_of_transaction(a0) ==
  LET Rest(a) == Ret([a EXCEPT !.txn = nr_txn_end(@, a.conn, 1).t], "NULL")
  IN Counted(a0, "end_of_transaction", "NULL", Rest)

SendTransaction(a, ignoretxn) ==
  LET Over(sent) ==
        [a EXCEPT !.txn = NULL, !.span = {},
           !.sent = IF sent = NULL THEN @ ELSE Append(@, [t |-> sent.t, app |-> a.app, over |-> a.over])]
  IN IF a.txn = NULL THEN a
     ELSE Over(nr_php_txn_end(a.txn, a.conn, [a.ini EXCEPT !.capture_params = a.capture],
                              DefaultServer, ignoretxn, FALSE))

\* A license that is given has to look like one; else that of newrelic.ini counts.
nr_php_use_license(license) ==
  IF license = "" THEN "own" ELSE IF license = "short" THEN NULL ELSE license

\* An application that is new to the process has to be asked for first, so the
\* transaction cannot begin.  What the request was told to capture stays.
BeginApplication(a, name, license) ==
  LET lic == nr_php_use_license(license)
  IN IF lic = NULL THEN a
     ELSE IF name = "new" THEN [a EXCEPT !.app = NULL]
     ELSE [a EXCEPT !.app = [name |-> IF name = "" THEN "default" ELSE name, license |-> lic],
             !.txn = nr_php_txn_begin(a.conn, a.ini, DefaultServer, <<"guid", a.calls>>, 1, TRUE)]

newrelic_end_transaction(a0, args) ==
  LET a == nr_php_api_add_supportability_metric(a0, "end_transaction")
  IN IF a0.txn = NULL THEN Ret(a, "FALSE")
     ELSE IF Len(args) = 1 /\ ~zend_parse_parameters(args, <<"b">>, 0) THEN Ret(a, "FALSE")
     ELSE Ret(SendTransaction(a, Len(args) = 1 /\ FlagOf(args)), "TRUE")

newrelic_start_transaction(a, args) ==
  LET Started(begun) ==
        IF begun.txn = NULL THEN Ret(begun, "FALSE")
        ELSE Ret(nr_php_api_add_supportability_metric(begun, "start_transaction"), "TRUE")
  IN IF a.txn # NULL \/ ~zend_parse_parameters(args, <<"s", "s">>, 1) THEN Ret(a, "FALSE")
     ELSE Started(BeginApplication(a, args[1].v, IF Len(args) = 2 THEN args[2].v ELSE ""))

\* Mutant: a license that is not permitted is seen before the transaction ends.
SetAppnameDeniedFirst(a0, args) ==
  LET license == IF Len(args) >= 2 THEN args[2].v ELSE ""
      ended   == SendTransaction(a0, Len(args) < 3 \/ args[3].type = "false")
      Switched(begun) == Ret(begun, IF begun.txn = NULL THEN "FALSE" ELSE "TRUE")
  IN IF ~zend_parse_parameters(args, <<"s", "s", "b">>, 2) THEN Ret(a0, "FALSE")
     ELSE IF license # "" /\ a0.txn # NULL /\ a0.app.license # license /\ a0.token
     THEN Ret(nr_php_api_error(a0), "FALSE")
     ELSE Switched(BeginApplication(ended, args[1].v, license))

\* The transaction of the old application ends, sent or (by default) not, and one
\* of the new application begins.  With security policies the license may not be
\* another one: then none begins.
newrelic_set_appname(a0, args) ==
  LET before  == nr_php_api_add_supportability_metric(a0, "set_appname/before")
      license == IF Len(args) >= 2 THEN args[2].v ELSE ""
      changed == license # "" /\ a0.txn # NULL /\ a0.app.license # license
      denied  == changed /\ a0.token
      noted   == IF denied THEN nr_php_api_add_supportability_metric(before, "set_appname/lasp_denied")
                 ELSE before
      names   == (IF license = "" THEN {} ELSE {"set_appname/with_license"})
                 \union (IF changed THEN {"set_appname/switched_license"} ELSE {})
                 \union {"set_appname/after"}
      Switched(begun) ==
        IF begun.txn = NULL THEN Ret(begun, "FALSE")
        ELSE Ret([begun EXCEPT !.txn = AddMetrics(@, {<<"Supportability/api", n>> : n \in names})],
                 "TRUE")
      Ended(ended) ==
        IF denied THEN Ret(nr_php_api_error(ended), "FALSE")
        ELSE Switched(BeginApplication(ended, args[1].v, license))
  IN IF ~zend_parse_parameters(args, <<"s", "s", "b">>, 2) THEN Ret(before, "FALSE")
     ELSE Ended(SendTransaction(noted, Len(args) < 3 \/ args[3].type = "false"))

---------------------------------------------------------------------------
(* Behaviour.                                                               *)

Z(type, v) == [type |-> type, v |-> v]
Str(v) == Z("string", v)
Lists(S, n) == UNION {[1..k -> S] : k \in 0..n}
Member(key, val) == [key |-> key, val |-> val]
Attributes == [type |-> "array", elements |-> <<Member(Str("k"), Str("v")),
                 Member(Z("long", "1"), Str("v")), Member(Str("l"), Z("array", "x"))>>]

Names == {Str("default"), Str("other"), Str("new"), Str("")}
Licenses == {Str(""), Str("own"), Str("foreign"), Str("short")}

Flags == {Z("true", "1"), Z("false", "")}
AppnameArgs == {<<n, l, x>> : n \in Names, l \in Licenses, x \in Flags}
               \union {<<n>> : n \in Names}

\* What a request may call, by topic, and what comes of it.
SwitchCalls(a) ==
  {[newrelic_set_appname(a, args) EXCEPT !.asked = args] : args \in AppnameArgs}
  \union {newrelic_start_transaction(a, args) : args \in {<<Str("other"), l>> : l \in Licenses}
                                                      \union {<<Str("new")>>, <<Z("array", "x")>>}}
  \union {newrelic_end_transaction(a, args) : args \in Lists(Flags \union {Z("array", "x")}, 1)}
  \union {newrelic_end_of_transaction(a), newrelic_ignore_transaction(a),
          newrelic_get_linking_metadata(a), newrelic_get_trace_metadata(a),
          newrelic_add_custom_parameter(a, <<Str("k"), Str("v")>>),
          newrelic_capture_params(a, <<Z("true", "1")>>), newrelic_enable_params(a, <<Z("false", "")>>)}

NoticeArgs == Lists({Str("text"), Z("object", "exception"), Z("object", "ignored"), Z("null", "")}, 2)
              \union {<<Z("long", "1"), Str("text"), Str("file"), Z("long", "1")>>}
ParameterArgs == {<<k, v>> : k \in {Str("k"), Z("null", ""), Z("true", "1"), Z("badstring", "")},
                             v \in {Str("v"), Z("array", "x"), Z("double", "nan")}}

DataCalls(a) ==
  {newrelic_notice_error(a, args) : args \in NoticeArgs}
  \union {newrelic_add_custom_parameter(a, args) : args \in ParameterArgs}
  \union {newrelic_add_custom_span_parameter(a, <<Str("s"), v>>) : v \in {Str("v"), Z("array", "x")}}
  \union {newrelic_set_user_attributes(a, args) : args \in {<<Str("u"), Str(""), Str("p")>>, <<Str("u")>>}}
  \union {newrelic_set_user_id(a, <<Str(v)>>) : v \in {"", "id", "too_long"}}
  \union {newrelic_custom_metric(a, <<Str("m"), Z("double", v)>>) : v \in {"1", "inf"}}
  \union {newrelic_record_custom_event(a, <<Str(v), Attributes>>) : v \in {"", "type"}}
  \union {newrelic_end_of_transaction(a), newrelic_get_trace_metadata(a),
          newrelic_set_error_group_callback(a, <<Z("callable", "two")>>),
          newrelic_set_error_group_callback(a, <<Z("callable", "one")>>),
          newrelic_end_transaction(a, <<>>)}

KindCalls(a) ==
  {newrelic_background_job(a, args) : args \in Lists(Flags, 1)}
  \union {newrelic_name_transaction(a, <<Str(v)>>) : v \in {"", "name"}}
  \union {newrelic_ignore_apdex(a), newrelic_disable_autorum(a), newrelic_is_sampled(a),
          newrelic_get_browser_timing_header(a), newrelic_get_browser_timing_footer(a),
          newrelic_add_custom_tracer(a, <<Str("f")>>), newrelic_end_of_transaction(a),
          newrelic_end_transaction(a, <<>>)}

ApiCalls(a) ==
  CASE a.topic = "switch" -> SwitchCalls(a) [] a.topic = "data" -> DataCalls(a) [] a.topic = "kind" -> KindCalls(a)

\* The applications that requests belong to.
ApConn(secure) == [DefaultApp EXCEPT !.high_security = secure]
ApConns == {ApConn(secure) : secure \in BOOLEAN}

\* What newrelic_set_appname adds to a transaction it has begun.
SwitchMetrics == {<<"Supportability/api", name>> :
                     name \in {"set_appname/with_license", "set_appname/switched_license", "set_appname/after"}}

\* The null pointer is no transaction.
ASSUME ApiAssumption ==
  /\ ApMaxCalls \in Nat
  /\ \A app \in ApConns, n \in 0..ApMaxCalls, S \in SUBSET SwitchMetrics :
       NULL # AddMetrics(nr_php_txn_begin(app, DefaultIni, DefaultServer, <<"guid", n>>, 1, TRUE), S)

ApRequest(topic, token, prioritize, secure) ==
  LET app == ApConn(secure)
  IN [topic |-> topic, token |-> token, prioritize |-> prioritize, conn |-> app, ini |-> DefaultIni,
      app |-> [name |-> "default", license |-> "own"],
      txn |-> nr_php_txn_begin(app, DefaultIni, DefaultServer, <<"guid", 0>>, 1, TRUE),
      capture |-> FALSE, callback |-> FALSE, tracers |-> {}, span |-> {}, told |-> {},
      warnings |-> 0, ret |-> "NULL", sent |-> <<>>, calls |-> 0,
      over |-> NULL, asked |-> <<>>, was |-> [app |-> NULL, txn |-> NULL]]

ApInit == \E topic \in {"switch", "data", "kind"}, token, flag \in BOOLEAN :
  ap = ApRequest(topic, token, flag, flag)

\* The names of attributes that an application may have given.
SaidNames == {<<"user", k>> : k \in {"k", "user", "account", "product", "True", "(null)", "(Invalid String)"}}
             \union {<<"enduser.id">>}

\* What an application may have said of a transaction.
Said(t) == [name |-> t.path, error |-> t.error, events |-> t.custom_events,
            background |-> t.background, apdex |-> t.ignore_apdex,
            users |-> {x.name : x \in t.attrs} \intersect SaidNames,
            metrics |-> {m \in t.metrics : m[1] = "Custom"}]

\* One call.  History: what was said when the transaction was over (over), and
\* the application before the call.
ApCall ==
  /\ ap.calls < ApMaxCalls
  /\ \E r \in ApiCalls([ap EXCEPT !.told = {}, !.ret = "NULL", !.asked = <<>>]) :
       ap' = [r EXCEPT !.calls = @ + 1, !.was = [app |-> ap.app, txn |-> ap.txn],
                !.over = IF r.txn = NULL \/ ~r.txn.complete THEN NULL
                         ELSE IF ap.over = NULL THEN Said(r.txn) ELSE @]

ApNext == ApCall

ApSpec == ApInit /\ [][ApNext]_apVars

---------------------------------------------------------------------------
(* Properties.                                                              *)

\* newrelic_set_appname leaves the old application in any case: its answer says
\* whether a transaction of the application and license it was asked for is
\* running, and where it fails (the license, the policies, an application that is
\* not known yet) there is none, until the request begins one.  With a token of
\* security policies it never goes on with another license of the caller's.
SwitchedOrNone ==
  LET asked == ap.asked
      license == IF Len(asked) >= 2 THEN asked[2].v ELSE ""
  IN asked # <<>> =>
       /\ ap.ret = "TRUE" <=> ap.txn # NULL
       /\ ap.txn # NULL => /\ ap.app.name = IF asked[1].v = "" THEN "default" ELSE asked[1].v
                           /\ ap.app.license = nr_php_use_license(license)
                           /\ ap.token /\ ap.was.txn # NULL => license \in {"", ap.was.app.license}

\* After newrelic_end_of_transaction nothing an application says changes what is
\* sent: its name, its error, its events, metrics and parameters are those of
\* that moment, however long the request goes on.
OverStaysOver ==
  /\ ap.over # NULL => Said(ap.txn) = ap.over
  /\ \A i \in DOMAIN ap.sent : ap.sent[i].over # NULL => Said(ap.sent[i].t) = ap.sent[i].over

\* What a function of the API answers is what it did, when a call ends a
\* transaction and begins another one (newrelic_set_appname) and when the
\* transaction is over (newrelic_end_of_transaction).
ApiKeepsItsWord == SwitchedOrNone /\ OverStaysOver
=============================================================================
