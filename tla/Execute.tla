------------------------------ MODULE Execute ------------------------------
(***************************************************************************)
(* The execution of user code under the agent: php_execute.c (the observer  *)
(* handlers of PHP 8.0+, and zend_execute_ex before), the errors and         *)
(* exceptions of php_error.c, and the fibers of php_observer.c.              *)
(*                                                                           *)
(* A transaction is the number of its start time.  Its open segments are a   *)
(* stack, the root first; a segment knows the call it was started for.        *)
(* Functions differ in their wraprecs:                                       *)
(*   plain    none                                                           *)
(*   traced   a wraprec without callbacks                                     *)
(*   own      the before callback starts a segment of its own, after and      *)
(*            clean end it (Predis, MongoDB)                                  *)
(*   worker   before, after and clean end the transaction and begin another   *)
(*            (Laravel's queue worker)                                        *)
(*   command  the after callback ends the transaction (Laravel's command)     *)
(*   handler  the script's exception handler                                  *)
(***************************************************************************)
EXTENDS AgentBase, Sequences, FiniteSets, SequencesExt, FiniteSetsExt, Integers

CONSTANTS
  XcFunctions,  \* functions that are called, of the kinds above
  XcMaxCalls,   \* cap on the calls
  XcMaxTxns,    \* cap on the transactions
  XcFiles,      \* names of files that are loaded
  XcNesting     \* newrelic.special.max_nesting_level; 0 is none

VARIABLE xc

xcVars == <<xc>>

---------------------------------------------------------------------------
(* Frameworks and libraries, by the ends of file names.                      *)

all_frameworks ==
  << <<"cakephp/src/core/functions.php", "cakephp">>, <<"codeigniter.php", "codeigniter">>,
     <<"core/includes/bootstrap.inc", "drupal8">>, <<"includes/common.inc", "drupal">>,
     <<"joomla/import.php", "joomla">>, <<"libraries/joomla/factory.php", "joomla">>,
     <<"laminas/mvc/application.php", "laminas3">>, <<"laminas-mvc/src/application.php", "laminas3">>,
     <<"illuminate/foundation/application.php", "laravel">>, <<"app/mage.php", "magento">>,
     <<"magento/framework/registration.php", "magento2">>, <<"slim/slim/app.php", "slim">>,
     <<"slim/slim/slim.php", "slim">>, <<"http-kernel/httpkernel.php", "symfony4">>,
     <<"wp-config.php", "wordpress">>, <<"framework/yii.php", "yii">>,
     <<"framework/yiilite.php", "yii">>, <<"yii2/baseyii.php", "yii2">> >>

\* All of them have an enable function.
libraries ==
  << <<"aws-sdk-php/src/awsclient.php", "AWS-SDK-PHP">>, <<"doctrine/orm/query.php", "Doctrine 2">>,
     <<"doctrine/orm/src/query.php", "Doctrine 2">>, <<"hasemitterinterface.php", "Guzzle 4-5">>,
     <<"guzzle/src/functions_include.php", "Guzzle 6">>, <<"mongodb/src/client.php", "MongoDB">>,
     <<"phpamqplib/connection/abstractconnection.php", "php-amqplib">>,
     <<"predis/src/client.php", "Predis">>, <<"predis/client.php", "Predis">>,
     <<"laminas-http/src/client.php", "Laminas_Http">> >>

\* The last component: is there an enable function?
logging_frameworks ==
  << <<"monolog/logger.php", "Monolog", TRUE>>, <<"consolidation/log/src/logger.php", "Consolidation/Log", FALSE>>,
     <<"laminas-log/src/logger.php", "laminas-log", FALSE>> >>

vuln_mgmt_packages ==
  << <<"drupal/component/dependencyinjection/container.php", "drupal">>,
     <<"wp-includes/version.php", "wordpress">> >>

\* In this model a file is named by the entry its name ends with.
EndsWith(file, end) == file = end

nr_php_framework_from_config(name) ==
  IF name \in {"none", "no_framework"} THEN "none"
  ELSE IF \E i \in DOMAIN all_frameworks : all_frameworks[i][2] = name THEN name ELSE NULL

nr_try_detect_framework(file) ==
  LET i == SelectInSeq(all_frameworks, LAMBDA f : EndsWith(file, f[1]))
  IN IF i = 0 THEN NULL ELSE all_frameworks[i][2]

nr_try_force_framework(forced) ==
  IF \E i \in DOMAIN all_frameworks : all_frameworks[i][2] = forced THEN forced ELSE NULL

\* The framework of a request is decided once; deciding it enables its
\* instrumentation.
nr_execute_handle_framework(x, file) ==
  LET fw == IF x.forced = NULL THEN nr_try_detect_framework(file)
            ELSE IF x.forced = "none" THEN "none" ELSE nr_try_force_framework(x.forced)
  IN IF x.fw # NULL \/ fw = NULL THEN x
     ELSE [x EXCEPT !.fw = fw, !.enabled = IF fw = "none" THEN @ ELSE Append(@, fw)]

\* The metric that tells how the framework was found.
nr_framework_create_metric(x) ==
  IF x.fw = NULL \/ x.txn = NULL THEN x
  ELSE [x EXCEPT !.metrics = @ \cup {<<"framework", x.fw, IF x.forced = NULL THEN "detected" ELSE "forced">>}]

nr_execute_handle_library(x, file) ==
  LET found == {libraries[i][2] : i \in {j \in DOMAIN libraries : EndsWith(file, libraries[j][1])}}
  IN [x EXCEPT !.libs = @ \cup found, !.metrics = @ \cup {<<"library", l, "detected">> : l \in found}]

\* vulnerability_management: Composer's autoloader is noted once per transaction.
nr_execute_handle_autoload(x, file) ==
  IF ~x.packages \/ x.txn = NULL \/ x.autoload \/ file # "vendor/autoload.php" THEN x
  ELSE [x EXCEPT !.autoload = TRUE, !.metrics = @ \cup {<<"library", "Autoloader", "detected">>}]

nr_execute_handle_logging_framework(x, file) ==
  LET found == {logging_frameworks[i] : i \in {j \in DOMAIN logging_frameworks : EndsWith(file, logging_frameworks[j][1])}}
  IN [x EXCEPT !.libs = @ \cup {l[2] : l \in {k \in found : x.logging /\ k[3]}},
               !.metrics = @ \cup {<<"logging", l[2], IF x.logging /\ l[3] THEN "enabled" ELSE "disabled">> : l \in found}]

nr_execute_handle_package(x, file) ==
  [x EXCEPT !.libs = @ \cup {vuln_mgmt_packages[i][2] :
                               i \in {j \in DOMAIN vuln_mgmt_packages : EndsWith(file, vuln_mgmt_packages[j][1])}}]

nr_php_user_instrumentation_from_file(x, file) ==
  LET y == nr_execute_handle_logging_framework(
             nr_execute_handle_autoload(
               nr_execute_handle_library(nr_execute_handle_framework(x, file), file), file), file)
  IN IF file = "" THEN x ELSE IF x.packages THEN nr_execute_handle_package(y, file) ELSE y

\* With opcache.preload the files are there before the first request.
nr_php_user_instrumentation_from_opcache(x, files) ==
  IF files = NULL THEN x
  ELSE FoldLeft(LAMBDA y, file : nr_php_user_instrumentation_from_file(y, file), x, files)

---------------------------------------------------------------------------
(* Segments of calls, and transactions.                                      *)

NewSegment(call, kind) ==
  [call |-> call, kind |-> kind, wraprec |-> NULL, handler |-> FALSE, error |-> NULL]

Recording(x) == x.txn # NULL
Current(x) == Last(x.segs)
OpenSegment(x, call, kind) == [x EXCEPT !.segs = Append(@, NewSegment(call, kind))]
SetCurrent(x, field, value) == [x EXCEPT !.segs[Len(x.segs)] = [@ EXCEPT ![field] = value]]

\* nr_php_txn_begin, nr_php_txn_end as the callbacks see them; beginning may
\* fail, when the daemon does not answer (the cap on transactions stands for it).
EndTransaction(x) == [x EXCEPT !.closed = @ \cup {x.txn}, !.txn = NULL, !.segs = <<>>, !.error = NULL]
BeginTransaction(x) ==
  IF x.txn # NULL \/ x.txns = XcMaxTxns THEN x
  ELSE [x EXCEPT !.txn = x.txns + 1, !.txns = @ + 1, !.autoload = FALSE,
                 !.segs = <<NewSegment(0, "root")>>, !.error = NULL]

nr_php_clm_enabled(x) == IF x.clm = NULL THEN x.otel ELSE x.clm

\* The functions of the model, as PHP knows them; "long" is a name of more
\* than 255 characters.
OpArray(fn) ==
  [scope |-> IF fn = "plain" THEN NULL ELSE IF fn = "own" THEN "long" ELSE "class",
   function |-> IF fn = "plain" THEN NULL ELSE fn, line |-> IF fn = "plain" THEN 1 ELSE 7,
   filepath |-> IF fn = "command" THEN "long" ELSE "file", user |-> TRUE]

\* What is known of a function: class, name, file and line.
nr_php_execute_metadata_init(x, f) ==
  [scope |-> f.scope, function |-> f.function, line |-> f.line,
   filepath |-> IF nr_php_clm_enabled(x) /\ f.user THEN f.filepath ELSE NULL]

\* The attributes code.*; a string that is too long is as good as none.
nr_php_execute_segment_add_code_level_metrics(x, m) ==
  LET fit(s) == IF s = "long" THEN NULL ELSE s
      namespace == fit(m.scope)
      filepath == fit(m.filepath)
      function == IF m.line = 1 THEN filepath ELSE fit(m.function)
  IN IF ~nr_php_clm_enabled(x) \/ function = NULL \/ (namespace = NULL /\ filepath = NULL) THEN {}
     ELSE {"code.function", "code.lineno"}
          \cup (IF filepath # NULL THEN {"code.filepath"} ELSE {})
          \cup (IF namespace # NULL THEN {"code.namespace"} ELSE {})

\* The segment that a call ends, in the ghost that EndsOwn looks at.
CloseSegment(x, call) ==
  [x EXCEPT !.segs = Front(@), !.ended = [call |-> call, of |-> Current(x).call, kind |-> Current(x).kind,
                                          name |-> NULL, code |-> {}]]

nr_segment_discard_current(x, call) == CloseSegment(x, call)

\* A segment that is kept takes its name from the function.
nr_php_execute_segment_add_metric(m) == <<m.scope, IF m.function = NULL THEN "<unknown>" ELSE m.function>>

KeepSegment(x, call, fn) ==
  LET m == nr_php_execute_metadata_init(x, OpArray(fn))
  IN [CloseSegment(x, call) EXCEPT !.ended.name = nr_php_execute_segment_add_metric(m),
                                   !.ended.code = nr_php_execute_segment_add_code_level_metrics(x, m)]

---------------------------------------------------------------------------
(* Errors and exceptions.                                                    *)

nr_php_error_get_priority(type) ==
  CASE type \in {"E_PARSE", "E_COMPILE_ERROR", "E_CORE_ERROR", "E_USER_ERROR", "E_ERROR", "E_RECOVERABLE_ERROR"} -> 50
    [] type \in {"E_COMPILE_WARNING", "E_CORE_WARNING", "E_USER_WARNING", "E_WARNING"} -> 40
    [] type \in {"E_DEPRECATED", "E_USER_DEPRECATED"} -> 30
    [] type = "E_STRICT" -> 10
    [] type \in {"E_USER_NOTICE", "E_NOTICE"} -> 0
    [] OTHER -> 20

\* NR_PHP_ERROR_PRIORITY_UNCAUGHT_EXCEPTION
UncaughtPriority == 100

nr_php_exception_filters_add(filters, fn) == IF fn = NULL THEN filters ELSE Append(filters, fn)

\* nr_php_ignore_exceptions_ini_filter is the filter "ini"; the setting names
\* the class of the exception "ignored".
nr_php_ignore_exceptions_ini_filter(exception) == exception = "ignored"
Ignores(fn, exception) == fn = "ini" /\ nr_php_ignore_exceptions_ini_filter(exception)

nr_php_exception_filters_apply(filters, exception) ==
  IF \E i \in DOMAIN filters : Ignores(filters[i], exception) THEN "ignore" ELSE "report"

\* The script's callback gives the error a group; an empty answer gives none.
nr_php_error_call_error_group_callback(x) ==
  IF x.groups THEN [x EXCEPT !.group = TRUE] ELSE x

nr_txn_error(x, priority, what) ==
  IF x.txn = NULL THEN x
  ELSE IF x.error # NULL /\ priority < x.error.priority THEN x
  ELSE [x EXCEPT !.error = [priority |-> priority, what |-> what]]

\* Everything that can be thrown is a Throwable; a handler that is called as a
\* function may be given anything.
nr_php_error_zval_is_exception(exception) == exception \in {"exception", "ignored"}

nr_php_error_record_exception(x, exception, priority, current) ==
  IF x.txn = NULL \/ ~nr_php_error_zval_is_exception(exception) THEN x
  ELSE IF nr_php_exception_filters_apply(x.filters, exception) = "ignore" THEN x
  ELSE LET y == nr_txn_error(nr_php_error_call_error_group_callback(x), priority, exception)
       IN IF current /\ y.error # x.error THEN SetCurrent(y, "error", exception) ELSE y

nr_php_error_record_exception_segment(x, exception) ==
  IF x.txn = NULL \/ ~nr_php_error_zval_is_exception(exception) THEN x
  ELSE IF nr_php_exception_filters_apply(x.filters, exception) = "ignore" THEN x
  ELSE SetCurrent(x, "error", exception)

\* Neither what PHP does not report, nor what the setting ignores, nor what
\* will come again as an exception.
nr_php_should_record_error(x, type, e) ==
  /\ e.reported /\ ~e.ignored
  /\ ~(type = "E_ERROR" /\ e.uncaught)
  /\ ~(e.throws /\ type \in {"E_WARNING", "E_CORE_WARNING", "E_COMPILE_WARNING", "E_USER_WARNING", "E_RECOVERABLE_ERROR"})
  /\ nr_php_error_get_priority(type) # 0
  /\ x.txn # NULL /\ (x.error # NULL => nr_php_error_get_priority(type) >= x.error.priority)

\* The original callback follows; of a fatal error it does not return.
nr_php_error_cb(x, type, e) ==
  IF ~nr_php_should_record_error(x, type, e) THEN x
  ELSE nr_php_error_call_error_group_callback(nr_txn_error(x, nr_php_error_get_priority(type), type))

\* The agent's own handler, for a script that has none; PHP's message about
\* the exception follows.
newrelic_exception_handler(x, exception) ==
  nr_php_error_cb(nr_php_error_record_exception(x, exception, UncaughtPriority, TRUE), "E_ERROR",
                  [reported |-> TRUE, ignored |-> FALSE, uncaught |-> TRUE, throws |-> FALSE])

\* set_exception_handler and restore_exception_handler: the handler that goes
\* is no longer marked, the one that comes is; if there is none it is ours.
exception_common(x, new) == [x EXCEPT !.handler = new]

---------------------------------------------------------------------------
(* The callbacks of the wrapped functions.                                   *)

Note(x, call, which) == [x EXCEPT !.callbacks = @ \cup {[call |-> call, cb |-> which, txn |-> x.txn]}]

Restart(x) == BeginTransaction(EndTransaction(x))

nr_zend_call_oapi_special_before(x, call, fn) ==
  CASE fn = "own" -> Note(SetCurrent(OpenSegment(x, call, "own"), "wraprec", "own"), call, "before")
    [] fn = "worker" ->
         LET y == Restart(x)
         IN Note(IF y.txn = NULL THEN y ELSE SetCurrent(y, "wraprec", "worker"), call, "before")
    [] OTHER -> x

nr_zend_call_orig_execute_special(x, call, fn) ==
  CASE fn = "own" -> Note(CloseSegment(x, call), call, "after")
    [] fn = "worker" -> Restart(Note(x, call, "after"))
    [] fn = "command" -> EndTransaction(x)
    [] OTHER -> x

\* The worker records the exception that ends a job.
nr_zend_call_oapi_special_clean(x, call, fn, exception) ==
  CASE fn = "own" -> Note(CloseSegment(x, call), call, "clean")
    [] fn = "worker" ->
         LET y == IF x.error = NULL THEN nr_php_error_record_exception(x, exception, UncaughtPriority, FALSE) ELSE x
         IN Restart(Note(y, call, "clean"))
    [] OTHER -> x

---------------------------------------------------------------------------
(* PHP 8.0+: the handlers of the observer.                                   *)

nr_php_instrument_func_begin(x, call, fn) ==
  LET s == OpenSegment(x, call, "auto")
      w == SetCurrent(SetCurrent(s, "wraprec", fn), "handler", fn = "handler" /\ x.handler = "handler")
      b == nr_zend_call_oapi_special_before(w, call, fn)
  IN IF x.txn = NULL THEN x
     ELSE IF fn = "plain" THEN s
     ELSE IF b.txn # x.txn THEN b
     ELSE [b EXCEPT !.metrics = @ \cup {<<"function", fn, "called">>}]

\* Mutant: the transaction is taken to be the one of before the callback.
EndTrustsTransaction(x, call, fn, returned, arg) ==
  LET seg == Current(x)
      e == IF seg.handler THEN nr_php_error_record_exception(x, arg, nr_php_error_get_priority("E_ERROR"), FALSE)
           ELSE IF ~returned THEN nr_php_error_record_exception_segment(x, x.thrown) ELSE x
      c == IF returned THEN nr_zend_call_orig_execute_special(e, call, seg.wraprec)
           ELSE nr_zend_call_oapi_special_clean(e, call, seg.wraprec, x.thrown)
  IN IF x.txn = NULL \/ (seg.kind = "root" /\ seg.wraprec = NULL) THEN x
     ELSE IF seg.wraprec = NULL /\ ~x.tt_detail THEN nr_segment_discard_current(e, call)
     ELSE IF c.txn = NULL THEN c
     ELSE CloseSegment(c, call)

\* The segment is the current one, whatever the call started; the root has
\* a call only if a callback began the transaction.  Without a return value
\* the call ends with an exception.
nr_php_instrument_func_end(x, call, fn, returned, arg) ==
  LET seg == Current(x)
      e == IF seg.handler THEN nr_php_error_record_exception(x, arg, nr_php_error_get_priority("E_ERROR"), FALSE)
           ELSE IF ~returned THEN nr_php_error_record_exception_segment(x, x.thrown) ELSE x
      c == IF returned THEN nr_zend_call_orig_execute_special(e, call, seg.wraprec)
           ELSE nr_zend_call_oapi_special_clean(e, call, seg.wraprec, x.thrown)
  IN IF x.txn = NULL \/ (seg.kind = "root" /\ seg.wraprec = NULL) THEN x
     ELSE IF seg.wraprec = NULL /\ ~x.tt_detail THEN nr_segment_discard_current(e, call)
     ELSE IF c.txn # x.txn THEN c
     ELSE KeepSegment(c, call, fn)

\* The depth is forgotten, and the script is aborted.
nr_php_max_nesting_level_reached(x) == [x EXCEPT !.depth = 0, !.limited = TRUE, !.thrown = "fatal"]

NestingReached(x) == XcNesting > 0 /\ x.depth >= XcNesting

nr_php_observer_fcall_begin(x, call, fn) ==
  LET d == [x EXCEPT !.depth = @ + 1]
  IN IF NestingReached(d) THEN nr_php_max_nesting_level_reached(d)
     ELSE IF ~Recording(x) THEN d
     ELSE nr_php_instrument_func_begin(d, call, fn)

nr_php_observer_fcall_end(x, call, fn, returned, arg) ==
  LET y == IF Recording(x) THEN nr_php_instrument_func_end(x, call, fn, returned, arg) ELSE x
  IN [y EXCEPT !.depth = @ - 1]

---------------------------------------------------------------------------
(* PHP before 8.0: a call is executed by the agent, which keeps the segment   *)
(* and the start time of the transaction on the C stack.                     *)

\* The first half of nr_php_execute_enabled, up to the original call.
nr_php_execute_enabled(x, call, fn) ==
  LET handled == fn = "handler" /\ x.handler = "handler" /\ ~x.spans
      e == IF handled THEN nr_php_error_record_exception(x, x.caught, nr_php_error_get_priority("E_ERROR"), TRUE) ELSE x
  IN IF fn = "plain" /\ ~x.tt_detail THEN x
     ELSE OpenSegment(e, call, "auto")

\* The second half: the segment is ended if its transaction is still there.
ExecuteEnabledReturns(x, call, fn, txn) ==
  LET e == IF fn = "plain" /\ x.spans THEN nr_php_error_record_exception_segment(x, x.thrown) ELSE x
      i == SelectInSeq(e.segs, LAMBDA s : s.call = call)
  IN IF txn = NULL \/ (fn = "plain" /\ ~x.tt_detail) THEN x
     ELSE IF x.txn # txn \/ i = 0 THEN e
     ELSE [e EXCEPT !.segs = SelectSeq(@, LAMBDA s : s.call # call),
                    !.ended = [call |-> call, of |-> e.segs[i].call, kind |-> e.segs[i].kind,
                               name |-> NULL, code |-> {}]]

nr_php_execute(x, call, fn) ==
  LET d == [x EXCEPT !.depth = @ + 1]
  IN IF NestingReached(d) THEN nr_php_max_nesting_level_reached(d)
     ELSE IF ~Recording(x) THEN d ELSE nr_php_execute_enabled(d, call, fn)

\* A bailout is a long jump past this line.
ExecuteReturns(x, call, fn, txn) ==
  LET y == ExecuteEnabledReturns(x, call, fn, txn)
  IN IF x.thrown = "fatal" THEN y ELSE [y EXCEPT !.depth = @ - 1]

---------------------------------------------------------------------------
(* The machine: one request of a script.                                     *)

XcStart(build, tt_detail, spans, forced, filters) ==
  [build |-> build, tt_detail |-> tt_detail, spans |-> spans, forced |-> forced, filters |-> filters,
   clm |-> IF tt_detail THEN TRUE ELSE NULL, otel |-> FALSE, packages |-> TRUE, logging |-> FALSE, groups |-> FALSE, group |-> FALSE,
   fw |-> NULL, enabled |-> <<>>, libs |-> {}, metrics |-> {}, autoload |-> FALSE,
   txn |-> 1, txns |-> 1, segs |-> <<NewSegment(0, "root")>>, error |-> NULL, closed |-> {},
   frames |-> <<>>, calls |-> 0, depth |-> 0, limited |-> FALSE, observer |-> [f \in XcFunctions |-> NULL],
   thrown |-> NULL, caught |-> NULL, uncaught |-> NULL, handler |-> "agent", over |-> FALSE,
   callbacks |-> {}, ended |-> NULL]

\* Files and calls do not meet: a request either loads files or calls functions.
XcInit ==
  \/ \E tt_detail \in BOOLEAN, filter \in {NULL, "ini"} :
       /\ tt_detail => filter = "ini"
       /\ xc = XcStart("8.0", tt_detail, TRUE, NULL, nr_php_exception_filters_add(<<>>, filter))
  \/ \E tt_detail, spans \in BOOLEAN : xc = XcStart("7.4", tt_detail, spans, NULL, <<"ini">>)
  \/ \E forced \in {NULL} \cup {nr_php_framework_from_config(c) : c \in {"none", "drupal", "unknown"}} :
       xc = XcStart("files", FALSE, FALSE, forced, <<>>)

XcLegacy == xc.build = "7.4"
XcRuns == ~xc.over /\ xc.thrown = NULL /\ xc.build # "files"

Frame(call, fn, seen, arg) == [call |-> call, fn |-> fn, seen |-> seen, txn |-> xc.txn, arg |-> arg]

\* A call: PHP asks the agent once for a function, and keeps the answer.
BeginCall(x, fn, arg) ==
  LET call == x.calls + 1
      seen == IF x.build = "7.4" THEN TRUE ELSE IF x.observer[fn] # NULL THEN x.observer[fn] ELSE Recording(x)
      y == [x EXCEPT !.calls = call, !.observer[fn] = seen, !.ended = NULL,
                     !.frames = Append(@, Frame(call, fn, seen, arg))]
  IN IF x.build = "7.4" THEN nr_php_execute(y, call, fn)
     ELSE IF seen THEN nr_php_observer_fcall_begin(y, call, fn) ELSE y

EndCall(x, returned) ==
  LET f == Last(x.frames)
      y == [x EXCEPT !.frames = Front(@), !.ended = NULL]
  IN IF x.build = "7.4" THEN ExecuteReturns(y, f.call, f.fn, f.txn)
     ELSE IF f.seen THEN nr_php_observer_fcall_end(y, f.call, f.fn, returned, f.arg) ELSE y

XcCall ==
  /\ XcRuns /\ xc.calls < XcMaxCalls
  /\ \E fn \in XcFunctions :
       /\ XcLegacy => fn \in {"plain", "traced", "handler"}
       /\ xc' = BeginCall(xc, fn, NULL)

XcReturn == XcRuns /\ xc.frames # <<>> /\ xc' = EndCall(xc, TRUE)

\* An exception, or an exit.
XcThrow ==
  /\ XcRuns /\ xc.frames # <<>>
  /\ \E e \in {"exception", "ignored", "fatal"} : xc' = [xc EXCEPT !.thrown = e, !.ended = NULL]

XcUnwind == xc.thrown # NULL /\ xc.frames # <<>> /\ xc' = EndCall(xc, FALSE)

XcCatch ==
  /\ xc.thrown \in {"exception", "ignored"} /\ xc.frames # <<>>
  /\ xc' = [xc EXCEPT !.thrown = NULL, !.ended = NULL]

\* No function is left: the handler of the script is called, or the agent's.
XcUncaught ==
  /\ xc.thrown # NULL /\ xc.frames = <<>> /\ ~xc.over
  /\ LET y == [xc EXCEPT !.thrown = NULL, !.caught = xc.thrown, !.over = TRUE, !.ended = NULL,
                         !.uncaught = IF xc.thrown = "exception" THEN xc.txn ELSE NULL]
     IN xc' = CASE xc.thrown = "fatal" -> y
                [] xc.handler = "handler" -> BeginCall(y, "handler", xc.thrown)
                [] OTHER -> newrelic_exception_handler(y, xc.thrown)

XcHandled == xc.over /\ xc.thrown = NULL /\ xc.frames # <<>> /\ xc' = EndCall(xc, TRUE)

\* Scripts set their handler before they call much.
XcSetHandler ==
  /\ XcRuns /\ "handler" \in XcFunctions /\ xc.calls = 0
  /\ \E new \in {"agent", "handler"} \ {xc.handler} : xc' = exception_common(xc, new)

\* newrelic_end_transaction and newrelic_start_transaction, and a fiber.
nr_fiber_disable(x) == IF x.txn = NULL THEN x ELSE EndTransaction([x EXCEPT !.metrics = @ \cup {<<"fiber", "used", "">>}])

\* (the script ends one transaction of its own accord at most)
XcTransaction ==
  /\ XcRuns /\ Cardinality(xc.closed) <= 1
  /\ \/ xc.txn # NULL /\ xc' = [EndTransaction(xc) EXCEPT !.ended = NULL]
     \/ xc.txn # NULL /\ xc.frames # <<>> /\ xc.txns = 1 /\ xc' = [nr_fiber_disable(xc) EXCEPT !.ended = NULL]
     \/ xc.txn = NULL /\ xc' = [BeginTransaction(xc) EXCEPT !.ended = NULL]

XcPhpError ==
  /\ XcRuns /\ xc.calls <= 1
  /\ \E type \in {"E_WARNING", "E_NOTICE"}, throws \in BOOLEAN :
       xc' = nr_php_error_cb(xc, type, [reported |-> TRUE, ignored |-> FALSE, uncaught |-> FALSE, throws |-> throws])

\* Files are loaded until the framework's metric is made at the end.
XcFile ==
  /\ xc.build = "files" /\ ~xc.over
  /\ \/ \E file \in XcFiles : xc' = nr_php_user_instrumentation_from_file(xc, file)
     \/ xc.libs = {} /\ xc' = nr_php_user_instrumentation_from_opcache(xc, SetToSeq(XcFiles))
     \/ xc' = [nr_framework_create_metric(xc) EXCEPT !.over = TRUE]

XcNext == XcCall \/ XcReturn \/ XcThrow \/ XcUnwind \/ XcCatch \/ XcUncaught \/ XcHandled
          \/ XcSetHandler \/ XcTransaction \/ XcPhpError \/ XcFile

---------------------------------------------------------------------------
(* Properties.                                                               *)

\* The depth that the nesting limit is compared with is the number of calls
\* that are running, however transactions come and go.
DepthIsCalls ==
  ~xc.limited /\ (XcLegacy => xc.thrown # "fatal" /\ xc.caught # "fatal") =>
    xc.depth = Len(SelectSeq(xc.frames, LAMBDA f : f.seen))

\* The end of a call ends the segment of that call, and never the root, even
\* if the transaction ended and another began while the function was running.
\* (When the nesting limit has aborted a call, its end comes without a begin.)
EndsOwn == xc.ended # NULL /\ ~xc.limited => xc.ended.kind # "root" /\ xc.ended.of = xc.ended.call

\* A callback after the call follows a callback before it, once, with an
\* exception or without, unless the transaction has ended in between or the
\* nesting limit has aborted the script.
CallbacksComplete ==
  ~xc.limited => \A b \in xc.callbacks :
    LET later == {c \in xc.callbacks : c.call = b.call /\ c.cb # "before"}
        running == \E i \in DOMAIN xc.frames : xc.frames[i].call = b.call
    IN b.cb = "before" /\ b.txn # NULL /\ ~running =>
         /\ Cardinality(later) <= 1
         /\ later = {} => b.txn \in xc.closed
         /\ \A c \in later : c.txn = b.txn

\* An exception of a class that is to be ignored is not recorded, neither with
\* the transaction nor with a segment.
IgnoredNotRecorded ==
  xc.filters # <<>> =>
    /\ xc.error # NULL => xc.error.what # "ignored"
    /\ \A i \in DOMAIN xc.segs : xc.segs[i].error # "ignored"

\* An exception nobody caught is recorded with the transaction it ended, by
\* the agent's handler or when the script's has returned.  (Before PHP 8.0
\* the script's handler does not report it if there are span events; since,
\* it does not if its first call was one outside of a transaction.)
UncaughtIsReported ==
  xc.over /\ xc.frames = <<>> /\ xc.uncaught # NULL /\ xc.uncaught = xc.txn
  /\ (xc.handler = "handler" => xc.observer["handler"] # FALSE)
  /\ (XcLegacy /\ xc.spans => xc.handler = "agent")
  => xc.error # NULL

\* The instrumentation of one framework is enabled in a request, the forced
\* one if one is forced, and it is the framework that is reported.
OneFramework ==
  /\ Len(xc.enabled) <= 1
  /\ \A i \in DOMAIN xc.enabled : xc.fw = xc.enabled[i] /\ (xc.forced # NULL => xc.forced = xc.fw)

\* Whatever a function does, return, throw, or end the transaction it was called
\* in, what was begun for its call is ended for its call, and exceptions are
\* reported as the settings say (nr_php_instrument_func_begin and _end).
FunctionCallsAreBalanced ==
  /\ DepthIsCalls /\ EndsOwn /\ CallbacksComplete
  /\ IgnoredNotRecorded /\ UncaughtIsReported /\ OneFramework
=============================================================================
