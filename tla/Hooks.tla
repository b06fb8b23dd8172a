------------------------------- MODULE Hooks --------------------------------
(***************************************************************************)
(* The hooks of WordPress and Drupal: fw_wordpress.c, fw_drupal.c,         *)
(* fw_drupal8.c and fw_drupal_common.c.                                    *)
(*                                                                         *)
(* A framework calls a function for a hook, and that calls the functions   *)
(* that plugins and modules have for it.  The agent keeps the hooks that   *)
(* run on a stack, from PHP 8.0 on in callbacks of the observer before and *)
(* after the call, before in a wrapper around it.  The observer finds the  *)
(* callback in the segment that is current when a call ends, which is not  *)
(* always the one of the call: drupal_http_request starts a segment of its *)
(* own.  A request runs one framework.                                     *)
(***************************************************************************)
EXTENDS Execute

CONSTANTS HkMaxCalls,   \* calls of a script
          HkNesting     \* calls that run at once

VARIABLE hk
hkVars == <<hk>>

HkSizes == 2^8          \* the modulus of size_t

HkStart(fw, legacy, ini, options, d7) ==
  [fw |-> fw, legacy |-> legacy,
   ini |-> ini,              \* framework.wordpress.hooks, framework.drupal.modules
   plugins |-> options # "threshold", core |-> options = "all_callbacks",
   d7 |-> d7,                \* drupal_http_request has two parameters
   txn |-> 1, txns |-> 1,
   tags |-> <<>>,            \* wordpress_tags, drupal_invoke_all_hooks
   states |-> <<>>,          \* wordpress_tag_states, drupal_invoke_all_states
   cufa |-> FALSE,           \* check_cufa
   depth |-> 0,              \* drupal_http_request_depth
   http |-> NULL,            \* drupal_http_request_segment; before 8.0 the wrapper's own
   wraps |-> <<>>,           \* wraprecs of the functions of plugins and modules, by name
   segs |-> <<>>,            \* open segments of the transaction, without the root
   path |-> NULL,            \* the name of the transaction
   frames |-> <<>>, calls |-> 0,
   broken |-> FALSE,         \* the callbacks may be out of order (see HkOrdered)
   miscounted |-> FALSE,     \* a drupal_http_request had no array
   rec |-> NULL]             \* the last metric or external segment

Top(stack) == IF stack = <<>> THEN NULL ELSE Last(stack)
DropTop(stack) == IF stack = <<>> THEN <<>> ELSE Front(stack)
Named(h, path) == IF h.txn = NULL \/ h.path # NULL THEN h ELSE [h EXCEPT !.path = path]

------------------------------------------------------------------------------
(* WordPress.  A tag is NULL if it is not a text, or empty.                *)

\* What looks like a hash in the name of a transient is replaced; a cache saves
\* the work.
nr_wordpress_clean_tag(tag) == IF tag = "t_0a1" THEN "t_*" ELSE tag

\* The plugin or theme by the function's file; for the core and for unknown
\* files there is none, which is cached, too.
nr_wordpress_plugin_from_function(f) == IF f = "plugin function" THEN "plugin" ELSE NULL

PushTag(h, tag) ==
  IF tag = NULL THEN [h EXCEPT !.states = Append(@, FALSE)]
  ELSE [h EXCEPT !.cufa = TRUE, !.tags = Append(@, nr_wordpress_clean_tag(tag)),
                 !.states = Append(@, TRUE)]

nr_wordpress_exec_handle_tag(h, tag) == IF h.ini THEN PushTag(h, tag) ELSE h
nr_wordpress_apply_filters(h, tag) == IF h.ini THEN PushTag(h, tag) ELSE h

\* The template that the filter returned.
nr_wordpress_name_the_wt(h, tag) == IF tag = "template_include" THEN Named(h, "template") ELSE h

nr_wordpress_hooks_create_metric(h, seg, tag) ==
  [h EXCEPT !.rec = [kind |-> "slow", call |-> seg.call, tag |-> tag]]

clean_wordpress_tag_stack(h, seg) ==
  LET pushed == Top(h.states) = TRUE
      m == IF pushed /\ ~h.plugins THEN nr_wordpress_hooks_create_metric(h, seg, Top(h.tags)) ELSE h
      y == [m EXCEPT !.states = DropTop(@), !.tags = IF pushed THEN DropTop(@) ELSE @]
  IN  IF y.tags = <<>> THEN [y EXCEPT !.cufa = FALSE] ELSE y

nr_wordpress_handle_tag_stack_after(h, seg) == IF h.ini THEN clean_wordpress_tag_stack(h, seg) ELSE h

\* Mutant: an exception leaves the tag where it is.
LeaveTag(h, seg) == h

nr_wordpress_handle_tag_stack_clean(h, seg) == IF h.ini THEN clean_wordpress_tag_stack(h, seg) ELSE h

nr_wordpress_apply_filters_after(h, seg, tag) ==
  nr_wordpress_handle_tag_stack_after(nr_wordpress_name_the_wt(h, tag), seg)

\* skip: the file is one of framework.wordpress.hooks_skip_filename.
nr_wordpress_add_filter(h, f, skip) ==
  LET plugin == nr_wordpress_plugin_from_function(f)
  IN  IF ~h.ini \/ skip \/ (plugin = NULL /\ ~h.core) \/ f \in DOMAIN h.wraps THEN h
      ELSE [h EXCEPT !.wraps = @ @@ (f :> [plugin |-> plugin])]

nr_wordpress_wrap_hook(h, seg, f) ==
  LET plugin == h.wraps[f].plugin
  IN  IF ~h.ini \/ Top(h.tags) = NULL \/ (plugin = NULL /\ ~h.core) THEN h
      ELSE [h EXCEPT !.rec = [kind |-> "hook", call |-> seg.call, tag |-> Top(h.tags),
                              of |-> f, plugin |-> plugin]]

\* Before 8.0: what comes before the call.  The tag that was is kept by the wrapper.
LegacyTag(h, fn, tag) ==
  IF tag # NULL /\ h.ini THEN [h EXCEPT !.cufa = TRUE, !.tags = <<nr_wordpress_clean_tag(tag)>>]
  ELSE IF h.ini /\ fn = "apply_filters" THEN h
  ELSE IF tag = NULL /\ fn = "apply_filters" THEN h
  ELSE IF ~h.ini /\ fn = "do_action" THEN h
  ELSE [h EXCEPT !.cufa = FALSE]

\* ... and what comes after it.  seg is NULL if the transaction is another.
LegacyTagReturns(h, seg, frame) ==
  LET m == IF seg # NULL /\ ~h.plugins THEN nr_wordpress_hooks_create_metric(h, seg, Top(h.tags)) ELSE h
      y == [m EXCEPT !.tags = frame.before, !.cufa = IF frame.before = <<>> THEN FALSE ELSE @]
      n == IF frame.arg # NULL /\ h.ini THEN y ELSE h
  IN  IF frame.fn = "apply_filters" THEN nr_wordpress_name_the_wt(n, frame.arg) ELSE n

------------------------------------------------------------------------------
(* Drupal.  Hooks and modules are words: sequences of letters.             *)

nr_drupal_invoke_all_hook_stacks_push(h, hook) ==
  IF hook = NULL THEN [h EXCEPT !.states = Append(@, FALSE)]
  ELSE [h EXCEPT !.tags = Append(@, hook), !.states = Append(@, TRUE), !.cufa = TRUE]

nr_drupal_invoke_all_hook_stacks_pop(h) ==
  LET y == [h EXCEPT !.states = DropTop(@), !.tags = IF Top(h.states) = TRUE THEN DropTop(@) ELSE @]
  IN  IF y.tags = <<>> THEN [y EXCEPT !.cufa = FALSE] ELSE y

\* The first place, counted from 0, or -1.
nr_strnidx(str, needle) ==
  LET at == {i \in 0..(Len(str) - Len(needle)) : SubSeq(str, i + 1, i + Len(needle)) = needle}
  IN  IF at = {} THEN -1 ELSE Min(at)

\* The module of a function's name, or NULL.
module_invoke_all_parse_module_and_hook_from_strings(hook, name) ==
  LET idx == nr_strnidx(name, hook)
      module_len == IF idx = 0 THEN Len(name) - Len(hook) - 1 ELSE idx - 1
  IN  IF Len(hook) >= Len(name) \/ idx \in {-1, 1} THEN NULL ELSE SubSeq(name, 1, module_len)

nr_php_wrap_user_function_drupal(h, name, module, hook) ==
  [h EXCEPT !.wraps = (name :> [module |-> module, hook |-> hook]) @@ @]

nr_drupal_hook_instrument(h, module, hook) ==
  nr_php_wrap_user_function_drupal(h, module \o <<"_">> \o hook, module, hook)

nr_drupal_wrap_hook_within_module_invoke_all(h, name) ==
  LET hook == Top(h.tags)
      module == module_invoke_all_parse_module_and_hook_from_strings(hook, name)
  IN  IF hook = NULL \/ module = NULL THEN h
      ELSE nr_php_wrap_user_function_drupal(h, name, module, hook)

nr_drupal_call_user_func_array_callback(h, name, caller) ==
  IF caller = "module_invoke_all" /\ h.ini THEN nr_drupal_wrap_hook_within_module_invoke_all(h, name)
  ELSE IF caller = "menu_execute_active_handler" THEN Named(h, name) ELSE h

nr_drupal_wrap_module_hook(h, seg, name) ==
  IF seg = NULL THEN h
  ELSE [h EXCEPT !.rec = [kind |-> "module", call |-> seg.call, of |-> name,
                          module |-> h.wraps[name].module, hook |-> h.wraps[name].hook]]

\* From 9.4 on; an empty hook is not pushed at all.
nr_drupal94_invoke_all_with(h, hook) ==
  IF hook = NULL THEN h ELSE nr_drupal_invoke_all_hook_stacks_push(h, hook)

nr_drupal94_invoke_all_with_callback(h, module) ==
  IF module = NULL \/ Top(h.tags) = NULL THEN h ELSE nr_drupal_hook_instrument(h, module, Top(h.tags))

\* Before 8.0, module_invoke_all and invokeAllWith.
LegacyHook(h, hook) == IF hook = NULL THEN h ELSE [h EXCEPT !.tags = <<hook>>, !.cufa = TRUE]
LegacyHookReturns(h, frame) ==
  IF frame.arg = NULL THEN h
  ELSE [h EXCEPT !.tags = frame.before, !.cufa = IF frame.before = <<>> THEN FALSE ELSE @]

\* The second argument, with the agent's headers if it can take them.
nr_drupal_headers_add(arg, d7) ==
  IF arg \in {"missing", "array"} \/ (arg = "null" /\ ~d7) THEN "array with headers" ELSE arg
IsArray(arg) == arg \in {"array with headers", "array with bad headers"}

Deeper(h) == [h EXCEPT !.depth = (@ + 1) % HkSizes]
Shallower(h) == [h EXCEPT !.depth = (@ - 1) % HkSizes]

HkSegment(h, call, wraprec) == [call |-> call, txn |-> h.txn, wraprec |-> wraprec, http |-> FALSE]
StartHttp(h, call, wraprec) ==
  LET seg == [HkSegment(h, call, wraprec) EXCEPT !.http = TRUE]
  IN  [h EXCEPT !.segs = Append(@, seg), !.http = seg]

nr_drupal_http_request_before(h, call, wraprec) ==
  LET d == Deeper(h) IN IF d.depth = 1 THEN StartHttp(d, call, wraprec) ELSE d

EndHttp(h, seg, call) ==
  [h EXCEPT !.segs = SelectSeq(@, LAMBDA s : s # seg), !.http = NULL,
            !.rec = [kind |-> "external", call |-> call, of |-> seg.call,
                     live |-> seg.txn = h.txn /\ seg \in Range(h.segs)]]

\* Mutant: the end of a redirected request ends the segment, too.
EndWhatIsThere(h, call, url) ==
  Shallower(IF h.http = NULL \/ ~url THEN h ELSE EndHttp(h, h.http, call))

\* url: the first argument is a text and not empty.
nr_drupal_http_request_after(h, call, url) ==
  Shallower(IF url /\ h.depth = 1 /\ h.http # NULL THEN EndHttp(h, h.http, call) ELSE h)

nr_drupal_http_request_clean(h) == Shallower(h)

\* Before 8.0; without an array the wrapper goes to its end, which counts down.
LegacyHttp(h, call, arg) ==
  IF ~IsArray(nr_drupal_headers_add(arg.second, h.d7)) THEN [h EXCEPT !.miscounted = TRUE]
  ELSE IF Deeper(h).depth = 1 /\ arg.url THEN StartHttp(Deeper(h), call, NULL) ELSE Deeper(h)

LegacyHttpReturns(h, frame) ==
  Shallower(IF h.http # NULL /\ h.http.call = frame.call THEN EndHttp(h, h.http, frame.call) ELSE h)

------------------------------------------------------------------------------
(* Calls.                                                                  *)

Invokers == {"apply_filters", "do_action", "module_invoke_all", "invokeAllWith"}

Wraprec(h, fn, arg) ==
  IF fn = "function" /\ arg \notin DOMAIN h.wraps THEN NULL
  ELSE IF fn = "do_action" /\ ~h.ini THEN NULL
  ELSE IF fn \in {"module_invoke_all", "invokeAllWith", "callback"} /\ ~h.ini THEN NULL
  ELSE [fn |-> fn, name |-> IF fn = "function" THEN arg ELSE NULL]

\* call_user_func_array in the caller.  PHP compiles it into the call, which is
\* looked for while check_cufa is set, or it is called as a function.
nr_php_handle_cufa_fcall(h, name, caller) ==
  IF h.cufa THEN nr_drupal_call_user_func_array_callback(h, name, caller) ELSE h

nr_php_observer_attempt_call_cufa_handler(h, name, caller) ==
  IF h.txn # NULL /\ h.cufa THEN nr_drupal_call_user_func_array_callback(h, name, caller) ELSE h

nr_php_call_user_func_array_handler(h, name, caller) ==
  IF h.txn # NULL THEN nr_drupal_call_user_func_array_callback(h, name, caller) ELSE h

CufaCalls(h, name, caller, compiled) ==
  IF ~compiled THEN nr_php_call_user_func_array_handler(h, name, caller)
  ELSE IF h.legacy THEN nr_php_handle_cufa_fcall(h, name, caller)
  ELSE nr_php_observer_attempt_call_cufa_handler(h, name, caller)

HkBefore(h, call, w, arg) ==
  CASE w.fn = "apply_filters"       -> nr_wordpress_apply_filters(h, arg)
    [] w.fn = "do_action"           -> nr_wordpress_exec_handle_tag(h, arg)
    [] w.fn = "module_invoke_all"   -> nr_drupal_invoke_all_hook_stacks_push(h, arg)
    [] w.fn = "invokeAllWith"       -> nr_drupal94_invoke_all_with(h, arg)
    [] w.fn = "callback"            -> nr_drupal94_invoke_all_with_callback(h, arg)
    [] w.fn = "drupal_http_request" -> nr_drupal_http_request_before(h, call, w)
    [] OTHER                        -> h

\* The wraprec is the segment's, the arguments are those of the call that ends.
HkAfter(h, seg, frame) ==
  LET w == seg.wraprec
  IN  CASE w.fn = "apply_filters" -> nr_wordpress_apply_filters_after(h, seg, frame.arg)
        [] w.fn = "do_action"     -> nr_wordpress_handle_tag_stack_after(h, seg)
        [] w.fn \in {"module_invoke_all", "invokeAllWith"} -> nr_drupal_invoke_all_hook_stacks_pop(h)
        [] w.fn = "function" /\ h.fw = "wordpress" -> nr_wordpress_wrap_hook(h, seg, w.name)
        [] w.fn = "function" /\ h.fw # "wordpress" -> nr_drupal_wrap_module_hook(h, seg, w.name)
        [] w.fn = "drupal_http_request" ->
             nr_drupal_http_request_after(h, frame.call, frame.fn # "drupal_http_request" \/ frame.arg.url)
        [] OTHER -> h

HkClean(h, seg) ==
  LET w == seg.wraprec
  IN  CASE w.fn \in {"apply_filters", "do_action"} -> nr_wordpress_handle_tag_stack_clean(h, seg)
        [] w.fn \in {"module_invoke_all", "invokeAllWith"} -> nr_drupal_invoke_all_hook_stacks_pop(h)
        [] w.fn = "function" /\ h.fw = "wordpress" -> nr_wordpress_wrap_hook(h, seg, w.name)
        [] w.fn = "drupal_http_request" -> nr_drupal_http_request_clean(h)
        [] OTHER -> h

HkLegacyBefore(h, call, w, arg) ==
  CASE w.fn \in {"apply_filters", "do_action"} -> LegacyTag(h, w.fn, arg)
    [] w.fn \in {"module_invoke_all", "invokeAllWith"} -> LegacyHook(h, arg)
    [] w.fn = "callback"            -> nr_drupal94_invoke_all_with_callback(h, arg)
    [] w.fn = "drupal_http_request" -> LegacyHttp(h, call, arg)
    [] OTHER                        -> h

HkLegacyAfter(h, w, seg, frame) ==
  CASE w.fn \in {"apply_filters", "do_action"} -> LegacyTagReturns(h, seg, frame)
    [] w.fn \in {"module_invoke_all", "invokeAllWith"} -> LegacyHookReturns(h, frame)
    [] w.fn = "function" /\ h.fw = "wordpress" ->
         IF seg = NULL THEN h ELSE nr_wordpress_wrap_hook(h, seg, w.name)
    [] w.fn = "function" /\ h.fw # "wordpress" -> nr_drupal_wrap_module_hook(h, seg, w.name)
    [] w.fn = "drupal_http_request" -> LegacyHttpReturns(h, frame)
    [] OTHER -> h

\* seen: the call began in a transaction.
HkBegin(h, fn, arg) ==
  LET call  == h.calls + 1
      c     == [h EXCEPT !.calls = call, !.rec = NULL]
      seen  == h.txn # NULL
      w     == IF seen THEN Wraprec(c, fn, arg) ELSE NULL
      frame == [call |-> call, fn |-> fn, arg |-> arg, seen |-> seen, wraprec |-> w,
                before |-> h.tags, txn |-> h.txn]
      s     == [c EXCEPT !.frames = Append(@, frame),
                         !.segs = IF seen THEN Append(@, HkSegment(c, call, w)) ELSE @]
  IN  IF w = NULL THEN s
      ELSE IF h.legacy THEN HkLegacyBefore(s, call, w, arg) ELSE HkBefore(s, call, w, arg)

HkObserverEnds(h, frame, returned) ==
  LET seg == Last(h.segs)
      y == IF seg.wraprec = NULL THEN h
           ELSE IF returned THEN HkAfter(h, seg, frame) ELSE HkClean(h, seg)
  IN  IF h.txn = NULL \/ h.segs = <<>> THEN h
      ELSE [y EXCEPT !.segs = DropTop(@),
                     !.broken = @ \/ (y.segs # <<>> /\ Last(y.segs).http)
                                  \/ (frame.fn = "invokeAllWith" /\ frame.arg = NULL)]

HkExecuteEnds(h, frame) ==
  LET same == h.txn = frame.txn
      seg == IF same /\ h.segs # <<>> THEN HkSegment(h, frame.call, frame.wraprec) ELSE NULL
      y == IF frame.wraprec = NULL THEN h ELSE HkLegacyAfter(h, frame.wraprec, seg, frame)
  IN  [y EXCEPT !.segs = SelectSeq(@, LAMBDA s : s.call # frame.call)]

HkEnd(returned) ==
  LET frame == Last(hk.frames)
      h == [hk EXCEPT !.frames = Front(@), !.rec = NULL]
  IN  IF hk.legacy THEN HkExecuteEnds(h, frame) ELSE HkObserverEnds(h, frame, returned)

------------------------------------------------------------------------------
(* Scripts.                                                                *)

HkTags == {NULL, "template_include", "t_0a1"}
HkHooks == {NULL, <<"b">>, <<"c">>}
HkModules == {<<"a">>, <<"b">>, <<"a", "a", "b">>}

HkInit ==
  \E legacy, ini, d7 \in BOOLEAN, fw \in {"wordpress", "drupal", "drupal8"},
     options \in {"all_callbacks", "plugin_callbacks", "threshold"} :
    /\ fw # "wordpress" \/ ~ini => options = "plugin_callbacks"
    /\ fw # "drupal" => ~d7
    /\ hk = HkStart(fw, legacy, ini, options, d7)

HkMay == hk.calls < HkMaxCalls /\ Len(hk.frames) < HkNesting
Caller == IF hk.frames = <<>> THEN NULL ELSE Last(hk.frames)
InHook == Caller # NULL /\ Caller.fn \in Invokers /\ Caller.arg # NULL

HkInvoke ==
  /\ HkMay
  /\ \/ hk.fw = "wordpress" /\ \E fn \in {"apply_filters", "do_action"}, tag \in HkTags :
          hk' = HkBegin(hk, fn, tag)
     \/ hk.fw = "drupal"  /\ \E hook \in HkHooks : hk' = HkBegin(hk, "module_invoke_all", hook)
     \/ hk.fw = "drupal8" /\ \E hook \in HkHooks : hk' = HkBegin(hk, "invokeAllWith", hook)

HkAddFilter ==
  /\ hk.fw = "wordpress" /\ hk.plugins /\ hk.txn # NULL /\ hk.calls = 0
  /\ \E f \in {"plugin function", "core function"}, skip \in BOOLEAN :
       hk' = nr_wordpress_add_filter(hk, f, skip)

\* A function of a plugin or module; Drupal 8 calls it in a callback, with the module.
HkFunction ==
  /\ HkMay
  /\ \/ hk.fw = "wordpress" /\ InHook
        /\ \E f \in {"plugin function", "core function"} : hk' = HkBegin(hk, "function", f)
     \/ hk.fw = "drupal" /\ InHook
        /\ \E m \in HkModules, compiled \in BOOLEAN :
             LET name == m \o <<"_">> \o Caller.arg
             IN  hk' = HkBegin(CufaCalls(hk, name, "module_invoke_all", compiled), "function", name)
     \/ hk.fw = "drupal" /\ \E compiled \in BOOLEAN :
          hk' = HkBegin(CufaCalls(hk, <<"p">>, "menu_execute_active_handler", compiled), "function", <<"p">>)
     \/ hk.fw = "drupal8" /\ InHook
        /\ \E m \in HkModules \cup {NULL} : hk' = HkBegin(hk, "callback", m)
     \/ hk.fw = "drupal8" /\ Caller # NULL /\ Caller.fn = "callback" /\ Caller.arg # NULL
        /\ LET hook == hk.frames[Len(hk.frames) - 1].arg
           IN  hk' = HkBegin(hk, "function", Caller.arg \o <<"_">> \o hook)

HkHttp ==
  /\ HkMay /\ hk.fw = "drupal"
  /\ \E url \in BOOLEAN, second \in {"missing", "null", "array with bad headers"} :
       /\ ~hk.legacy => second = "missing"
       /\ hk' = HkBegin(hk, "drupal_http_request", [url |-> url, second |-> second])

HkReturn == hk.frames # <<>> /\ hk' = HkEnd(TRUE)
HkThrow == hk.frames # <<>> /\ hk' = HkEnd(FALSE)

HkTransaction ==
  \/ /\ hk.txn # NULL /\ hk.txns = 1
     /\ hk' = [hk EXCEPT !.txn = NULL, !.segs = <<>>, !.rec = NULL, !.path = NULL,
                         !.broken = @ \/ hk.frames # <<>>]
  \/ hk.txn = NULL /\ hk' = [hk EXCEPT !.txn = hk.txns + 1, !.txns = @ + 1, !.rec = NULL]

HkNext == HkInvoke \/ HkAddFilter \/ HkFunction \/ HkHttp \/ HkReturn \/ HkThrow \/ HkTransaction

------------------------------------------------------------------------------
(* Properties.                                                             *)

\* Three things break the order of the observer's callbacks: a transaction that
\* ends in a call; drupal_http_request that throws, or has no URL, since its
\* segment stays, and the next call that ends takes it for its own; and
\* invokeAllWith for an empty hook, which pops what it has not pushed.
HkOrdered == hk.legacy \/ ~hk.broken

Running(fns) == SelectSeq(hk.frames, LAMBDA f : f.wraprec # NULL /\ f.fn \in fns)

\* The innermost hook with a name that runs, as far as the agent saw it begin.
RunningHook ==
  LET named == SelectSeq(Running(Invokers), LAMBDA f : f.arg # NULL)
  IN  IF named = <<>> THEN NULL ELSE IF hk.fw = "wordpress" THEN nr_wordpress_clean_tag(Last(named).arg)
            ELSE Last(named).arg

\* The hook on top of the stack is the innermost one that runs and has a name, and
\* call_user_func_array is looked at while there is one.
InnermostHook ==
  /\ HkOrdered /\ hk.ini => Top(hk.tags) = RunningHook
  /\ ~hk.legacy /\ HkOrdered => (hk.cufa <=> hk.tags # <<>>)

\* A metric names the plugin or module of the function that ended, and the hook
\* that it was called for; in Drupal 6 and 7 if the name of the hook is not part of
\* the name of the module.
MetricsNameOwner ==
  hk.rec # NULL /\ HkOrdered =>
    /\ hk.rec.kind = "hook" => /\ hk.rec.plugin = nr_wordpress_plugin_from_function(hk.rec.of)
                               /\ hk.rec.tag = RunningHook
    /\ hk.rec.kind = "module" =>
         \/ hk.rec.of = hk.rec.module \o <<"_">> \o hk.rec.hook
         \/ nr_strnidx(hk.rec.of, hk.rec.hook) # Len(hk.rec.of) - Len(hk.rec.hook)

\* The depth is the number of drupal_http_request calls that run; before PHP 8.0 only
\* if the second argument is an array.
DepthIsRequests ==
  HkOrdered /\ ~hk.miscounted =>
    hk.depth = Len(Running({"drupal_http_request"}))

\* An external segment is ended once, by the outermost of redirected requests, and
\* while its transaction is there (before PHP 8.0 only if no transaction ended).
OutermostEnds ==
  hk.rec # NULL /\ hk.rec.kind = "external" =>
    /\ ~hk.legacy \/ ~hk.broken => hk.rec.live
    /\ HkOrdered /\ ~hk.miscounted => hk.rec.call = hk.rec.of /\ Running({"drupal_http_request"}) = <<>>

HooksAreBalanced == InnermostHook /\ MetricsNameOwner /\ DepthIsRequests /\ OutermostEnds

\* Whatever a function does, return, throw, or end the transaction it was called
\* in, what was begun for its call is ended for its call, and exceptions are
\* reported as the settings say (agent/php_execute.c); so are the hooks of
\* WordPress and Drupal (agent/fw_wordpress.c, agent/fw_drupal_common.c).
CallsAreBalanced == FunctionCallsAreBalanced /\ HooksAreBalanced
=============================================================================
