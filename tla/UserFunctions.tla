--------------------------- MODULE UserFunctions ---------------------------
(***************************************************************************)
(* The records of wrapped user functions (wraprecs): php_user_instrument.c, *)
(* its two hashmaps, php_wrapper.c, and the registration of functions with  *)
(* PHP's observer in php_observer.c.                                        *)
(*                                                                          *)
(* A function of the script is a number with a name <<scope, name>>, a line  *)
(* and a file.  A wraprec is a number, its address.  How a function leads to *)
(* its wraprec depends on the version of PHP: a slot of the function (8.0+),  *)
(* a hashmap keyed by line and names (7.4), an index in a slot (before).     *)
(****************************************************************************)
EXTENDS AgentBase, Sequences, FiniteSets, SequencesExt, FiniteSetsExt

CONSTANTS
  UfFunctions,   \* the script's functions: number -> [scope, name, line, file, user]
  UfNames,       \* the names instrumentation is asked for
  UfIndexSize,   \* 2^16, the indices a slot has room for (PHP before 7.4)
  UfMaxAsks,     \* cap on what instrumentation asks for, in all
  UfMaxDeclared, \* cap on the functions of a request
  UfMaxRequests  \* cap on the requests

VARIABLE uf

ufVars == <<uf>>

\* nr_string_to_lowercase, for the names of this model.
Lower(s) == IF s = "F" THEN "f" ELSE s
LowerName(n) == <<Lower(n[1]), Lower(n[2])>>
FullName(fn) == <<UfFunctions[fn].scope, UfFunctions[fn].name>>
IsClosure(fn) == UfFunctions[fn].name = "{closure}"

NoCallbacks == [before |-> NULL, after |-> NULL, clean |-> NULL]

---------------------------------------------------------------------------
(* Wraprecs.                                                                *)

NewRecord == [name |-> NULL, transient |-> FALSE, wrapped |-> FALSE, disabled |-> FALSE,
              handler |-> FALSE, metric |-> FALSE, names |-> FALSE, declared |-> FALSE,
              cbs |-> NoCallbacks, key |-> NULL]

nr_php_user_wraprec_create(u) ==
  [u |-> [u EXCEPT !.next = @ + 1, !.recs = (u.next :> NewRecord) @@ @], rec |-> u.next]

nr_php_user_wraprec_create_named(u, n) ==
  LET c == nr_php_user_wraprec_create(u)
  IN [c EXCEPT !.u.recs[c.rec].name = n]

nr_php_user_wraprec_destroy(u, rec) ==
  [u EXCEPT !.recs = [r \in DOMAIN @ \ {rec} |-> @[r]]]

nr_php_user_wraprec_is_match(u, rec, n) == LowerName(u.recs[rec].name) = LowerName(n)

---------------------------------------------------------------------------
(* PHP 8.0+: all named wraprecs of the process, by their exact names.        *)

nr_func_hashmap_create_internal == [f \in {} |-> NULL]
nr_func_hashmap_lookup_internal(ht, key) == IF key \in DOMAIN ht THEN ht[key] ELSE NULL

\* The record of a name, made when there is none.
nr_func_hashmap_update_internal(u, ht, n) ==
  IF n[2] \in DOMAIN ht THEN [u |-> u, ht |-> ht, rec |-> ht[n[2]]]
  ELSE LET c == nr_php_user_wraprec_create_named(u, n)
       IN [u |-> c.u, ht |-> (n[2] :> c.rec) @@ ht, rec |-> c.rec]

\* The records of the map's functions go with it.
nr_func_hashmap_destroy_internal(u, ht) ==
  [u EXCEPT !.recs = [r \in DOMAIN @ \ {ht[f] : f \in DOMAIN ht} |-> @[r]]]

\* For each class a map of its methods.
nr_scope_hashmap_create_internal == [c \in {} |-> NULL]
nr_scope_hashmap_lookup_internal(ht, key) == IF key \in DOMAIN ht THEN ht[key] ELSE NULL
nr_scope_hashmap_update_internal(ht, key) ==
  IF key \in DOMAIN ht THEN ht ELSE (key :> nr_func_hashmap_create_internal) @@ ht
nr_scope_hashmap_destroy_internal(u, ht) ==
  FoldSet(LAMBDA c, v : nr_func_hashmap_destroy_internal(v, ht[c]), u, DOMAIN ht)

nr_php_user_instrument_wraprec_hashmap_init ==
  [scope_ht |-> nr_scope_hashmap_create_internal, funcs_ht |-> nr_func_hashmap_create_internal]

nr_php_user_instrument_wraprec_hashmap_name2keys(n) ==
  [is_method |-> n[1] # "", scope |-> n[1], func |-> n[2]]

nr_php_user_instrument_wraprec_hashmap_get(u, n) ==
  LET methods == nr_scope_hashmap_lookup_internal(u.named.scope_ht, n[1])
      ht == IF n[1] # "" THEN methods ELSE u.named.funcs_ht
  IN IF u.named = NULL THEN NULL
     ELSE IF ht = NULL THEN NULL ELSE nr_func_hashmap_lookup_internal(ht, n[2])

nr_php_user_instrument_wraprec_hashmap_add(u, n) ==
  LET key == nr_php_user_instrument_wraprec_hashmap_name2keys(n)
      scopes == nr_scope_hashmap_update_internal(u.named.scope_ht, key.scope)
      m == nr_func_hashmap_update_internal(u, IF key.is_method THEN scopes[key.scope] ELSE u.named.funcs_ht, n)
  IN [u |-> IF key.is_method THEN [m.u EXCEPT !.named.scope_ht = [scopes EXCEPT ![key.scope] = m.ht]]
            ELSE [m.u EXCEPT !.named.funcs_ht = m.ht],
      rec |-> m.rec]

nr_php_user_instrument_wraprec_hashmap_destroy(u) ==
  [nr_func_hashmap_destroy_internal(nr_scope_hashmap_destroy_internal(u, u.named.scope_ht), u.named.funcs_ht)
   EXCEPT !.named = NULL]

---------------------------------------------------------------------------
(* PHP 7.4: the wrapped functions of the request, by line and names.         *)

nr_php_wraprec_hashmap_key_set(fn) ==
  LET f == UfFunctions[fn]
  IN [line |-> f.line,
      name |-> IF IsClosure(fn) THEN NULL ELSE f.name,
      scope |-> IF IsClosure(fn) \/ f.scope = "" THEN NULL ELSE f.scope,
      file |-> IF IsClosure(fn) THEN f.file ELSE NULL]


\* A function that is in no class is not asked for the key's class.
nr_is_wraprec_for_zend_func(key, fn) ==
  LET f == UfFunctions[fn]
  IN /\ key.line = f.line
     /\ IF IsClosure(fn) THEN key.file = f.file
        ELSE key.name = f.name /\ (f.scope # "" => key.scope = f.scope)

\* The buckets are searched from the one that was added last.
nr_php_wraprec_hashmap_fetch_internal(u, fn) ==
  SelectInSeq(u.map, LAMBDA rec : nr_is_wraprec_for_zend_func(u.recs[rec].key, fn))

nr_php_wraprec_hashmap_get_into(u, fn) ==
  IF u.map = NULL THEN NULL
  ELSE LET i == nr_php_wraprec_hashmap_fetch_internal(u, fn)
       IN IF i = 0 THEN NULL ELSE u.map[i]

\* The destructor of the map: a transient record goes, another may be wrapped again.
reset_wraprec(u, rec) ==
  IF u.recs[rec].transient THEN nr_php_user_wraprec_destroy(u, rec)
  ELSE [u EXCEPT !.recs[rec].wrapped = FALSE, !.recs[rec].key = NULL]

nr_php_wraprec_hashmap_update(u, fn, rec) ==
  LET v == [u EXCEPT !.recs[rec].key = nr_php_wraprec_hashmap_key_set(fn)]
      i == nr_php_wraprec_hashmap_fetch_internal(u, fn)
  IN IF u.map = NULL THEN u
     ELSE IF i = 0 THEN [v EXCEPT !.map = <<rec>> \o @]
     ELSE [reset_wraprec(v, u.map[i]) EXCEPT !.map[i] = rec]

nr_php_wraprec_hashmap_destroy(u) ==
  [FoldLeft(LAMBDA v, rec : reset_wraprec(v, rec), u, u.map) EXCEPT !.map = NULL]

nr_php_init_user_instrumentation(u) == IF u.map # NULL THEN u ELSE [u EXCEPT !.map = <<>>]

---------------------------------------------------------------------------
(* PHP before 7.4: a vector of wraprecs; the slot has the process and index.  *)

Pid == 1

\* What an index has beyond its bits is or'ed into the bits of the process id.
nr_php_op_array_set_wraprec(u, fn, rec) ==
  LET index == Len(u.vec)
  IN [u EXCEPT !.vec = Append(@, rec),
               !.slot[fn] = <<IF index < 2 * UfIndexSize THEN Pid ELSE Pid + 2, index % UfIndexSize>>]

nr_php_op_array_get_wraprec(u, fn) ==
  IF u.slot[fn] = NULL \/ u.slot[fn][1] # Pid THEN NULL ELSE u.vec[u.slot[fn][2] + 1]

---------------------------------------------------------------------------

\* A function of the engine (a trampoline) is no place to keep a record in.
nr_php_wraprec_lookup_set(u, fn, rec) ==
  IF u.build = "7.4" THEN nr_php_wraprec_hashmap_update(u, fn, rec)
  ELSE [u EXCEPT !.slot[fn] = rec]

nr_php_wraprec_lookup_get(u, fn) ==
  IF u.build = "7.4" THEN nr_php_wraprec_hashmap_get_into(u, fn) ELSE u.slot[fn]

nr_php_get_wraprec(u, fn) ==
  IF u.build = "7.3" THEN nr_php_op_array_get_wraprec(u, fn) ELSE nr_php_wraprec_lookup_get(u, fn)

nr_php_wrap_zend_function(u, fn, rec) ==
  LET v == IF u.build = "7.3" THEN nr_php_op_array_set_wraprec(u, fn, rec)
           ELSE nr_php_wraprec_lookup_set(u, fn, rec)
  IN [v EXCEPT !.recs[rec].wrapped = TRUE,
               !.told = IF u.recs[rec].declared THEN @ \cup {rec} ELSE @]

\* nr_php_find_function, nr_php_find_class_method: by lower case.
FindFunction(u, n) == {fn \in u.declared : LowerName(FullName(fn)) = LowerName(n)}

nr_php_wrap_user_function_internal(u, rec) ==
  LET found == FindFunction(u, u.recs[rec].name)
  IN IF ~u.done \/ u.recs[rec].wrapped \/ found = {} THEN u
     ELSE LET fn == CHOOSE f \in found : TRUE
          IN IF ~UfFunctions[fn].user THEN [u EXCEPT !.recs[rec].disabled = TRUE]
             ELSE nr_php_wrap_zend_function(u, fn, rec)

nr_php_add_custom_tracer_common(u, rec) ==
  IF u.build = "8.0" THEN IF u.recs[rec].transient THEN [u EXCEPT !.transients = <<rec>> \o @] ELSE u
  ELSE IF u.build = "7.4" /\ u.recs[rec].transient THEN u
  ELSE [u EXCEPT !.list = <<rec>> \o @]

nr_php_add_custom_tracer_callable(u, fn) ==
  LET old == nr_php_get_wraprec(u, fn)
      c == nr_php_user_wraprec_create(u)
      w == nr_php_wrap_zend_function([c.u EXCEPT !.recs[c.rec].transient = TRUE], fn, c.rec)
  IN IF ~UfFunctions[fn].user THEN [u |-> u, rec |-> NULL]
     ELSE IF old # NULL THEN [u |-> u, rec |-> old]
     ELSE [u |-> nr_php_add_custom_tracer_common(w, c.rec), rec |-> c.rec]

nr_php_user_instrument_is_name_valid(n) == n[2] # ""

nr_php_add_custom_tracer_named(u, n) ==
  LET same == SelectSeq(u.list, LAMBDA rec :
                ~u.recs[rec].transient /\ nr_php_user_wraprec_is_match(u, rec, n))
      a == IF u.build = "8.0" THEN nr_php_user_instrument_wraprec_hashmap_add(u, n)
           ELSE nr_php_user_wraprec_create_named(u, n)
  IN IF ~nr_php_user_instrument_is_name_valid(n) THEN [u |-> u, rec |-> NULL]
     ELSE IF u.build # "8.0" /\ same # <<>>
     THEN [u |-> nr_php_wrap_user_function_internal(u, same[1]), rec |-> same[1]]
     ELSE [u |-> nr_php_add_custom_tracer_common(nr_php_wrap_user_function_internal(a.u, a.rec), a.rec),
           rec |-> a.rec]

---------------------------------------------------------------------------
(* What instrumentation asks for.                                            *)

Mark(a, field) == IF a.rec = NULL THEN a.u ELSE [a.u EXCEPT !.recs[a.rec] = [@ EXCEPT ![field] = TRUE]]

nr_php_add_transaction_naming_function(u, n) == Mark(nr_php_add_custom_tracer_named(u, n), "names")
nr_php_add_custom_tracer(u, n) == Mark(nr_php_add_custom_tracer_named(u, n), "metric")
nr_php_add_exception_function(u, fn) == Mark(nr_php_add_custom_tracer_callable(u, fn), "handler")

nr_php_remove_exception_function(u, fn) ==
  LET rec == nr_php_get_wraprec(u, fn)
  IN IF ~UfFunctions[fn].user \/ rec = NULL THEN u ELSE [u EXCEPT !.recs[rec].handler = FALSE]

\* The callback is called when the function is declared, or at once.
nr_php_user_function_add_declared_callback(u, n) ==
  LET a == nr_php_add_custom_tracer_named(u, n)
      v == Mark(a, "declared")
  IN IF a.rec # NULL /\ v.recs[a.rec].wrapped THEN [v EXCEPT !.told = @ \cup {a.rec}] ELSE v

is_instrumentation_set_and_not_equal(old, new) == old # NULL /\ old # new

nr_php_wraprec_add_before_after_clean_callbacks(u, rec, cbs) ==
  IF rec = NULL THEN u
  ELSE LET old == u.recs[rec].cbs
       IN IF \E c \in DOMAIN cbs : is_instrumentation_set_and_not_equal(old[c], cbs[c]) THEN u
          ELSE [u EXCEPT !.recs[rec].cbs = cbs]

nr_php_wrap_user_function_before_after_clean(u, n, cbs) ==
  LET a == nr_php_add_custom_tracer_named(u, n)
  IN nr_php_wraprec_add_before_after_clean_callbacks(a.u, a.rec, cbs)

nr_php_wrap_callable_before_after_clean(u, fn, cbs) ==
  LET a == nr_php_add_custom_tracer_callable(u, fn)
  IN nr_php_wraprec_add_before_after_clean_callbacks(a.u, a.rec, cbs)

SetAfter(a, callback) ==
  IF a.rec = NULL \/ is_instrumentation_set_and_not_equal(a.u.recs[a.rec].cbs.after, callback)
  THEN a.u ELSE [a.u EXCEPT !.recs[a.rec].cbs.after = callback]

nr_php_wrap_user_function(u, n, callback) == SetAfter(nr_php_add_custom_tracer_named(u, n), callback)
nr_php_wrap_callable(u, fn, callback) == SetAfter(nr_php_add_custom_tracer_callable(u, fn), callback)

nr_php_wrap_generic_callable(u, fn, callback) ==
  IF u.build = "8.0"
  THEN nr_php_wrap_callable_before_after_clean(u, fn, [NoCallbacks EXCEPT !.before = callback])
  ELSE nr_php_wrap_callable(u, fn, callback)

---------------------------------------------------------------------------
(* Files, first calls, and the end of a request.                             *)

nr_php_add_user_instrumentation(u) ==
  IF u.build = "8.0" THEN u
  ELSE FoldLeft(LAMBDA v, rec :
                  IF v.recs[rec].wrapped \/ v.recs[rec].disabled \/ v.recs[rec].name = NULL THEN v
                  ELSE nr_php_wrap_user_function_internal(v, rec),
                u, u.list)

\* PHP asks once for a function and keeps the answer: handlers or none.
nr_php_fcall_register_handlers(u, fn) ==
  IF u.build # "8.0" \/ ~UfFunctions[fn].user \/ ~u.recording THEN u
  ELSE [u EXCEPT !.observed = @ \cup {fn},
                 !.slot[fn] = IF @ # NULL \/ IsClosure(fn) THEN @
                              ELSE nr_php_user_instrument_wraprec_hashmap_get(u, FullName(fn))]

nr_php_remove_transient_user_instrumentation(u) ==
  CASE u.build = "8.0" ->
         [u EXCEPT !.recs = [r \in DOMAIN @ \ ToSet(u.transients) |-> @[r]], !.transients = <<>>]
    [] u.build = "7.3" ->
         LET gone == {rec \in ToSet(u.list) : u.recs[rec].transient}
         IN [u EXCEPT !.recs = [r \in DOMAIN @ \ gone |-> @[r]],
                      !.list = SelectSeq(@, LAMBDA rec : rec \notin gone)]
    [] OTHER -> u

nr_php_reset_user_instrumentation(u) ==
  CASE u.build = "8.0" -> u
    [] u.build = "7.4" -> IF u.map = NULL THEN u ELSE nr_php_wraprec_hashmap_destroy(u)
    [] OTHER -> [u EXCEPT !.recs = [r \in DOMAIN @ |->
                   IF r \in ToSet(u.list) THEN [@[r] EXCEPT !.wrapped = FALSE] ELSE @[r]]]

nr_php_destroy_user_wrap_records(u) ==
  IF u.build = "8.0" THEN nr_php_user_instrument_wraprec_hashmap_destroy(u)
  ELSE [u EXCEPT !.recs = [r \in DOMAIN @ \ ToSet(u.list) |-> @[r]], !.list = <<>>]

---------------------------------------------------------------------------
(* The machine: a process that handles requests.                             *)

NoSlots == [fn \in DOMAIN UfFunctions |-> NULL]

UfStart(build, topic) ==
  [build |-> build, topic |-> topic, done |-> FALSE, phase |-> "startup", requests |-> 0, recording |-> FALSE,
   recs |-> [r \in {} |-> NULL], next |-> 1,
   named |-> nr_php_user_instrument_wraprec_hashmap_init, list |-> <<>>, transients |-> <<>>,
   map |-> NULL, vec |-> <<>>, slot |-> NoSlots, declared |-> {}, observed |-> {}, told |-> {},
   early |-> {}, loaded |-> {}, callables |-> {}, asks |-> 0]

\* The topic keeps the marks of a record apart from its callbacks.
UfInit == \E build \in {"8.0", "7.4", "7.3"}, topic \in {"marks", "callbacks"} : uf = UfStart(build, topic)

\* The callbacks frameworks give: before, after and clean, or an after only.
Families == {[before |-> "b", after |-> "a", clean |-> "c"], [NoCallbacks EXCEPT !.before = "b2"]}

UfRoom == uf.asks < UfMaxAsks
Another(u) == [u EXCEPT !.asks = @ + 1]

\* newrelic.ini, the API and the frameworks ask for functions by name.
UfAskName ==
  /\ UfRoom /\ uf.phase \in {"startup", "request"}
  /\ \E n \in UfNames :
       LET v == Another(uf)
           asked == [v EXCEPT !.early = IF uf.phase = "startup" THEN @ \cup {n} ELSE @]
       IN \/ uf.topic = "marks" /\ uf' = nr_php_add_custom_tracer(asked, n)
          \/ uf.phase = "startup" /\ uf' = nr_php_add_transaction_naming_function(asked, n)
          \/ uf.topic = "marks" /\ uf.phase = "request" /\ uf' = nr_php_user_function_add_declared_callback(v, n)
          \/ /\ uf.topic = "callbacks" /\ uf.phase = "request"
             /\ \/ \E f \in Families : uf' = nr_php_wrap_user_function_before_after_clean(v, n, f)
                \/ uf' = nr_php_wrap_user_function(v, n, "a4")

\* The module is loaded: from now on functions are looked up.
UfStartupDone == uf.phase = "startup" /\ uf' = [uf EXCEPT !.phase = "idle", !.done = TRUE]

\* The engine's caches, and with them the slots, are those of the request.
UfRequest ==
  /\ uf.phase = "idle" /\ uf.requests < UfMaxRequests
  /\ \E recording \in BOOLEAN :
       LET fresh == [uf EXCEPT !.phase = "request", !.requests = @ + 1, !.recording = recording,
                               !.slot = NoSlots, !.vec = <<>>, !.declared = {}, !.observed = {},
                               !.told = {}, !.loaded = {}, !.callables = {},
                               !.early = {n \in UfNames : \E r \in DOMAIN uf.recs : uf.recs[r].name = n}]
       IN uf' = CASE uf.build = "7.4" -> nr_php_init_user_instrumentation(fresh)
                  [] uf.build = "7.3" -> nr_php_reset_user_instrumentation(fresh)
                  [] OTHER -> fresh

\* A file is executed and declares a function; the name is not taken.
UfLoad ==
  /\ uf.phase = "request" /\ Cardinality(uf.declared) < UfMaxDeclared
  /\ \E fn \in DOMAIN UfFunctions \ uf.declared :
       /\ ~IsClosure(fn) => FindFunction(uf, FullName(fn)) = {}
       /\ LET v == [uf EXCEPT !.declared = @ \cup {fn}, !.loaded = IF uf.recording THEN @ \cup {fn} ELSE @]
          IN uf' = IF uf.recording THEN nr_php_add_user_instrumentation(v) ELSE v

\* A callback, or an exception handler, is given as a callable.
UfAskCallable ==
  /\ UfRoom /\ uf.phase = "request"
  /\ \E fn \in uf.declared :
       LET v == [Another(uf) EXCEPT !.callables = @ \cup {fn}]
       IN \/ uf.topic = "marks" /\ uf' = nr_php_add_exception_function(v, fn)
          \/ uf.topic = "callbacks" /\ uf' = nr_php_wrap_generic_callable(v, fn, "b2")

UfRestoreHandler ==
  /\ UfRoom /\ uf.phase = "request" /\ uf.topic = "marks"
  /\ \E fn \in uf.declared : uf' = nr_php_remove_exception_function(Another(uf), fn)

UfFirstCall ==
  /\ uf.phase = "request"
  /\ \E fn \in uf.declared \ uf.observed : uf' = nr_php_fcall_register_handlers(uf, fn)

\* newrelic_start_transaction: before 7.4 the records may be wrapped again.
UfTransaction ==
  /\ uf.phase = "request"
  /\ uf' = IF uf.build = "7.3" THEN [nr_php_reset_user_instrumentation(uf) EXCEPT !.recording = TRUE]
           ELSE [uf EXCEPT !.recording = TRUE]

UfRequestEnd ==
  /\ uf.phase = "request"
  /\ LET v == nr_php_remove_transient_user_instrumentation(uf)
         w == IF uf.build = "7.3" THEN [v EXCEPT !.vec = <<>>] ELSE nr_php_reset_user_instrumentation(v)
     IN uf' = [w EXCEPT !.phase = "idle", !.slot = NoSlots, !.declared = {}, !.observed = {},
                        !.loaded = {}, !.callables = {}]

UfShutdown ==
  /\ uf.phase = "idle"
  /\ uf' = [nr_php_destroy_user_wrap_records(uf) EXCEPT !.phase = "over"]

UfNext == UfAskName \/ UfStartupDone \/ UfRequest \/ UfLoad \/ UfAskCallable \/ UfRestoreHandler
          \/ UfFirstCall \/ UfTransaction \/ UfRequestEnd \/ UfShutdown

---------------------------------------------------------------------------
(* Properties.                                                               *)

NamedRecords(named) ==
  UNION {{named.scope_ht[c][f] : f \in DOMAIN named.scope_ht[c]} : c \in DOMAIN named.scope_ht}
  \cup {named.funcs_ht[f] : f \in DOMAIN named.funcs_ht}

Owners(u) ==
  ToSet(u.list) \cup ToSet(u.transients)
  \cup (IF u.named = NULL THEN {} ELSE NamedRecords(u.named))
  \cup (IF u.map = NULL THEN {} ELSE ToSet(u.map))

\* Every record is owned, by a list or a map that destroys it, and what they
\* own is there: nothing leaks from request to request or is freed twice.
RecordsAreOwned ==
  /\ DOMAIN uf.recs = Owners(uf)
  /\ Cardinality(ToSet(uf.list)) = Len(uf.list)

\* PHP 7.4 tells functions apart by line and name; a class is not asked for.
Ambiguous(fn) ==
  uf.build = "7.4" /\ \E g \in uf.declared \ {fn} :
    IsClosure(fn) = IsClosure(g)
    /\ UfFunctions[fn].line = UfFunctions[g].line /\ UfFunctions[fn].name = UfFunctions[g].name

\* The record a function leads to is there, and was made for its name or for
\* this very function: no other function's callbacks run for it.
LookupIsOwn ==
  \A fn \in uf.declared :
    LET rec == nr_php_get_wraprec(uf, fn)
    IN (UfFunctions[fn].user /\ rec # NULL /\ ~Ambiguous(fn) /\ Len(uf.vec) <= UfIndexSize) =>
         /\ rec \in DOMAIN uf.recs
         /\ IF uf.recs[rec].transient THEN fn \in uf.callables
            ELSE LowerName(uf.recs[rec].name) = LowerName(FullName(fn))

\* A function that was asked for, by its very name, before the request has
\* its record when it is called in the request, unless it was wrapped as a
\* callable: in the first request of a process and in each one after it.
AskedIsWrapped ==
  \A fn \in uf.declared :
    /\ UfFunctions[fn].user /\ FullName(fn) \in uf.early /\ ~Ambiguous(fn)
    /\ fn \notin uf.callables /\ Len(uf.vec) <= UfIndexSize
    /\ IF uf.build = "8.0" THEN fn \in uf.observed ELSE fn \in uf.loaded
    => nr_php_get_wraprec(uf, fn) # NULL

\* The callbacks of a record that come together stay together: before a clean
\* callback runs, the before callback of the same instrumentation has run.
CallbacksPair ==
  \A r \in DOMAIN uf.recs :
    LET c == uf.recs[r].cbs
    IN c.clean # NULL => \E f \in Families : f.clean = c.clean /\ f.before = c.before

=============================================================================
