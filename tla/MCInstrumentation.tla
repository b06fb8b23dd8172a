-------------------------- MODULE MCInstrumentation --------------------------
(***************************************************************************)
(* The parts of the agent that run inside of PHP's calls, and its settings, *)
(* in one run.  They are checked side by side: every behaviour is one of   *)
(* the component that the first state chooses, and the others rest, with   *)
(* nothing there.                                                          *)
(***************************************************************************)
EXTENDS Hooks, UserFunctions, InternalFunctions, Predis, Segments, Settings, TLC

\* Functions of a script: a function and a method of the same name, a closure, an
\* internal function, and one whose name differs in case.
MCFunctions ==
  LET Fn(scope, name, line, file, user) ==
        [scope |-> scope, name |-> name, line |-> line, file |-> file, user |-> user]
  IN 1 :> Fn("", "f", 10, "a", TRUE) @@ 2 :> Fn("x", "f", 10, "b", TRUE)
     @@ 3 :> Fn("", "{closure}", 10, "a", TRUE) @@ 4 :> Fn("", "g", 20, "a", FALSE)
     @@ 5 :> Fn("", "F", 20, "a", TRUE)
MCNames == {<<"", "f">>, <<"x", "f">>, <<"", "g">>}

\* PHP's function table.
MCFnTable == << <<"pdo", "query">>, <<"pdo_mysql", "query">>,
                <<"", "call_user_func_array">>, <<"", "mysql_query">> >>

VARIABLE component

Components == {"execute", "hooks", "wraprecs", "internal", "datastores", "predis", "segments", "settings"}

MCInit ==
  /\ component \in Components
  /\ IF component = "execute" THEN XcInit
     ELSE xc = [limited |-> TRUE, ended |-> NULL, filters |-> <<>>, over |-> FALSE, enabled |-> <<>>]
  /\ IF component = "hooks" THEN HkInit
     ELSE hk = [fw |-> "drupal", legacy |-> FALSE, broken |-> TRUE, rec |-> NULL]
  /\ IF component = "wraprecs" THEN UfInit
     ELSE uf = [recs |-> <<>>, list |-> <<>>, transients |-> <<>>, named |-> NULL, map |-> NULL,
                declared |-> {}]
  /\ IF component = "internal" THEN FnInit ELSE fns = [called |-> NULL]
  /\ IF component = "datastores" THEN DsInit
     ELSE ds = [family |-> NULL, conn |-> <<>>, queries |-> <<>>, links |-> <<>>, mysql_last_conn |-> NULL,
                pgsql_last_conn |-> NULL, generating |-> FALSE, open |-> 0, did |-> NULL, rec |-> NULL]
  /\ IF component = "predis" THEN PrInit
     ELSE pr = [build |-> "7", frames |-> <<>>, ctxs |-> <<>>, rec |-> NULL, broken |-> FALSE]
  /\ IF component = "segments" THEN SegInit
     ELSE sg = [segs |-> <<>>, now |-> 1, count |-> 0, heap |-> NULL, topic |-> "typed"] /\ sgResult = NULL
  /\ IF component = "settings" THEN IniInit
     ELSE iniSubject = "labels" /\ iniMaster = NULL /\ iniEntry = NULL /\ iniConfig = NULL /\ iniPhase = "off"
  /\ heap = NULL /\ heapOut = NULL

\* Every component but the one that is checked stays as it is.
OthersRest ==
  /\ UNCHANGED <<component, heapVars>>
  /\ IF component = "execute" THEN TRUE ELSE UNCHANGED xcVars
  /\ IF component = "hooks" THEN TRUE ELSE UNCHANGED hkVars
  /\ IF component = "wraprecs" THEN TRUE ELSE UNCHANGED ufVars
  /\ IF component = "internal" THEN TRUE ELSE UNCHANGED fnVars
  /\ IF component = "datastores" THEN TRUE ELSE UNCHANGED dsVars
  /\ IF component = "predis" THEN TRUE ELSE UNCHANGED prVars
  /\ IF component = "segments" THEN TRUE ELSE UNCHANGED segVars
  /\ IF component = "settings" THEN TRUE ELSE UNCHANGED iniVars

MCNext ==
  \/ component = "execute"    /\ XcNext  /\ OthersRest
  \/ component = "hooks"      /\ HkNext  /\ OthersRest
  \/ component = "wraprecs"   /\ UfNext  /\ OthersRest
  \/ component = "internal"   /\ FnNext  /\ OthersRest
  \/ component = "datastores" /\ DsNext  /\ OthersRest
  \/ component = "predis"     /\ PrNext  /\ OthersRest
  \/ component = "segments"   /\ SegNext /\ OthersRest
  \/ component = "settings"   /\ IniNext /\ OthersRest
=============================================================================
