--------------------------- MODULE MCTransactions ---------------------------
(***************************************************************************)
(* The components a transaction's data pass through, from the request and  *)
(* its callers to its own requests and the message for the daemon, in one  *)
(* run.  They are checked side by side: every behaviour is one of the      *)
(* component that the first state chooses, and the others rest, with       *)
(* nothing there.                                                          *)
(***************************************************************************)
EXTENDS TraceChain, Api, Attributes, NamingRules, Lifecycle, TxnData, Guzzle

\* Responses with and without the tags the browser agent goes by, one of them
\* malformed, in one buffer or several.
MCPages == {<<"head", "ua", "/body">>, <<"body", "/body">>, <<"/body", "head">>, <<"text">>}

\* Services that pad their priority, drop what is sampled upstream or send no spans.
MCChainInis ==
  {[DefaultIni EXCEPT !.pad = TRUE],
   [DefaultIni EXCEPT !.exclude_newrelic = TRUE, !.parent_sampled = "ALWAYS_DROP"],
   [DefaultIni EXCEPT !.span_events = FALSE, !.otel = TRUE]}

\* Keys of attributes, one of them a prefix of another, and rules about them.
MCKeys == {<<1>>, <<1, 1>>, <<2>>}
MCMatches ==
  {[match |-> <<>>, wild |-> TRUE]} \union [match : {<<1>>, <<1, 1>>}, wild : BOOLEAN]

\* Names of metrics; two have the same hash, and so has the one for what is dropped.
MCHash == "a" :> 2 @@ "b" :> 2 @@ "c" :> 1 @@ "d" :> 3 @@ "Supportability/MetricsDropped" :> 2
MCMaxOps == [p \in TdParts |-> CASE p = "sampling" -> 11 [] p \in {"logs", "events"} -> 7
                                 [] p = "spans" -> 5 [] OTHER -> 4]

VARIABLE component

Components == {"request", "chain", "api", "attributes", "rules", "lifecycle", "data", "heap",
               "externals", "guzzle"}

MCInit ==
  /\ component \in Components
  /\ IF component = "request" THEN RequestInit
     ELSE /\ rtopic = "page" /\ rini = NULL /\ rapp = NULL /\ rserver = NULL /\ rtxn = NULL
          /\ rcalls = 0 /\ rpage = <<>> /\ rhist = NoHistory /\ rsent = <<>>
  /\ IF component = "chain" THEN ChainInit
     ELSE /\ cini = NULL /\ ctxn = [s \in {} |-> NULL] /\ cnet = {}
          /\ cout = [s \in Services |-> {}] /\ cfrom = [s \in {} |-> NULL]
  /\ IF component = "api" THEN ApInit ELSE ap = [asked |-> <<>>, over |-> NULL, sent |-> <<>>]
  /\ IF component = "attributes" THEN AttrInit
     ELSE /\ aconfig = [modifiers |-> <<>>, disabled |-> AttrDests] /\ arules = <<>>
          /\ attributes = nr_attributes_create /\ alast = [k \in AttrKeys |-> 0]
  /\ IF component = "rules" THEN NrInit
     ELSE nrReply = <<>> /\ nrTerms = <<>> /\ nrName = <<>> /\ nrResult = NULL
  /\ IF component = "lifecycle" THEN LfInit
     ELSE /\ lfHost = NULL /\ lfProcs = [p \in LfProcesses |-> NewProcess] /\ lfDaemon = NULL
          /\ lfConns = 0 /\ lfStarts = 0
  /\ IF component = "externals" THEN ExInit
     ELSE ex = [mode |-> "off", multi |-> <<>>, md |-> <<>>, sent |-> NULL]
  /\ IF component = "guzzle" THEN GzInit
     ELSE gz = [v |-> 6, objs |-> nr_hashmap_create, segs |-> <<>>, phase |-> "off"]
  /\ IF component = "data" THEN TdInit ELSE td = [part |-> "none", sent |-> NULL]
  /\ IF component = "heap" THEN HeapInit ELSE heap = nr_minmax_heap_create(0) /\ heapOut = NULL

\* Every component but the one that is checked stays as it is.
OthersRest ==
  /\ UNCHANGED component
  /\ IF component = "request" THEN TRUE ELSE UNCHANGED requestVars
  /\ IF component = "chain" THEN TRUE ELSE UNCHANGED chainVars
  /\ IF component = "api" THEN TRUE ELSE UNCHANGED apVars
  /\ IF component = "attributes" THEN TRUE ELSE UNCHANGED attrVars
  /\ IF component = "rules" THEN TRUE ELSE UNCHANGED nrVars
  /\ IF component = "lifecycle" THEN TRUE ELSE UNCHANGED lfVars
  /\ IF component = "externals" THEN TRUE ELSE UNCHANGED exVars
  /\ IF component = "guzzle" THEN TRUE ELSE UNCHANGED gzVars
  /\ IF component = "data" THEN TRUE ELSE UNCHANGED tdVars
  /\ IF component = "heap" THEN TRUE ELSE UNCHANGED heapVars

MCNext ==
  \/ component = "request"    /\ RequestNext /\ OthersRest
  \/ component = "chain"      /\ ChainNext   /\ OthersRest
  \/ component = "api"        /\ ApNext      /\ OthersRest
  \/ component = "attributes" /\ AttrNext    /\ OthersRest
  \/ component = "rules"      /\ NrNext      /\ OthersRest
  \/ component = "lifecycle"  /\ LfNext      /\ OthersRest
  \/ component = "externals"  /\ ExNext      /\ OthersRest
  \/ component = "guzzle"     /\ GzNext      /\ OthersRest
  \/ component = "data"       /\ TdNext      /\ OthersRest
  \/ component = "heap"       /\ HeapNext    /\ OthersRest
=============================================================================
