------------------------------ MODULE Processor ------------------------------
(***************************************************************************)
(* The daemon's processor (daemon/internal/newrelic/processor.go): the one *)
(* goroutine that owns the applications and their agent runs, and the      *)
(* goroutines that answer to it later - connect attempts, payloads being   *)
(* sent, harvest triggers that are being cancelled.                        *)
(*                                                                         *)
(* Each action is one turn of the select loop of Processor.Run, or one     *)
(* step of the environment.  A connect attempt names its application by    *)
(* key and a harvest error names its run by id, so either may arrive when  *)
(* what it names has changed or gone.  Time appears as two facts about an  *)
(* application: whether its connect backoff is still running, and whether  *)
(* it has been inactive for longer than AppTimeout.                        *)
(***************************************************************************)
EXTENDS Integers, FiniteSets

CONSTANTS
    Keys,          \* AppKeys that agents ask about
    Apps,          \* App objects; a bound on how many are ever created
    Runs,          \* agent run ids; a bound on how many the collector hands out
    None,          \* nil
    AppLimit,      \* limits.AppLimit
    MaxAttempts,   \* bound: connect attempts in flight for one key
    MaxPayloads,   \* bound: payloads in flight for one run
    AppTimeout     \* whether the inactivity timeout is on (cfg.AppTimeout > 0)

ASSUME NoneAssumption == None \notin Apps \cup Runs \cup Keys
ASSUME BoundAssumption == MaxAttempts \in Nat /\ MaxPayloads \in Nat /\ AppLimit \in Nat
ASSUME ModeAssumption == AppTimeout \in BOOLEAN

VARIABLES
    \* the processor's own state
    util,      \* whether the utilization data has arrived
    apps,      \* Processor.apps: the App object of each key, or None
    harvests,  \* Processor.harvests: the ids of the live runs
    \* the heap
    app,       \* each App object
    owner,     \* AppHarvest.App of each run; None before the run exists
    trigger,   \* the harvest trigger of each run's AppHarvest
    \* goroutines that will report to the processor
    attempts,  \* connect attempts in flight for each key
    payloads,  \* payloads in flight for each run
    \* history
    crossed    \* an attempt was started while another for its key was in flight,
               \* or for an App that its key no longer stands for

connecting == <<attempts, crossed>>
vars == <<util, apps, harvests, app, owner, trigger, attempts, payloads, crossed>>

AppStates == {"Unknown", "Connected", "Disconnected", "Restart", "InvalidLicense"}

(* What of an App the processor's decisions depend on.  raw stands for     *)
(* RawConnectReply: the run id in it, or None for the body of a failure.   *)
AppRecord == [key : Keys \cup {None}, state : AppStates, raw : Runs \cup {None},
              backoff : BOOLEAN, inactive : BOOLEAN]

(* The kinds of reply to a connect attempt that the code tells apart.      *)
ConnectReplies == {"ok", "disconnect", "license", "restart", "error"}

(* The kinds of failure of a payload: 410; 401 and 409; everything else.   *)
HarvestReplies == {"disconnect", "restart", "other"}

Registered == {k \in Keys : apps[k] # None}

TypeOK ==
    /\ util \in BOOLEAN
    /\ apps \in [Keys -> Apps \cup {None}]
    /\ harvests \in SUBSET Runs
    /\ app \in [Apps -> AppRecord]
    /\ owner \in [Runs -> Apps \cup {None}]
    /\ trigger \in [Runs -> {"none", "open", "closing", "closed"}]
    /\ attempts \in [Keys -> 0..MaxAttempts]
    /\ payloads \in [Runs -> 0..MaxPayloads]
    /\ crossed \in BOOLEAN

(* NewApp: the zero lastConnectAttempt means no backoff is running.        *)
NewApp(k) ==
    [key |-> k, state |-> "Unknown", raw |-> None, backoff |-> FALSE, inactive |-> FALSE]

Init ==
    /\ util = FALSE
    /\ apps = [k \in Keys |-> None]
    /\ harvests = {}
    /\ app = [a \in Apps |-> NewApp(None)]
    /\ owner = [r \in Runs |-> None]
    /\ trigger = [r \in Runs |-> "none"]
    /\ attempts = [k \in Keys |-> 0]
    /\ payloads = [r \in Runs |-> 0]
    /\ crossed = FALSE

-----------------------------------------------------------------------------
(* Mutant: NeedsConnectAttempt looks at the time and not at the state.     *)
ShouldConnectAnyState(rec) == util /\ ~rec.backoff

(* shouldConnect of an application whose record is rec.                    *)
ShouldConnect(rec) == util /\ rec.state = "Unknown" /\ ~rec.backoff

(* considerConnect(a), after the handler has brought a's record to rec:    *)
(* start the goroutine of a connect attempt, and its backoff, if due.      *)
ConsiderConnect(a, rec) ==
    \/ /\ ShouldConnect(rec)
       /\ attempts[rec.key] < MaxAttempts
       /\ app' = [app EXCEPT ![a] = [rec EXCEPT !.backoff = TRUE]]
       /\ attempts' = [attempts EXCEPT ![rec.key] = @ + 1]
       /\ crossed' = (crossed \/ attempts[rec.key] > 0 \/ apps[rec.key] \notin {a, None})
    \/ /\ ~ShouldConnect(rec)
       /\ app' = [app EXCEPT ![a] = rec]
       /\ UNCHANGED connecting

(* Mutant: Close is started but the run stays in the map.                  *)
ShutdownAppHarvestKept(r) ==
    IF r \in harvests
    THEN /\ harvests' = harvests
         /\ trigger' = [trigger EXCEPT ![r] = "closing"]
    ELSE UNCHANGED <<harvests, trigger>>

(* shutdownAppHarvest: the run leaves the map and a goroutine runs Close.  *)
ShutdownAppHarvest(r) ==
    IF r \in harvests
    THEN /\ harvests' = harvests \ {r}
         /\ trigger' = [trigger EXCEPT ![r] = "closing"]
    ELSE UNCHANGED <<harvests, trigger>>

-----------------------------------------------------------------------------
(* What processAppInfo replies for key k and the agent's run id r.         *)
AppInfoReply(k, r) ==
    IF r \in harvests
    THEN [valid |-> TRUE, state |-> "Unknown", run |-> None]
    ELSE IF apps[k] = None
         THEN [valid |-> FALSE, state |-> "Unknown", run |-> None]
         ELSE LET rec == app[apps[k]] IN
              [valid |-> FALSE, state |-> rec.state,
               run |-> IF rec.state = "Connected" THEN rec.raw ELSE None]

(* Mutant: the application limit is off by one.                            *)
BelowAppLimitOffByOne == Cardinality(Registered) <= AppLimit

BelowAppLimit == Cardinality(Registered) < AppLimit

(* Mutant: only a new application is considered for connecting.            *)
ProcessAppInfoNewOnly(k) ==
    /\ \/ \E a \in Apps :
            /\ apps[k] = a
            /\ app' = [app EXCEPT ![a].inactive = FALSE]
            /\ UNCHANGED <<apps, connecting>>
       \/ /\ apps[k] = None
          /\ BelowAppLimit
          /\ \E a \in Apps :
               /\ app[a].key = None
               /\ apps' = [apps EXCEPT ![k] = a]
               /\ ConsiderConnect(a, NewApp(k))
    /\ UNCHANGED <<util, harvests, owner, trigger, payloads>>

(* processAppInfo when the run id is not that of a live run: the key's     *)
(* application is found, which counts as activity, or created.  A run id   *)
(* that is live changes nothing, and neither does the limit on apps.       *)
ProcessAppInfo(k) ==
    /\ \/ \E a \in Apps :
            /\ apps[k] = a
            /\ ConsiderConnect(a, [app[a] EXCEPT !.inactive = FALSE])
            /\ UNCHANGED apps
       \/ /\ apps[k] = None
          /\ BelowAppLimit
          /\ \E a \in Apps :
               /\ app[a].key = None
               /\ apps' = [apps EXCEPT ![k] = a]
               /\ ConsiderConnect(a, NewApp(k))
    /\ UNCHANGED <<util, harvests, owner, trigger, payloads>>

(* processTxnData: data for a live run is activity; the rest is dropped.   *)
ProcessTxnData(r) ==
    /\ r \in harvests
    /\ app' = [app EXCEPT ![owner[r]].inactive = FALSE]
    /\ UNCHANGED <<util, apps, harvests, owner, trigger, connecting, payloads>>

(* processConnectAttempt with a refusal or an error.                       *)
ConnectFailed(k, reply) ==
    LET failure == [disconnect |-> "Disconnected", license |-> "InvalidLicense",
                    restart |-> "Restart", error |-> "Unknown"]
    IN  /\ app' = [app EXCEPT ![apps[k]].state = failure[reply], ![apps[k]].raw = None]
        /\ UNCHANGED <<harvests, owner, trigger>>

(* processConnectAttempt with a connect reply that carries a new run id.   *)
ConnectSucceeded(k) ==
    \E r \in Runs :
        /\ trigger[r] = "none"
        /\ app' = [app EXCEPT ![apps[k]].state = "Connected", ![apps[k]].raw = r]
        /\ harvests' = harvests \cup {r}
        /\ owner' = [owner EXCEPT ![r] = apps[k]]
        /\ trigger' = [trigger EXCEPT ![r] = "open"]

(* processConnectAttempt: the application is looked up by key now, not     *)
(* when the attempt began.                                                 *)
ProcessConnectAttempt(k, reply) ==
    /\ attempts[k] > 0
    /\ attempts' = [attempts EXCEPT ![k] = @ - 1]
    /\ \/ /\ apps[k] = None
          /\ UNCHANGED <<app, harvests, owner, trigger>>
       \/ /\ apps[k] # None
          /\ reply # "ok"
          /\ ConnectFailed(k, reply)
       \/ /\ apps[k] # None
          /\ reply = "ok"
          /\ ConnectSucceeded(k)
    /\ UNCHANGED <<util, apps, payloads, crossed>>

(* doHarvest: an event of the trigger of run r, which may have been shut   *)
(* down since (its Close has not finished yet).                            *)
DoHarvest(r) ==
    LET a == owner[r] IN
    /\ trigger[r] \in {"open", "closing"}
    /\ \/ /\ AppTimeout /\ app[a].inactive
          /\ ShutdownAppHarvest(r)
          /\ apps' = [apps EXCEPT ![app[a].key] = None]
          /\ UNCHANGED payloads
       \/ /\ ~(AppTimeout /\ app[a].inactive)
          /\ \E n \in 0..MaxPayloads :
               /\ payloads[r] < n
               /\ payloads' = [payloads EXCEPT ![r] = n]
          /\ UNCHANGED <<apps, harvests, trigger>>
    /\ UNCHANGED <<util, app, owner, connecting>>

(* Mutant: a restart gives up the run but not the application's state.     *)
HarvestErrorStateKept(r, reply) ==
    LET a == owner[r] IN
    \/ /\ reply = "disconnect" \/ app[a].state = "Disconnected"
       /\ app' = [app EXCEPT ![a].state = "Disconnected"]
       /\ ShutdownAppHarvest(r)
       /\ UNCHANGED connecting
    \/ /\ reply = "restart" /\ app[a].state # "Disconnected"
       /\ ShutdownAppHarvest(r)
       /\ UNCHANGED <<app, connecting>>

(* processHarvestError for a run that is live.                             *)
HarvestErrorLive(r, reply) ==
    LET a == owner[r] IN
    \/ /\ reply = "disconnect" \/ app[a].state = "Disconnected"
       /\ app' = [app EXCEPT ![a].state = "Disconnected"]
       /\ ShutdownAppHarvest(r)
       /\ UNCHANGED connecting
    \/ /\ ~(reply = "disconnect" \/ app[a].state = "Disconnected")
       /\ reply = "restart" \/ app[a].state = "Restart"
       /\ ShutdownAppHarvest(r)
       /\ ConsiderConnect(a, [app[a] EXCEPT !.state = "Unknown"])
    \/ /\ reply = "other" /\ app[a].state \notin {"Disconnected", "Restart"}
       /\ UNCHANGED <<app, harvests, trigger, connecting>>

(* processHarvestError: an error of a run that is no longer live is        *)
(* ignored.                                                                *)
ProcessHarvestError(r, reply) ==
    /\ payloads[r] > 0
    /\ payloads' = [payloads EXCEPT ![r] = @ - 1]
    /\ \/ r \in harvests /\ HarvestErrorLive(r, reply)
       \/ r \notin harvests /\ UNCHANGED <<app, harvests, trigger, connecting>>
    /\ UNCHANGED <<util, apps, owner>>

-----------------------------------------------------------------------------
(* The environment.                                                        *)

(* utilization.Gather returns.                                             *)
UtilizationGathered ==
    /\ ~util
    /\ util' = TRUE
    /\ UNCHANGED <<apps, harvests, app, owner, trigger, connecting, payloads>>

(* harvestPayload succeeds.                                                *)
PayloadSent(r) ==
    /\ payloads[r] > 0
    /\ payloads' = [payloads EXCEPT ![r] = @ - 1]
    /\ UNCHANGED <<util, apps, harvests, app, owner, trigger, connecting>>

(* AppHarvest.Close has returned and the forwarder has gone: no more       *)
(* events of this trigger (HarvestTrigger!CloseCompletes).                 *)
CloseDone(r) ==
    /\ trigger[r] = "closing"
    /\ trigger' = [trigger EXCEPT ![r] = "closed"]
    /\ UNCHANGED <<util, apps, harvests, app, owner, connecting, payloads>>

(* appConnectBackoff has passed since the last attempt.                    *)
BackoffElapses(a) ==
    /\ app[a].backoff
    /\ app' = [app EXCEPT ![a].backoff = FALSE]
    /\ UNCHANGED <<util, apps, harvests, owner, trigger, connecting, payloads>>

(* AppTimeout has passed since the last activity.                          *)
AppIdles(a) ==
    /\ app[a].key # None
    /\ ~app[a].inactive
    /\ app' = [app EXCEPT ![a].inactive = TRUE]
    /\ UNCHANGED <<util, apps, harvests, owner, trigger, connecting, payloads>>

Next ==
    \/ \E k \in Keys : ProcessAppInfo(k)
    \/ \E r \in Runs : ProcessTxnData(r)
    \/ \E k \in Keys, reply \in ConnectReplies : ProcessConnectAttempt(k, reply)
    \/ \E r \in Runs : DoHarvest(r)
    \/ \E r \in Runs, reply \in HarvestReplies : ProcessHarvestError(r, reply)
    \/ UtilizationGathered
    \/ \E r \in Runs : PayloadSent(r) \/ CloseDone(r)
    \/ \E a \in Apps : BackoffElapses(a) \/ AppIdles(a)

(* The collector answers every attempt or the HTTP client times out, the   *)
(* utilization data arrives, timers run out, and agents keep asking about  *)
(* their application (nr_agent_should_do_app_daemon_query).  Nothing makes *)
(* an agent send data or an application fall idle.                         *)
Fairness ==
    /\ WF_vars(UtilizationGathered)
    /\ \A k \in Keys : /\ WF_vars(ProcessAppInfo(k))
                       /\ WF_vars(\E reply \in ConnectReplies : ProcessConnectAttempt(k, reply))
    /\ \A a \in Apps : WF_vars(BackoffElapses(a))
    /\ \A r \in Runs : WF_vars(CloseDone(r))

Spec == Init /\ [][Next]_vars
FairSpec == Spec /\ Fairness

-----------------------------------------------------------------------------
(* Properties that hold however slow the network is.                       *)

(* An agent that is told "connected" is given the id of a run the          *)
(* processor still has: otherwise everything the agent then sends would be *)
(* dropped by processTxnData without anyone noticing.                      *)
ReplyNamesLiveRun ==
    \A k \in Keys, r \in Runs \cup {None} :
        AppInfoReply(k, r).state = "Connected" => AppInfoReply(k, r).run \in harvests

(* A run is in the map exactly while its tickers run: Close is started     *)
(* once for every run that leaves the map (a second Close would never      *)
(* return), and no run in the map has lost its trigger.                    *)
LiveRunsHaveTriggers == \A r \in Runs : r \in harvests <=> trigger[r] = "open"

(* The registered applications never exceed limits.AppLimit.               *)
WithinAppLimit == Cardinality(Registered) <= AppLimit

(* An application that is not connected and that agents keep asking about  *)
(* is tried: NeedsConnectAttempt, the backoff and the missing utilization  *)
(* data delay an attempt and never prevent it.                             *)
UnknownIsTried ==
    \A k \in Keys :
        (apps[k] # None /\ app[apps[k]].state = "Unknown")
            ~> (attempts[k] > 0 \/ apps[k] = None \/ app[apps[k]].state # "Unknown")

-----------------------------------------------------------------------------
(* What the code's comments state.  The first three hold until a connect   *)
(* attempt is started while another one for the same key is in flight or   *)
(* for an App that has been replaced under its key: a reply that takes     *)
(* longer than appConnectBackoff, or a removal while attempts or runs are  *)
(* about, leads there, and the reply that comes last then overrides what   *)
(* an earlier one led to.                                                  *)

(* An application has one run at a time, the one whose id its agents are   *)
(* given (AppHarvest, App.RawConnectReply): a run that nobody is told of   *)
(* would go on harvesting nothing.  "This map contains only connected      *)
(* applications." (Processor.harvests)                                     *)
OneRunPerApp ==
    ~crossed => \A r \in harvests : app[owner[r]].raw = r /\ app[owner[r]].state = "Connected"

(* Applications are "permanently disconnected" (Processor.apps).           *)
DisconnectIsPermanent ==
    [][\A a \in Apps : (~crossed /\ app[a].state = "Disconnected")
                            => app'[a].state = "Disconnected"]_vars
=============================================================================
