--------------------------- MODULE ProcessorProofs ---------------------------
(* For every set of keys, applications and runs, and however late attempts,*)
(* errors and events arrive: an agent that is told "connected" is given a  *)
(* live run, a run is in the map exactly while its tickers run, and the    *)
(* application limit holds.                                                *)
EXTENDS Processor, FiniteSetTheorems, TLAPS

(* An application is registered under its own key.                         *)
RegisteredUnderKey == \A k \in Keys : apps[k] # None => app[apps[k]].key = k

(* A run that exists belongs to an application that was once registered.   *)
RunsAreOwned ==
    \A r \in Runs : trigger[r] # "none" => owner[r] \in Apps /\ app[owner[r]].key \in Keys

(* A registered application that is connected holds the reply of a live    *)
(* run of its own, so shutting down another application's run cannot       *)
(* invalidate it.                                                          *)
ConnectedRunIsLive ==
    \A k \in Keys : (apps[k] # None /\ app[apps[k]].state = "Connected")
        => app[apps[k]].raw \in harvests /\ owner[app[apps[k]].raw] = apps[k]

IInv ==
    /\ TypeOK
    /\ LiveRunsHaveTriggers
    /\ RegisteredUnderKey
    /\ RunsAreOwned
    /\ ConnectedRunIsLive

(* No application is registered and no run exists when the processor       *)
(* starts.                                                                 *)
LEMMA InitIInv == Init => IInv
<1> SUFFICES ASSUME Init PROVE IInv
  OBVIOUS
<1>1. NewApp(None) \in AppRecord
  BY DEF NewApp, AppRecord, AppStates
<1>2. TypeOK
  <2>1. 0 \in 0..MaxAttempts /\ 0 \in 0..MaxPayloads
    BY BoundAssumption
  <2>2. app \in [Apps -> AppRecord]
    BY <1>1 DEF Init
  <2> QED
    BY <2>1, <2>2 DEF Init, TypeOK
<1> QED
  BY <1>2 DEF Init, IInv, LiveRunsHaveTriggers, RegisteredUnderKey, RunsAreOwned,
     ConnectedRunIsLive

(* considerConnect touches only the application it is given and the        *)
(* attempts for its key, and starts the backoff of what it was given.      *)
LEMMA ConsiderConnectEffect ==
    ASSUME IInv, NEW a \in Apps, NEW rec \in AppRecord, rec.key \in Keys, ConsiderConnect(a, rec)
    PROVE  /\ attempts' \in [Keys -> 0..MaxAttempts] /\ crossed' \in BOOLEAN
           /\ \E b \in BOOLEAN : app' = [app EXCEPT ![a] = [rec EXCEPT !.backoff = b]]
<1>1. CASE ShouldConnect(rec)
  <2>1. app' = [app EXCEPT ![a] = [rec EXCEPT !.backoff = TRUE]]
    BY <1>1 DEF ConsiderConnect
  <2>2. attempts' \in [Keys -> 0..MaxAttempts] /\ crossed' \in BOOLEAN
    BY <1>1, BoundAssumption DEF ConsiderConnect, IInv, TypeOK
  <2> QED
    BY <2>1, <2>2
<1>2. CASE ~ShouldConnect(rec)
  <2>1. app' = [app EXCEPT ![a] = rec] /\ attempts' = attempts /\ crossed' = crossed
    BY <1>2 DEF ConsiderConnect, connecting
  <2>2. rec = [rec EXCEPT !.backoff = rec.backoff] /\ rec.backoff \in BOOLEAN
    BY DEF AppRecord
  <2> QED
    BY <2>1, <2>2 DEF IInv, TypeOK
<1> QED
  BY <1>1, <1>2

LEMMA AppInfoIInv ==
    ASSUME IInv, NEW k \in Keys, ProcessAppInfo(k)
    PROVE  IInv'
<1> USE NoneAssumption
<1>0. UNCHANGED <<util, harvests, owner, trigger, payloads>>
  BY DEF ProcessAppInfo
<1>1. ASSUME NEW a \in Apps, apps[k] = a, UNCHANGED apps,
             ConsiderConnect(a, [app[a] EXCEPT !.inactive = FALSE])
      PROVE  IInv'
  <2> DEFINE rec == [app[a] EXCEPT !.inactive = FALSE]
  <2>1. rec \in AppRecord /\ rec.key \in Keys /\ ConsiderConnect(a, rec)
    <3>1. app[a] \in AppRecord /\ app[a].key = k
      BY <1>1 DEF IInv, TypeOK, RegisteredUnderKey
    <3>2. rec \in AppRecord /\ rec.key = k
      BY <3>1 DEF AppRecord
    <3>3. ConsiderConnect(a, rec)
      BY <1>1
    <3> QED
      BY <3>2, <3>3
  <2> HIDE DEF rec
  <2>2. PICK b \in BOOLEAN : app' = [app EXCEPT ![a] = [rec EXCEPT !.backoff = b]]
    BY <2>1, ConsiderConnectEffect
  <2>3. attempts' \in [Keys -> 0..MaxAttempts] /\ crossed' \in BOOLEAN
    BY <2>1, ConsiderConnectEffect
  <2>4. /\ app' \in [Apps -> AppRecord]
        /\ \A x \in Apps : app'[x].key = app[x].key /\ app'[x].state = app[x].state
                           /\ app'[x].raw = app[x].raw
    BY <2>1, <2>2 DEF IInv, TypeOK, AppRecord, rec
  <2> QED
    BY <1>0, <1>1, <2>3, <2>4 DEF IInv, TypeOK, LiveRunsHaveTriggers, RegisteredUnderKey,
       RunsAreOwned, ConnectedRunIsLive
<1>2. ASSUME apps[k] = None, NEW a \in Apps, app[a].key = None,
             apps' = [apps EXCEPT ![k] = a], ConsiderConnect(a, NewApp(k))
      PROVE  IInv'
  <2>1. NewApp(k) \in AppRecord /\ NewApp(k).key = k /\ NewApp(k).state = "Unknown"
    BY DEF NewApp, AppRecord, AppStates
  <2>2. PICK b \in BOOLEAN : app' = [app EXCEPT ![a] = [NewApp(k) EXCEPT !.backoff = b]]
    BY <1>2, <2>1, ConsiderConnectEffect
  <2>3. attempts' \in [Keys -> 0..MaxAttempts] /\ crossed' \in BOOLEAN
    BY <1>2, <2>1, ConsiderConnectEffect
  <2>4. /\ app' \in [Apps -> AppRecord]
        /\ \A x \in Apps \ {a} : app'[x] = app[x]
        /\ app'[a].key = k /\ app'[a].state = "Unknown"
    BY <2>1, <2>2 DEF IInv, TypeOK, AppRecord
  <2>5. \A j \in Keys : apps[j] # a
    BY <1>2 DEF IInv, RegisteredUnderKey
  <2>6. TypeOK' /\ LiveRunsHaveTriggers'
    BY <1>0, <1>2, <2>3, <2>4 DEF IInv, TypeOK, LiveRunsHaveTriggers
  <2>7. RegisteredUnderKey'
    BY <1>2, <2>4, <2>5 DEF IInv, TypeOK, RegisteredUnderKey
  <2>8. RunsAreOwned'
    BY <1>0, <1>2, <2>4 DEF IInv, TypeOK, RunsAreOwned
  <2>9. ConnectedRunIsLive'
    BY <1>0, <1>2, <2>4, <2>5 DEF IInv, TypeOK, ConnectedRunIsLive
  <2> QED
    BY <2>6, <2>7, <2>8, <2>9 DEF IInv
<1> QED
  BY <1>1, <1>2 DEF ProcessAppInfo

LEMMA ConnectAttemptIInv ==
    ASSUME IInv, NEW k \in Keys, NEW reply \in ConnectReplies, ProcessConnectAttempt(k, reply)
    PROVE  IInv'
<1> USE NoneAssumption, BoundAssumption
<1>1. UNCHANGED <<util, apps, payloads, crossed>> /\ attempts' \in [Keys -> 0..MaxAttempts]
  BY DEF ProcessConnectAttempt, IInv, TypeOK
<1>2. CASE apps[k] = None
  <2>1. UNCHANGED <<app, harvests, owner, trigger>>
    BY <1>2 DEF ProcessConnectAttempt
  <2> QED
    BY <1>1, <2>1 DEF IInv, TypeOK, LiveRunsHaveTriggers, RegisteredUnderKey,
       RunsAreOwned, ConnectedRunIsLive
<1>3. CASE apps[k] # None /\ reply # "ok"
  <2> DEFINE a == apps[k]
  <2>1. ConnectFailed(k, reply)
    BY <1>3 DEF ProcessConnectAttempt
  <2> DEFINE failure == [disconnect |-> "Disconnected", license |-> "InvalidLicense",
                         restart |-> "Restart", error |-> "Unknown"]
  <2>a. failure[reply] \in AppStates \ {"Connected"}
    BY <1>3 DEF ConnectReplies, AppStates
  <2>b. app' = [app EXCEPT ![a].state = failure[reply], ![a].raw = None]
    BY <2>1 DEF ConnectFailed
  <2>2. /\ UNCHANGED <<harvests, owner, trigger>>
        /\ \E s \in AppStates \ {"Connected"} :
              app' = [app EXCEPT ![a].state = s, ![a].raw = None]
    BY <2>1, <2>a, <2>b DEF ConnectFailed
  <2>3. PICK s \in AppStates \ {"Connected"} :
            app' = [app EXCEPT ![a].state = s, ![a].raw = None]
    BY <2>2
  <2>4. /\ a \in Apps
        /\ app' \in [Apps -> AppRecord]
        /\ \A x \in Apps \ {a} : app'[x] = app[x]
        /\ app'[a].key = app[a].key /\ app'[a].state # "Connected"
    BY <1>3, <2>3 DEF IInv, TypeOK, AppRecord
  <2> QED
    BY <1>1, <2>2, <2>4 DEF IInv, TypeOK, LiveRunsHaveTriggers, RegisteredUnderKey,
       RunsAreOwned, ConnectedRunIsLive
<1>4. CASE apps[k] # None /\ reply = "ok"
  <2> DEFINE a == apps[k]
  <2>1. ConnectSucceeded(k)
    BY <1>4 DEF ProcessConnectAttempt
  <2>2. PICK r \in Runs :
            /\ trigger[r] = "none"
            /\ app' = [app EXCEPT ![a].state = "Connected", ![a].raw = r]
            /\ harvests' = harvests \cup {r}
            /\ owner' = [owner EXCEPT ![r] = a]
            /\ trigger' = [trigger EXCEPT ![r] = "open"]
    BY <2>1 DEF ConnectSucceeded
  <2>3. /\ a \in Apps
        /\ app' \in [Apps -> AppRecord]
        /\ \A x \in Apps \ {a} : app'[x] = app[x]
        /\ app'[a].key = k /\ app'[a].raw = r
    BY <1>4, <2>2 DEF IInv, TypeOK, AppRecord, AppStates, RegisteredUnderKey
  <2>4. r \notin harvests
    BY <2>2 DEF IInv, LiveRunsHaveTriggers
  <2>5. TypeOK'
    BY <1>1, <2>2, <2>3 DEF IInv, TypeOK
  <2>6. LiveRunsHaveTriggers'
    BY <2>2, <2>4 DEF IInv, TypeOK, LiveRunsHaveTriggers
  <2>7. RegisteredUnderKey' /\ RunsAreOwned'
    BY <1>1, <2>2, <2>3 DEF IInv, TypeOK, RegisteredUnderKey, RunsAreOwned
  <2>8. ConnectedRunIsLive'
    BY <1>1, <2>2, <2>3, <2>4 DEF IInv, TypeOK, ConnectedRunIsLive, RegisteredUnderKey
  <2> QED
    BY <2>5, <2>6, <2>7, <2>8 DEF IInv
<1> QED
  BY <1>2, <1>3, <1>4

LEMMA DoHarvestIInv ==
    ASSUME IInv, NEW r \in Runs, DoHarvest(r)
    PROVE  IInv'
<1> USE NoneAssumption, BoundAssumption
<1> DEFINE a == owner[r]
<1>1. UNCHANGED <<util, app, owner, attempts, crossed>> /\ trigger[r] \in {"open", "closing"}
  BY DEF DoHarvest, connecting
<1>2. a \in Apps /\ app[a].key \in Keys
  BY <1>1 DEF IInv, RunsAreOwned
<1>3. CASE AppTimeout /\ app[a].inactive
  <2>1. /\ ShutdownAppHarvest(r)
        /\ apps' = [apps EXCEPT ![app[a].key] = None]
        /\ UNCHANGED payloads
    BY <1>3 DEF DoHarvest
  <2>2. TypeOK'
    BY <1>1, <1>2, <2>1 DEF IInv, TypeOK, ShutdownAppHarvest
  <2>3. LiveRunsHaveTriggers' /\ RegisteredUnderKey' /\ RunsAreOwned'
    BY <1>1, <1>2, <2>1 DEF IInv, TypeOK, LiveRunsHaveTriggers, RegisteredUnderKey,
       RunsAreOwned, ShutdownAppHarvest
  <2>4. harvests \ {r} \subseteq harvests'
    BY <2>1 DEF ShutdownAppHarvest
  <2>5. ConnectedRunIsLive'
    BY <1>1, <1>2, <2>1, <2>4 DEF IInv, TypeOK, ConnectedRunIsLive, RegisteredUnderKey
  <2> QED
    BY <2>2, <2>3, <2>5 DEF IInv
<1>4. CASE ~(AppTimeout /\ app[a].inactive)
  <2>1. UNCHANGED <<apps, harvests, trigger>> /\ payloads' \in [Runs -> 0..MaxPayloads]
    BY <1>4 DEF DoHarvest, IInv, TypeOK
  <2> QED
    BY <1>1, <2>1 DEF IInv, TypeOK, LiveRunsHaveTriggers, RegisteredUnderKey,
       RunsAreOwned, ConnectedRunIsLive
<1> QED
  BY <1>3, <1>4

LEMMA HarvestErrorIInv ==
    ASSUME IInv, NEW r \in Runs, NEW reply \in HarvestReplies, ProcessHarvestError(r, reply)
    PROVE  IInv'
<1> USE NoneAssumption, BoundAssumption
<1> DEFINE a == owner[r]
<1>1. UNCHANGED <<util, apps, owner>> /\ payloads' \in [Runs -> 0..MaxPayloads]
  BY DEF ProcessHarvestError, IInv, TypeOK
<1>2. CASE UNCHANGED <<app, harvests, trigger, attempts, crossed>>
  BY <1>1, <1>2 DEF IInv, TypeOK, LiveRunsHaveTriggers, RegisteredUnderKey,
     RunsAreOwned, ConnectedRunIsLive
<1>3. ASSUME r \in harvests, ShutdownAppHarvest(r),
             attempts' \in [Keys -> 0..MaxAttempts], crossed' \in BOOLEAN,
             NEW s \in {"Disconnected", "Unknown"}, NEW b \in BOOLEAN,
             app' = [app EXCEPT ![a] = [app[a] EXCEPT !.state = s, !.backoff = b]]
      PROVE  IInv'
  <2>1. trigger[r] = "open" /\ a \in Apps /\ app[a].key \in Keys
    BY <1>3 DEF IInv, LiveRunsHaveTriggers, RunsAreOwned
  <2>2. /\ app' \in [Apps -> AppRecord]
        /\ \A x \in Apps \ {a} : app'[x] = app[x]
        /\ app'[a].key = app[a].key /\ app'[a].state # "Connected"
    <3> DEFINE rec == [app[a] EXCEPT !.state = s, !.backoff = b]
    <3>1. app[a] \in AppRecord
      BY <2>1 DEF IInv, TypeOK
    <3>2. rec \in AppRecord /\ rec.key = app[a].key /\ rec.state # "Connected"
      BY <3>1 DEF AppRecord, AppStates
    <3>3. app' = [app EXCEPT ![a] = rec]
      BY <1>3
    <3> HIDE DEF rec
    <3> QED
      BY <2>1, <3>2, <3>3 DEF IInv, TypeOK
  <2>3. harvests' = harvests \ {r} /\ trigger' = [trigger EXCEPT ![r] = "closing"]
    BY <1>3 DEF ShutdownAppHarvest
  <2>4. TypeOK' /\ LiveRunsHaveTriggers'
    BY <1>1, <1>3, <2>2, <2>3 DEF IInv, TypeOK, LiveRunsHaveTriggers
  <2>5. RegisteredUnderKey' /\ RunsAreOwned'
    BY <1>1, <2>1, <2>2, <2>3 DEF IInv, TypeOK, RegisteredUnderKey, RunsAreOwned
  <2>6. ConnectedRunIsLive'
    BY <1>1, <2>1, <2>2, <2>3 DEF IInv, TypeOK, ConnectedRunIsLive
  <2> QED
    BY <2>4, <2>5, <2>6 DEF IInv
<1>4. CASE r \in harvests /\ HarvestErrorLive(r, reply)
  <2>1. a \in Apps /\ app[a] \in AppRecord /\ app[a].key \in Keys
    BY <1>4 DEF IInv, TypeOK, LiveRunsHaveTriggers, RunsAreOwned
  <2>2. CASE /\ app' = [app EXCEPT ![a].state = "Disconnected"]
             /\ ShutdownAppHarvest(r)
             /\ UNCHANGED connecting
    <3>1. app[a].backoff \in BOOLEAN
      BY <2>1 DEF AppRecord
    <3>2. app' = [app EXCEPT ![a] = [app[a] EXCEPT !.state = "Disconnected",
                                                   !.backoff = app[a].backoff]]
      BY <2>1, <2>2 DEF IInv, TypeOK, AppRecord
    <3>3. attempts' \in [Keys -> 0..MaxAttempts] /\ crossed' \in BOOLEAN
      BY <2>2 DEF IInv, TypeOK, connecting
    <3> QED
      BY <1>3, <1>4, <2>2, <3>1, <3>2, <3>3
  <2>3. CASE /\ ShutdownAppHarvest(r)
             /\ ConsiderConnect(a, [app[a] EXCEPT !.state = "Unknown"])
    <3> DEFINE rec == [app[a] EXCEPT !.state = "Unknown"]
    <3>1. rec \in AppRecord /\ rec.key \in Keys /\ ConsiderConnect(a, rec)
      BY <2>1, <2>3 DEF AppRecord, AppStates
    <3> HIDE DEF rec
    <3>2. PICK b \in BOOLEAN : app' = [app EXCEPT ![a] = [rec EXCEPT !.backoff = b]]
      BY <2>1, <3>1, ConsiderConnectEffect
    <3>3. attempts' \in [Keys -> 0..MaxAttempts] /\ crossed' \in BOOLEAN
      BY <2>1, <3>1, ConsiderConnectEffect
    <3>4. app' = [app EXCEPT ![a] = [app[a] EXCEPT !.state = "Unknown", !.backoff = b]]
      BY <2>1, <3>2 DEF rec, AppRecord
    <3> QED
      BY <1>3, <1>4, <2>3, <3>3, <3>4
  <2> QED
    BY <1>2, <1>4, <2>2, <2>3 DEF HarvestErrorLive, connecting
<1> QED
  BY <1>2, <1>4 DEF ProcessHarvestError, connecting

LEMMA NextIInv == IInv /\ [Next]_vars => IInv'
<1> SUFFICES ASSUME IInv, [Next]_vars PROVE IInv'
  OBVIOUS
<1> USE NoneAssumption, BoundAssumption
<1>1. ASSUME NEW k \in Keys, ProcessAppInfo(k) PROVE IInv'
  BY <1>1, AppInfoIInv
<1>2. ASSUME NEW a \in Apps,
             app' \in [Apps -> AppRecord],
             \A x \in Apps : /\ app'[x].key = app[x].key
                             /\ app'[x].state = app[x].state
                             /\ app'[x].raw = app[x].raw,
             UNCHANGED <<util, apps, harvests, owner, trigger, connecting, payloads>>
      PROVE  IInv'
  BY <1>2 DEF IInv, TypeOK, LiveRunsHaveTriggers, RegisteredUnderKey, RunsAreOwned,
     ConnectedRunIsLive, connecting
<1>3. ASSUME NEW r \in Runs, ProcessTxnData(r) PROVE IInv'
  <2>1. PICK a \in Apps : app' = [app EXCEPT ![a].inactive = FALSE]
    BY <1>3 DEF ProcessTxnData, IInv, LiveRunsHaveTriggers, RunsAreOwned
  <2>2. /\ app' \in [Apps -> AppRecord]
        /\ \A x \in Apps : /\ app'[x].key = app[x].key
                           /\ app'[x].state = app[x].state
                           /\ app'[x].raw = app[x].raw
    <3> DEFINE rec == [app[a] EXCEPT !.inactive = FALSE]
    <3>1. app[a] \in AppRecord /\ app' = [app EXCEPT ![a] = rec]
      BY <2>1 DEF IInv, TypeOK
    <3>2. /\ rec \in AppRecord /\ rec.key = app[a].key
          /\ rec.state = app[a].state /\ rec.raw = app[a].raw
      BY <3>1 DEF AppRecord
    <3> HIDE DEF rec
    <3> QED
      BY <3>1, <3>2 DEF IInv, TypeOK
  <2>3. UNCHANGED <<util, apps, harvests, owner, trigger, connecting, payloads>>
    BY <1>3 DEF ProcessTxnData
  <2> QED
    BY <1>2, <2>1, <2>2, <2>3
<1>4. ASSUME NEW k \in Keys, NEW reply \in ConnectReplies, ProcessConnectAttempt(k, reply)
      PROVE  IInv'
  BY <1>4, ConnectAttemptIInv
<1>5. ASSUME NEW r \in Runs, DoHarvest(r) PROVE IInv'
  BY <1>5, DoHarvestIInv
<1>6. ASSUME NEW r \in Runs, NEW reply \in HarvestReplies, ProcessHarvestError(r, reply)
      PROVE  IInv'
  BY <1>6, HarvestErrorIInv
<1>7. CASE UtilizationGathered
  BY <1>7 DEF UtilizationGathered, connecting, IInv, TypeOK, LiveRunsHaveTriggers, RegisteredUnderKey,
     RunsAreOwned, ConnectedRunIsLive
<1>8. ASSUME NEW r \in Runs, PayloadSent(r) PROVE IInv'
  BY <1>8 DEF PayloadSent, connecting, IInv, TypeOK, LiveRunsHaveTriggers, RegisteredUnderKey,
     RunsAreOwned, ConnectedRunIsLive
<1>9. ASSUME NEW r \in Runs, CloseDone(r) PROVE IInv'
  BY <1>9 DEF CloseDone, connecting, IInv, TypeOK, LiveRunsHaveTriggers, RegisteredUnderKey,
     RunsAreOwned, ConnectedRunIsLive
<1>10. ASSUME NEW a \in Apps, BackoffElapses(a) PROVE IInv'
  <2>1. /\ app' \in [Apps -> AppRecord]
        /\ \A x \in Apps : /\ app'[x].key = app[x].key
                           /\ app'[x].state = app[x].state
                           /\ app'[x].raw = app[x].raw
    BY <1>10 DEF BackoffElapses, IInv, TypeOK, AppRecord
  <2>2. UNCHANGED <<util, apps, harvests, owner, trigger, connecting, payloads>>
    BY <1>10 DEF BackoffElapses
  <2> QED
    BY <1>2, <2>1, <2>2
<1>11. ASSUME NEW a \in Apps, AppIdles(a) PROVE IInv'
  <2>1. /\ app' \in [Apps -> AppRecord]
        /\ \A x \in Apps : /\ app'[x].key = app[x].key
                           /\ app'[x].state = app[x].state
                           /\ app'[x].raw = app[x].raw
    BY <1>11 DEF AppIdles, IInv, TypeOK, AppRecord
  <2>2. UNCHANGED <<util, apps, harvests, owner, trigger, connecting, payloads>>
    BY <1>11 DEF AppIdles
  <2> QED
    BY <1>2, <2>1, <2>2
<1>12. CASE UNCHANGED vars
  BY <1>12 DEF vars, IInv, TypeOK, LiveRunsHaveTriggers, RegisteredUnderKey,
     RunsAreOwned, ConnectedRunIsLive
<1> QED
  BY <1>1, <1>3, <1>4, <1>5, <1>6, <1>7, <1>8, <1>9, <1>10, <1>11, <1>12 DEF Next

(* The invariant of the processor.                                         *)
THEOREM ProcessorInvariant == Spec => []IInv
  BY InitIInv, NextIInv, PTL DEF Spec

(* processAppInfo never hands an agent the id of a run whose data the      *)
(* processor would drop.                                                   *)
THEOREM RepliesNameLiveRuns == Spec => []ReplyNamesLiveRun
<1>1. IInv => ReplyNamesLiveRun
  BY DEF IInv, ConnectedRunIsLive, ReplyNamesLiveRun, AppInfoReply
<1> QED
  BY ProcessorInvariant, <1>1, PTL

(* Close is started exactly once for every run that leaves the map, and    *)
(* never for one that is in it.                                            *)
THEOREM TriggersOfLiveRuns == Spec => []LiveRunsHaveTriggers
<1>1. IInv => LiveRunsHaveTriggers
  BY DEF IInv
<1> QED
  BY ProcessorInvariant, <1>1, PTL

(* Only processAppInfo registers an application, one at a time and only    *)
(* below the limit.                                                        *)
LEMMA NextWithinLimit ==
    ASSUME IInv, IsFiniteSet(Registered), WithinAppLimit, [Next]_vars
    PROVE  IsFiniteSet(Registered') /\ WithinAppLimit'
<1> USE NoneAssumption, BoundAssumption
<1>1. CASE Registered' \subseteq Registered
  <2>1. IsFiniteSet(Registered') /\ Cardinality(Registered') <= Cardinality(Registered)
    BY <1>1, FS_Subset
  <2>2. Cardinality(Registered') \in Nat /\ Cardinality(Registered) \in Nat
    BY <2>1, FS_CardinalityType
  <2> QED
    BY <2>1, <2>2 DEF WithinAppLimit
<1>2. ASSUME NEW k \in Keys, NEW a \in Apps, apps[k] = None, BelowAppLimit,
             apps' = [apps EXCEPT ![k] = a]
      PROVE  IsFiniteSet(Registered') /\ WithinAppLimit'
  <2>1. Registered' = Registered \cup {k} /\ k \notin Registered
    BY <1>2 DEF Registered, IInv, TypeOK
  <2>2. IsFiniteSet(Registered') /\ Cardinality(Registered') = Cardinality(Registered) + 1
    BY <2>1, FS_AddElement
  <2>3. Cardinality(Registered) \in Nat
    BY FS_CardinalityType
  <2> QED
    BY <1>2, <2>2, <2>3 DEF WithinAppLimit, BelowAppLimit
<1>3. CASE UNCHANGED apps
  BY <1>1, <1>3 DEF Registered
<1>4. ASSUME NEW k \in Keys, ProcessAppInfo(k)
      PROVE  IsFiniteSet(Registered') /\ WithinAppLimit'
  BY <1>2, <1>3, <1>4 DEF ProcessAppInfo
<1>5. ASSUME NEW r \in Runs, DoHarvest(r)
      PROVE  IsFiniteSet(Registered') /\ WithinAppLimit'
  <2>1. CASE apps' = [apps EXCEPT ![app[owner[r]].key] = None]
    BY <1>1, <2>1 DEF Registered, IInv, TypeOK
  <2> QED
    BY <1>3, <1>5, <2>1 DEF DoHarvest
<1> QED
  BY <1>3, <1>4, <1>5 DEF Next, vars, ProcessTxnData, ProcessConnectAttempt,
     ProcessHarvestError, UtilizationGathered, PayloadSent, CloseDone, BackoffElapses, AppIdles

(* The daemon never tracks more than limits.AppLimit applications,         *)
(* whatever agents ask for and whatever is removed in between.             *)
THEOREM AppLimitHolds == Spec => []WithinAppLimit
<1> DEFINE Limit == IsFiniteSet(Registered) /\ WithinAppLimit
<1>1. Init => Limit
  <2> SUFFICES ASSUME Init PROVE Limit
    OBVIOUS
  <2>1. Registered = {}
    BY DEF Init, Registered
  <2> QED
    BY <2>1, FS_EmptySet, BoundAssumption DEF WithinAppLimit
<1>2. IInv /\ Limit /\ [Next]_vars => Limit'
  BY NextWithinLimit DEF Registered
<1>3. Limit => WithinAppLimit
  OBVIOUS
<1> HIDE DEF Limit
<1> QED
  BY ProcessorInvariant, <1>1, <1>2, <1>3, PTL DEF Spec

-----------------------------------------------------------------------------
(* While no attempt has crossed another.                                   *)

(* An App object that was never registered is as NewApp left it.           *)
UnusedAppsAreUnknown == \A a \in Apps : app[a].key = None => app[a].state = "Unknown"

(* A key has one attempt in flight at most, and the application that its   *)
(* reply will be applied to is still waiting for it: it has neither been   *)
(* connected nor refused since the attempt began.                          *)
OneAttemptPerKey ==
    \A k \in Keys : /\ attempts[k] <= 1
                    /\ (attempts[k] > 0 /\ apps[k] # None) => app[apps[k]].state = "Unknown"

(* Every live run is the one its application's agents are told of.         *)
RunsAreCurrent ==
    \A r \in harvests : app[owner[r]].raw = r /\ app[owner[r]].state = "Connected"

QuietInv ==
    /\ UnusedAppsAreUnknown
    /\ ~crossed => OneAttemptPerKey /\ RunsAreCurrent

(* What is left of considerConnect when it crosses nothing: an attempt is  *)
(* started for a key that has none, by the application registered there or *)
(* by one whose key has been given up, or none is started.                 *)
LEMMA ConsiderConnectQuiet ==
    ASSUME IInv, NEW a \in Apps, NEW rec \in AppRecord, rec.key \in Keys, ConsiderConnect(a, rec),
           ~crossed'
    PROVE  /\ ~crossed
           /\ \/ attempts' = attempts
              \/ /\ attempts[rec.key] = 0 /\ apps[rec.key] \in {a, None} /\ rec.state = "Unknown"
                 /\ attempts' = [attempts EXCEPT ![rec.key] = 1]
<1> USE BoundAssumption
<1>1. attempts[rec.key] \in Nat
  BY DEF IInv, TypeOK
<1>2. CASE ShouldConnect(rec)
  <2>1. /\ rec.state = "Unknown"
        /\ attempts' = [attempts EXCEPT ![rec.key] = @ + 1]
        /\ ~crossed /\ ~(attempts[rec.key] > 0) /\ apps[rec.key] \in {a, None}
    BY <1>2 DEF ConsiderConnect, ShouldConnect
  <2>2. attempts[rec.key] = 0
    BY <1>1, <2>1
  <2> QED
    BY <2>1, <2>2 DEF IInv, TypeOK
<1>3. CASE ~ShouldConnect(rec)
  BY <1>3 DEF ConsiderConnect, connecting
<1> QED
  BY <1>2, <1>3

LEMMA AppInfoQuiet ==
    ASSUME IInv, QuietInv, NEW k \in Keys, ProcessAppInfo(k)
    PROVE  QuietInv'
<1> USE NoneAssumption
<1>0. UNCHANGED <<harvests, owner, trigger>>
  BY DEF ProcessAppInfo
<1>1. ASSUME NEW a \in Apps, apps[k] = a, UNCHANGED apps,
             ConsiderConnect(a, [app[a] EXCEPT !.inactive = FALSE])
      PROVE  QuietInv'
  <2> DEFINE rec == [app[a] EXCEPT !.inactive = FALSE]
  <2>1. rec \in AppRecord /\ rec.key = k /\ rec.state = app[a].state /\ rec.raw = app[a].raw
    <3>1. app[a] \in AppRecord /\ app[a].key = k
      BY <1>1 DEF IInv, TypeOK, RegisteredUnderKey
    <3> QED
      BY <3>1 DEF AppRecord
  <2>2. ConsiderConnect(a, rec)
    BY <1>1
  <2> HIDE DEF rec
  <2>3. PICK b \in BOOLEAN : app' = [app EXCEPT ![a] = [rec EXCEPT !.backoff = b]]
    BY <2>1, <2>2, ConsiderConnectEffect
  <2>4. \A x \in Apps : /\ app'[x].key = app[x].key
                        /\ app'[x].state = app[x].state
                        /\ app'[x].raw = app[x].raw
    BY <1>1, <2>1, <2>3 DEF IInv, TypeOK, AppRecord, RegisteredUnderKey
  <2>5. UnusedAppsAreUnknown'
    BY <2>4 DEF QuietInv, UnusedAppsAreUnknown
  <2>6. ASSUME ~crossed' PROVE OneAttemptPerKey' /\ RunsAreCurrent'
    <3>1. /\ ~crossed
          /\ \/ attempts' = attempts
             \/ app[a].state = "Unknown" /\ attempts' = [attempts EXCEPT ![k] = 1]
      BY <2>1, <2>2, <2>6, ConsiderConnectQuiet
    <3>2. OneAttemptPerKey'
      BY <1>1, <2>4, <3>1 DEF QuietInv, OneAttemptPerKey, IInv, TypeOK
    <3>3. RunsAreCurrent'
      BY <1>0, <2>4, <3>1 DEF QuietInv, RunsAreCurrent, IInv, TypeOK, LiveRunsHaveTriggers,
         RunsAreOwned
    <3> QED
      BY <3>2, <3>3
  <2> QED
    BY <2>5, <2>6 DEF QuietInv
<1>2. ASSUME apps[k] = None, NEW a \in Apps, app[a].key = None,
             apps' = [apps EXCEPT ![k] = a], ConsiderConnect(a, NewApp(k))
      PROVE  QuietInv'
  <2>1. NewApp(k) \in AppRecord /\ NewApp(k).key = k /\ NewApp(k).state = "Unknown"
    BY DEF NewApp, AppRecord, AppStates
  <2>2. PICK b \in BOOLEAN : app' = [app EXCEPT ![a] = [NewApp(k) EXCEPT !.backoff = b]]
    BY <1>2, <2>1, ConsiderConnectEffect
  <2>3. /\ \A x \in Apps \ {a} : app'[x] = app[x]
        /\ app'[a].key = k /\ app'[a].state = "Unknown"
    BY <2>1, <2>2 DEF IInv, TypeOK, AppRecord
  <2>4. UnusedAppsAreUnknown'
    BY <2>3 DEF QuietInv, UnusedAppsAreUnknown
  <2>5. \A r \in harvests : owner[r] \in Apps \ {a}
    BY <1>2 DEF IInv, TypeOK, LiveRunsHaveTriggers, RunsAreOwned
  <2>6. \A j \in Keys : apps[j] # a
    BY <1>2 DEF IInv, RegisteredUnderKey
  <2>7. ASSUME ~crossed' PROVE OneAttemptPerKey' /\ RunsAreCurrent'
    <3>1. /\ ~crossed
          /\ attempts' = attempts \/ attempts' = [attempts EXCEPT ![k] = 1]
      BY <1>2, <2>1, <2>7, ConsiderConnectQuiet
    <3>2. OneAttemptPerKey'
      <4> SUFFICES ASSUME NEW j \in Keys
                   PROVE  /\ attempts'[j] <= 1
                          /\ (attempts'[j] > 0 /\ apps'[j] # None)
                                => app'[apps'[j]].state = "Unknown"
        BY DEF OneAttemptPerKey
      <4>1. attempts'[j] <= 1
        BY <3>1 DEF QuietInv, OneAttemptPerKey, IInv, TypeOK
      <4>2. CASE j = k
        BY <1>2, <2>3, <4>1, <4>2 DEF IInv, TypeOK
      <4>3. CASE j # k
        BY <1>2, <2>3, <2>6, <3>1, <4>1, <4>3 DEF IInv, TypeOK, QuietInv, OneAttemptPerKey
      <4> QED
        BY <4>2, <4>3
    <3>3. RunsAreCurrent'
      BY <1>0, <2>3, <2>5, <3>1 DEF QuietInv, RunsAreCurrent
    <3> QED
      BY <3>2, <3>3
  <2> QED
    BY <2>4, <2>7 DEF QuietInv
<1> QED
  BY <1>1, <1>2 DEF ProcessAppInfo

(* A reply finds the application that asked for it, still unconnected.     *)
LEMMA ConnectAttemptQuiet ==
    ASSUME IInv, QuietInv, NEW k \in Keys, NEW reply \in ConnectReplies,
           ProcessConnectAttempt(k, reply)
    PROVE  QuietInv'
<1> USE NoneAssumption, BoundAssumption
<1> DEFINE a == apps[k]
<1>1. /\ UNCHANGED <<apps, crossed>>
      /\ attempts[k] > 0 /\ attempts' = [attempts EXCEPT ![k] = @ - 1]
  BY DEF ProcessConnectAttempt
<1>2. ASSUME ~crossed
      PROVE  /\ \A j \in Keys : attempts'[j] <= attempts[j]
             /\ attempts'[k] = 0
             /\ apps[k] # None => app[a].state = "Unknown"
  BY <1>1, <1>2 DEF IInv, TypeOK, QuietInv, OneAttemptPerKey
<1>3. CASE apps[k] = None
  <2>1. UNCHANGED <<app, harvests, owner>>
    BY <1>3 DEF ProcessConnectAttempt
  <2>2. ASSUME ~crossed PROVE OneAttemptPerKey'
    BY <1>1, <1>3, <2>1, <2>2 DEF IInv, TypeOK, QuietInv, OneAttemptPerKey
  <2> QED
    BY <1>1, <2>1, <2>2 DEF QuietInv, UnusedAppsAreUnknown, RunsAreCurrent
<1>4. CASE apps[k] # None
  <2>1. a \in Apps /\ app[a] \in AppRecord /\ app[a].key = k
    BY <1>4 DEF IInv, TypeOK, RegisteredUnderKey
  <2>2. \A j \in Keys \ {k} : apps[j] # a
    BY <2>1 DEF IInv, RegisteredUnderKey
  <2>3. ASSUME \A x \in Apps \ {a} : app'[x] = app[x], app'[a].key = k
        PROVE  UnusedAppsAreUnknown' /\ (~crossed => OneAttemptPerKey')
    <3>1. UnusedAppsAreUnknown'
      BY <2>3 DEF QuietInv, UnusedAppsAreUnknown
    <3>2. ASSUME ~crossed PROVE OneAttemptPerKey'
      BY <1>1, <1>2, <2>2, <2>3, <3>2 DEF IInv, TypeOK, QuietInv, OneAttemptPerKey
    <3> QED
      BY <3>1, <3>2
  <2>4. CASE reply # "ok"
    <3>1. ConnectFailed(k, reply)
      BY <1>4, <2>4 DEF ProcessConnectAttempt
    <3>2. /\ UNCHANGED <<harvests, owner>>
          /\ \A x \in Apps \ {a} : app'[x] = app[x]
          /\ app'[a].key = k
      BY <2>1, <3>1 DEF ConnectFailed, IInv, TypeOK, AppRecord
    <3>3. ASSUME ~crossed PROVE RunsAreCurrent'
      BY <1>2, <1>4, <3>2, <3>3 DEF QuietInv, RunsAreCurrent, IInv, TypeOK, LiveRunsHaveTriggers,
         RunsAreOwned
    <3> QED
      BY <1>1, <2>3, <3>2, <3>3 DEF QuietInv
  <2>5. CASE reply = "ok"
    <3>1. PICK r \in Runs :
              /\ app' = [app EXCEPT ![a].state = "Connected", ![a].raw = r]
              /\ harvests' = harvests \cup {r}
              /\ owner' = [owner EXCEPT ![r] = a]
              /\ trigger[r] = "none"
      BY <1>4, <2>5 DEF ProcessConnectAttempt, ConnectSucceeded
    <3>2. /\ \A x \in Apps \ {a} : app'[x] = app[x]
          /\ app'[a].key = k /\ app'[a].state = "Connected" /\ app'[a].raw = r
      BY <2>1, <3>1 DEF IInv, TypeOK, AppRecord
    <3>3. r \notin harvests
      BY <3>1 DEF IInv, LiveRunsHaveTriggers
    <3>4. ASSUME ~crossed PROVE RunsAreCurrent'
      <4>1. \A q \in harvests : owner[q] \in Apps \ {a}
        BY <1>2, <1>4, <3>4 DEF QuietInv, RunsAreCurrent, IInv, TypeOK, LiveRunsHaveTriggers,
           RunsAreOwned
      <4>2. \A q \in harvests : owner'[q] = owner[q]
        BY <3>1, <3>3 DEF IInv, TypeOK
      <4>3. owner'[r] = a
        BY <3>1 DEF IInv, TypeOK
      <4>4. \A q \in harvests : app'[owner'[q]].raw = q /\ app'[owner'[q]].state = "Connected"
        BY <3>2, <3>4, <4>1, <4>2 DEF QuietInv, RunsAreCurrent
      <4>5. app'[owner'[r]].raw = r /\ app'[owner'[r]].state = "Connected"
        BY <3>2, <4>3
      <4> QED
        BY <3>1, <4>4, <4>5 DEF RunsAreCurrent
    <3> QED
      BY <1>1, <2>3, <3>2, <3>4 DEF QuietInv
  <2> QED
    BY <2>4, <2>5
<1> QED
  BY <1>3, <1>4

(* A run that an error gives up is the current one of its application, so  *)
(* the application is not waiting for any reply.                           *)
LEMMA HarvestErrorQuiet ==
    ASSUME IInv, QuietInv, NEW r \in Runs, NEW reply \in HarvestReplies,
           ProcessHarvestError(r, reply)
    PROVE  QuietInv'
<1> USE NoneAssumption, BoundAssumption
<1> DEFINE a == owner[r]
<1>1. UNCHANGED <<apps, owner>>
  BY DEF ProcessHarvestError
<1>2. CASE UNCHANGED <<app, harvests, attempts, crossed>>
  BY <1>1, <1>2 DEF QuietInv, UnusedAppsAreUnknown, OneAttemptPerKey, RunsAreCurrent
<1>3. ASSUME r \in harvests, ShutdownAppHarvest(r),
             NEW s \in {"Disconnected", "Unknown"}, NEW b \in BOOLEAN,
             app' = [app EXCEPT ![a] = [app[a] EXCEPT !.state = s, !.backoff = b]],
             ~crossed' => /\ ~crossed
                          /\ \/ attempts' = attempts
                             \/ /\ s = "Unknown" /\ apps[app[a].key] \in {a, None}
                                /\ attempts[app[a].key] = 0
                                /\ attempts' = [attempts EXCEPT ![app[a].key] = 1]
      PROVE  QuietInv'
  <2>1. a \in Apps /\ app[a] \in AppRecord /\ app[a].key \in Keys
    BY <1>3 DEF IInv, TypeOK, LiveRunsHaveTriggers, RunsAreOwned
  <2>2. /\ \A x \in Apps \ {a} : app'[x] = app[x]
        /\ app'[a].key = app[a].key /\ app'[a].state = s
    <3> DEFINE rec == [app[a] EXCEPT !.state = s, !.backoff = b]
    <3>1. rec.key = app[a].key /\ rec.state = s
      BY <2>1 DEF AppRecord
    <3>2. app' = [app EXCEPT ![a] = rec]
      BY <1>3
    <3> HIDE DEF rec
    <3> QED
      BY <2>1, <3>1, <3>2 DEF IInv, TypeOK
  <2>3. harvests' = harvests \ {r}
    BY <1>3 DEF ShutdownAppHarvest
  <2>4. UnusedAppsAreUnknown'
    BY <2>1, <2>2 DEF QuietInv, UnusedAppsAreUnknown
  <2>5. ASSUME ~crossed' PROVE OneAttemptPerKey' /\ RunsAreCurrent'
    <3>1. ~crossed
      BY <1>3, <2>5
    <3>2. app[a].state = "Connected" /\ app[a].raw = r
      BY <1>3, <3>1 DEF QuietInv, RunsAreCurrent
    <3>3. \A q \in harvests \ {r} : owner[q] \in Apps \ {a}
      BY <3>1, <3>2 DEF QuietInv, RunsAreCurrent, IInv, TypeOK, LiveRunsHaveTriggers, RunsAreOwned
    <3>4. RunsAreCurrent'
      BY <1>1, <2>2, <2>3, <3>1, <3>3 DEF QuietInv, RunsAreCurrent
    <3>5. ASSUME NEW j \in Keys
          PROVE  /\ attempts'[j] <= 1
                 /\ (attempts'[j] > 0 /\ apps[j] # None) => app'[apps[j]].state = "Unknown"
      <4>1. /\ attempts[j] \in Nat /\ attempts[j] <= 1 /\ apps[j] \in Apps \cup {None}
            /\ (attempts[j] > 0 /\ apps[j] # None) => app[apps[j]].state = "Unknown"
        BY <3>1 DEF QuietInv, OneAttemptPerKey, IInv, TypeOK
      <4>2. CASE attempts'[j] = attempts[j]
        BY <2>2, <3>2, <4>1, <4>2
      <4>3. CASE attempts'[j] # attempts[j]
        <5>1. /\ s = "Unknown" /\ j = app[a].key /\ apps[j] \in {a, None}
              /\ attempts'[j] = 1
          BY <1>3, <2>1, <2>5, <4>3 DEF IInv, TypeOK
        <5> QED
          BY <2>2, <5>1
      <4> QED
        BY <4>2, <4>3
    <3> QED
      BY <1>1, <3>4, <3>5 DEF OneAttemptPerKey
  <2> QED
    BY <2>4, <2>5 DEF QuietInv
<1>4. CASE r \in harvests /\ HarvestErrorLive(r, reply)
  <2>1. a \in Apps /\ app[a] \in AppRecord /\ app[a].key \in Keys
    BY <1>4 DEF IInv, TypeOK, LiveRunsHaveTriggers, RunsAreOwned
  <2>2. CASE /\ app' = [app EXCEPT ![a].state = "Disconnected"]
             /\ ShutdownAppHarvest(r)
             /\ UNCHANGED connecting
    <3>1. app[a].backoff \in BOOLEAN
      BY <2>1 DEF AppRecord
    <3>2. app' = [app EXCEPT ![a] = [app[a] EXCEPT !.state = "Disconnected",
                                                   !.backoff = app[a].backoff]]
      BY <2>1, <2>2 DEF IInv, TypeOK, AppRecord
    <3> QED
      BY <1>3, <1>4, <2>2, <3>1, <3>2 DEF connecting
  <2>3. CASE /\ ShutdownAppHarvest(r)
             /\ ConsiderConnect(a, [app[a] EXCEPT !.state = "Unknown"])
    <3> DEFINE rec == [app[a] EXCEPT !.state = "Unknown"]
    <3>1. rec \in AppRecord /\ rec.key = app[a].key /\ ConsiderConnect(a, rec)
      BY <2>1, <2>3 DEF AppRecord, AppStates
    <3> HIDE DEF rec
    <3>2. PICK b \in BOOLEAN : app' = [app EXCEPT ![a] = [rec EXCEPT !.backoff = b]]
      BY <2>1, <3>1, ConsiderConnectEffect
    <3>3. app' = [app EXCEPT ![a] = [app[a] EXCEPT !.state = "Unknown", !.backoff = b]]
      BY <2>1, <3>2 DEF rec, AppRecord
    <3>4. ~crossed' => /\ ~crossed
                       /\ \/ attempts' = attempts
                          \/ /\ apps[app[a].key] \in {a, None}
                             /\ attempts[app[a].key] = 0
                             /\ attempts' = [attempts EXCEPT ![app[a].key] = 1]
      BY <2>1, <3>1, ConsiderConnectQuiet
    <3> QED
      BY <1>3, <1>4, <2>3, <3>3, <3>4
  <2> QED
    BY <1>2, <1>4, <2>2, <2>3 DEF HarvestErrorLive, connecting
<1> QED
  BY <1>2, <1>4 DEF ProcessHarvestError, connecting

(* Removing an inactive application leaves its App as it is, so a run it   *)
(* still has stays current; what else happens between two replies touches  *)
(* no state, no run id and no attempt.                                     *)
LEMMA NextQuiet == IInv /\ QuietInv /\ [Next]_vars => QuietInv'
<1> SUFFICES ASSUME IInv, QuietInv, [Next]_vars PROVE QuietInv'
  OBVIOUS
<1> USE NoneAssumption
<1>1. ASSUME \A x \in Apps : /\ app'[x].key = app[x].key
                             /\ app'[x].state = app[x].state
                             /\ app'[x].raw = app[x].raw,
             harvests' \subseteq harvests, UNCHANGED <<owner, attempts, crossed>>,
             \A j \in Keys : apps'[j] \in {apps[j], None}
      PROVE  QuietInv'
  <2>1. UnusedAppsAreUnknown'
    BY <1>1 DEF QuietInv, UnusedAppsAreUnknown
  <2>2. ASSUME ~crossed PROVE OneAttemptPerKey'
    BY <1>1, <2>2 DEF QuietInv, OneAttemptPerKey, IInv, TypeOK
  <2>3. ASSUME ~crossed PROVE RunsAreCurrent'
    BY <1>1, <2>3 DEF QuietInv, RunsAreCurrent, IInv, TypeOK, LiveRunsHaveTriggers, RunsAreOwned
  <2> QED
    BY <1>1, <2>1, <2>2, <2>3 DEF QuietInv
<1>2. ASSUME NEW k \in Keys, ProcessAppInfo(k) PROVE QuietInv'
  BY <1>2, AppInfoQuiet
<1>3. ASSUME NEW k \in Keys, NEW reply \in ConnectReplies, ProcessConnectAttempt(k, reply)
      PROVE  QuietInv'
  BY <1>3, ConnectAttemptQuiet
<1>4. ASSUME NEW r \in Runs, NEW reply \in HarvestReplies, ProcessHarvestError(r, reply)
      PROVE  QuietInv'
  BY <1>4, HarvestErrorQuiet
<1>5. ASSUME NEW r \in Runs, DoHarvest(r) PROVE QuietInv'
  <2>1. /\ UNCHANGED <<app, owner, attempts, crossed>>
        /\ harvests' \subseteq harvests
    BY <1>5 DEF DoHarvest, ShutdownAppHarvest, connecting
  <2>2. \A j \in Keys : apps'[j] \in {apps[j], None}
    BY <1>5 DEF DoHarvest, IInv, TypeOK
  <2> QED
    BY <1>1, <2>1, <2>2
<1>6. ASSUME NEW a \in Apps, NEW f \in BOOLEAN,
             app' = [app EXCEPT ![a].inactive = f] \/ app' = [app EXCEPT ![a].backoff = f]
      PROVE  \A x \in Apps : /\ app'[x].key = app[x].key
                             /\ app'[x].state = app[x].state
                             /\ app'[x].raw = app[x].raw
  <2>1. app \in [Apps -> AppRecord]
    BY DEF IInv, TypeOK
  <2>2. CASE app' = [app EXCEPT ![a].inactive = f]
    <3> DEFINE rec == [app[a] EXCEPT !.inactive = f]
    <3>1. rec.key = app[a].key /\ rec.state = app[a].state /\ rec.raw = app[a].raw
      BY <2>1 DEF AppRecord
    <3>2. app' = [app EXCEPT ![a] = rec]
      BY <2>2
    <3> HIDE DEF rec
    <3> QED
      BY <2>1, <3>1, <3>2
  <2>3. CASE app' = [app EXCEPT ![a].backoff = f]
    <3> DEFINE rec == [app[a] EXCEPT !.backoff = f]
    <3>1. rec.key = app[a].key /\ rec.state = app[a].state /\ rec.raw = app[a].raw
      BY <2>1 DEF AppRecord
    <3>2. app' = [app EXCEPT ![a] = rec]
      BY <2>3
    <3> HIDE DEF rec
    <3> QED
      BY <2>1, <3>1, <3>2
  <2> QED
    BY <1>6, <2>2, <2>3
<1>7. ASSUME NEW r \in Runs, ProcessTxnData(r) PROVE QuietInv'
  <2>1. owner[r] \in Apps
    BY <1>7 DEF ProcessTxnData, IInv, LiveRunsHaveTriggers, RunsAreOwned
  <2>2. \A x \in Apps : /\ app'[x].key = app[x].key
                        /\ app'[x].state = app[x].state
                        /\ app'[x].raw = app[x].raw
    BY <1>6, <1>7, <2>1 DEF ProcessTxnData
  <2> QED
    BY <1>1, <1>7, <2>2 DEF ProcessTxnData, connecting
<1>8. ASSUME NEW a \in Apps, BackoffElapses(a) \/ AppIdles(a) PROVE QuietInv'
  <2>1. \A x \in Apps : /\ app'[x].key = app[x].key
                        /\ app'[x].state = app[x].state
                        /\ app'[x].raw = app[x].raw
    BY <1>6, <1>8 DEF BackoffElapses, AppIdles
  <2> QED
    BY <1>1, <1>8, <2>1 DEF BackoffElapses, AppIdles, connecting
<1>9. CASE UtilizationGathered \/ (\E r \in Runs : PayloadSent(r) \/ CloseDone(r)) \/ UNCHANGED vars
  BY <1>1, <1>9 DEF UtilizationGathered, PayloadSent, CloseDone, connecting, vars
<1> QED
  BY <1>2, <1>3, <1>4, <1>5, <1>7, <1>8, <1>9 DEF Next

(* While no attempt has crossed another: one attempt per key, one run per  *)
(* application.                                                            *)
THEOREM QuietInvariant == Spec => []QuietInv
<1>1. Init => QuietInv
  <2> SUFFICES ASSUME Init PROVE QuietInv
    OBVIOUS
  <2>1. \A a \in Apps : app[a].state = "Unknown"
    BY DEF Init, NewApp
  <2> QED
    BY <2>1, NoneAssumption DEF Init, QuietInv, UnusedAppsAreUnknown, OneAttemptPerKey,
       RunsAreCurrent
<1> QED
  BY <1>1, NextQuiet, ProcessorInvariant, PTL DEF Spec

(* Processor.harvests "contains only connected applications", and one run  *)
(* of each, until an attempt has crossed another.                          *)
THEOREM RunsStayCurrent == Spec => []OneRunPerApp
<1>1. QuietInv => OneRunPerApp
  BY DEF QuietInv, RunsAreCurrent, OneRunPerApp
<1> QED
  BY <1>1, QuietInvariant, PTL

(* An application that was disconnected stays so, until an attempt has     *)
(* crossed another: no run of it is live and no reply is awaited.          *)
THEOREM DisconnectStays == Spec => DisconnectIsPermanent
<1> DEFINE Stays == \A a \in Apps : (~crossed /\ app[a].state = "Disconnected")
                                        => app'[a].state = "Disconnected"
<1>1. IInv /\ QuietInv /\ [Next]_vars => [Stays]_vars
  <2> SUFFICES ASSUME IInv, QuietInv, Next, NEW a \in Apps, ~crossed,
                      app[a].state = "Disconnected"
               PROVE  app'[a].state = "Disconnected"
    OBVIOUS
  <2> USE NoneAssumption
  <2>0. app \in [Apps -> AppRecord] /\ app[a].key # None
    BY DEF IInv, TypeOK, QuietInv, UnusedAppsAreUnknown
  <2>1. \A r \in harvests : owner[r] # a
    BY DEF QuietInv, RunsAreCurrent
  <2>2. \A k \in Keys : apps[k] = a => ~(attempts[k] > 0)
    BY DEF QuietInv, OneAttemptPerKey
  <2>3. ASSUME NEW x \in Apps, NEW rec \in AppRecord, rec.key \in Keys, ConsiderConnect(x, rec),
               x = a => rec.state = app[a].state
        PROVE  app'[a].state = "Disconnected"
    <3>1. PICK b \in BOOLEAN : app' = [app EXCEPT ![x] = [rec EXCEPT !.backoff = b]]
      BY <2>3, ConsiderConnectEffect
    <3> QED
      BY <2>0, <2>3, <3>1 DEF AppRecord
  <2>4. ASSUME NEW k \in Keys, ProcessAppInfo(k) PROVE app'[a].state = "Disconnected"
    <3>1. ASSUME NEW x \in Apps, apps[k] = x,
                 ConsiderConnect(x, [app[x] EXCEPT !.inactive = FALSE])
          PROVE  app'[a].state = "Disconnected"
      <4> DEFINE rec == [app[x] EXCEPT !.inactive = FALSE]
      <4>1. app[x] \in AppRecord /\ app[x].key = k
        BY <3>1 DEF IInv, TypeOK, RegisteredUnderKey
      <4>2. rec \in AppRecord /\ rec.key = k /\ rec.state = app[x].state
        BY <4>1 DEF AppRecord
      <4>3. ConsiderConnect(x, rec)
        BY <3>1
      <4> HIDE DEF rec
      <4> QED
        BY <2>3, <4>2, <4>3
    <3>2. ASSUME NEW x \in Apps, app[x].key = None, ConsiderConnect(x, NewApp(k))
          PROVE  app'[a].state = "Disconnected"
      <4>1. NewApp(k) \in AppRecord /\ NewApp(k).key = k
        BY DEF NewApp, AppRecord, AppStates
      <4> QED
        BY <2>0, <2>3, <3>2, <4>1
    <3> QED
      BY <2>4, <3>1, <3>2 DEF ProcessAppInfo
  <2>5. ASSUME NEW k \in Keys, NEW reply \in ConnectReplies, ProcessConnectAttempt(k, reply)
        PROVE  app'[a].state = "Disconnected"
    <3>1. apps[k] # a
      BY <2>2, <2>5 DEF ProcessConnectAttempt
    <3> QED
      BY <2>0, <2>5, <3>1 DEF ProcessConnectAttempt, ConnectFailed, ConnectSucceeded
  <2>6. ASSUME NEW r \in Runs, NEW reply \in HarvestReplies, ProcessHarvestError(r, reply)
        PROVE  app'[a].state = "Disconnected"
    <3>1. CASE r \in harvests /\ HarvestErrorLive(r, reply)
      <4>1. owner[r] \in Apps \ {a} /\ app[owner[r]].key \in Keys
        BY <2>1, <3>1 DEF IInv, TypeOK, LiveRunsHaveTriggers, RunsAreOwned
      <4>2. CASE ConsiderConnect(owner[r], [app[owner[r]] EXCEPT !.state = "Unknown"])
        <5> DEFINE rec == [app[owner[r]] EXCEPT !.state = "Unknown"]
        <5>1. rec \in AppRecord /\ rec.key \in Keys /\ ConsiderConnect(owner[r], rec)
          BY <2>0, <4>1, <4>2 DEF AppRecord, AppStates
        <5> HIDE DEF rec
        <5> QED
          BY <2>3, <4>1, <5>1
      <4> QED
        BY <2>0, <3>1, <4>1, <4>2 DEF HarvestErrorLive
    <3> QED
      BY <2>6, <3>1 DEF ProcessHarvestError
  <2>7. ASSUME NEW x \in Apps, BackoffElapses(x) \/ AppIdles(x)
        PROVE  app'[a].state = "Disconnected"
    BY <2>0, <2>7 DEF BackoffElapses, AppIdles, AppRecord
  <2>8. ASSUME NEW r \in Runs, ProcessTxnData(r) PROVE app'[a].state = "Disconnected"
    BY <2>0, <2>8 DEF ProcessTxnData, AppRecord
  <2>9. ASSUME NEW r \in Runs, DoHarvest(r) \/ PayloadSent(r) \/ CloseDone(r)
        PROVE  app'[a].state = "Disconnected"
    BY <2>9 DEF DoHarvest, PayloadSent, CloseDone
  <2> QED
    BY <2>4, <2>5, <2>6, <2>7, <2>8, <2>9 DEF Next, UtilizationGathered
<1> QED
  BY <1>1, ProcessorInvariant, QuietInvariant, PTL DEF Spec, DisconnectIsPermanent
=============================================================================
