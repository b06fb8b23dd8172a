-------------------------- MODULE HarvestCycleProofs --------------------------
(* For any number of overlapping cycles and any data: the lock of the      *)
(* MetricsController has one holder, the metrics of a cycle follow its     *)
(* events, and the collector stores nothing twice.                         *)
EXTENDS HarvestCycle, TLAPS

Places == {"idle", "payloads", "sending", "trylock", "done"} \cup Holding

(* The cycle of CleanExit begins when the loop of the processor ends.      *)
ExitIsLast == loop = "run" => pc[Exit] = "idle"

(* What the goroutines know of each other.                                 *)
Control ==
    /\ mode \in Modes /\ prompt \in BOOLEAN
    /\ loop \in {"run", "quit", "returned", "crashed"}
    /\ pc \in [All -> Places]
    /\ events \in [All -> Payload] /\ metrics \in [All -> Payload]
    /\ mu \in All \cup {None}
    /\ \A c \in All : pc[c] \in Holding <=> mu = c
    /\ ExitIsLast
    /\ EventsBeforeMetrics

DataTypes ==
    /\ live \subseteq Data /\ lost \subseteq Data /\ arrived \in [Data -> Nat]
    /\ table \in [All -> SUBSET Data] /\ load \in [All -> SUBSET Data]

(* A datum that may still be sent is in one table or payload.              *)
OnePlace ==
    \A d \in Data : \A c, e \in All :
        /\ d \in live => d \notin table[c] /\ d \notin load[c]
        /\ d \in table[c] => d \notin load[e]
        /\ c # e => ~(d \in table[c] /\ d \in table[e]) /\ ~(d \in load[c] /\ d \in load[e])

(* A datum that was stored is nowhere else but in a payload that seems to  *)
(* have failed, and that payload's data are not kept.                      *)
StoredOnce ==
    \A d \in Data :
        \/ arrived[d] = 0
        \/ /\ arrived[d] = 1
           /\ d \notin live
           /\ \A c \in All : d \notin table[c] /\ (d \in load[c] => metrics[c] = "timeout")

DataInv == DataTypes /\ OnePlace /\ StoredOnce

IInv == Control /\ DataInv

(* The exit cycle is a cycle, and nobody is not.                           *)
LEMMA CycleFacts == Exit \in All /\ None \notin All /\ \A c \in Cycles : c \in All /\ c # Exit
  BY CycleAssumption DEF All

(* Done wakes a cycle that waits, with the lock in its hands, and moves no *)
(* other.                                                                  *)
LEMMA WakeFacts ==
    ASSUME NEW e, NEW m, NEW at \in [All -> Places]
    PROVE  /\ Wake(e, m, at) \in [All -> Places]
           /\ \A c \in All : /\ Wake(e, m, at)[c] \in Holding <=> at[c] \in Holding
                             /\ \/ Wake(e, m, at)[c] = at[c]
                                \/ at[c] = "wait" /\ Wake(e, m, at)[c] = "woken"
  BY DEF Wake, Places, Holding

(* When a cycle ends it holds nothing.                                     *)
LEMMA EndedFacts == \A c : Ended(c) \in Places \ (Holding \cup {"final"})
  BY DEF Ended, Places, Holding

LEMMA InitControl == Init => Control
  BY CycleFacts DEF Init, Control, ExitIsLast, EventsBeforeMetrics, Places, Holding, Payload

(* One step of one cycle: it moves to a place that agrees with what it     *)
(* does to the lock.                                                       *)
LEMMA CycleStepControl ==
    ASSUME Control, NEW c \in All, CycleStep(c)
    PROVE  Control'
<1> USE CycleFacts, EndedFacts
<1>0. UNCHANGED <<mode, prompt, loop>> /\ Running
  BY DEF CycleStep, HarvestAll, TryLock, Wait, WaitReturns, FinalMetrics
<1>1. ASSUME NEW p \in Places, pc' = [pc EXCEPT ![c] = p], pc[c] # "idle",
             events' \in [All -> Payload], metrics' \in [All -> Payload],
             \A e \in All : e # c => events'[e] = events[e],
             p = "final" => events'[c] = "none",
             \/ mu' = mu /\ (p \in Holding <=> pc[c] \in Holding)
             \/ mu = None /\ mu' = c /\ p \in Holding
             \/ mu = c /\ mu' = None /\ p \notin Holding
      PROVE  Control'
  <2>1. pc' \in [All -> Places] /\ mu' \in All \cup {None}
    BY <1>1 DEF Control
  <2>2. \A e \in All : pc'[e] \in Holding <=> mu' = e
    BY <1>1 DEF Control
  <2>3. ExitIsLast'
    BY <1>0, <1>1 DEF Control, ExitIsLast
  <2>4. EventsBeforeMetrics'
    BY <1>1 DEF Control, EventsBeforeMetrics
  <2> QED
    BY <1>0, <1>1, <2>1, <2>2, <2>3, <2>4 DEF Control
<1>2. CASE HarvestAll(c)
  <2>1. /\ pc[c] = "payloads" /\ UNCHANGED <<metrics, mu>>
        /\ events' = [events EXCEPT ![c] = "send"] \/ UNCHANGED events
    BY <1>2 DEF HarvestAll
  <2>2. PICK p \in {"sending", "trylock"} : pc' = [pc EXCEPT ![c] = p]
    BY <1>2 DEF HarvestAll
  <2>3. events' \in [All -> Payload] /\ \A e \in All : e # c => events'[e] = events[e]
    BY <2>1 DEF Control, Payload
  <2> QED
    BY <1>1, <2>1, <2>2, <2>3 DEF Control, Places, Holding
<1>3. CASE TryLock(c)
  <2>1. pc[c] = "trylock" /\ UNCHANGED <<events, metrics>>
    BY <1>3 DEF TryLock
  <2>2. CASE mu = None /\ mu' = c /\ pc' = [pc EXCEPT ![c] = "locked"]
    BY <1>1, <2>1, <2>2 DEF Control, Places, Holding
  <2>3. CASE mu' = mu /\ pc' = [pc EXCEPT ![c] = Ended(c)]
    BY <1>1, <2>1, <2>3 DEF Control, Places, Holding
  <2> QED
    BY <1>3, <2>2, <2>3 DEF TryLock
<1>4. CASE Wait(c)
  <2>1. pc[c] = "locked" /\ UNCHANGED <<events, metrics, mu>>
    BY <1>4 DEF Wait
  <2>2. CASE AllDone(events, metrics) /\ pc' = [pc EXCEPT ![c] = "final"]
    BY <1>1, <2>1, <2>2 DEF Control, AllDone, Places, Holding
  <2>3. CASE pc' = [pc EXCEPT ![c] = "wait"]
    BY <1>1, <2>1, <2>3 DEF Control, Places, Holding
  <2> QED
    BY <1>4, <2>2, <2>3 DEF Wait
<1>5. CASE WaitReturns(c)
  <2>1. pc[c] = "woken" /\ UNCHANGED <<events, metrics>> /\ mu = c
    BY <1>5 DEF WaitReturns, Control, Holding
  <2>2. CASE AllDone(events, metrics) /\ mu' = mu /\ pc' = [pc EXCEPT ![c] = "final"]
    BY <1>1, <2>1, <2>2 DEF Control, AllDone, Places, Holding
  <2>3. CASE mu' = None /\ pc' = [pc EXCEPT ![c] = Ended(c)]
    BY <1>1, <2>1, <2>3 DEF Control, Places, Holding
  <2> QED
    BY <1>5, <2>2, <2>3 DEF WaitReturns
<1>6. CASE FinalMetrics(c)
  <2>1. /\ pc[c] = "final" /\ UNCHANGED events /\ mu = c
        /\ metrics' = [metrics EXCEPT ![c] = "send"]
    BY <1>6 DEF FinalMetrics, Control, Holding
  <2>2. metrics' \in [All -> Payload]
    BY <2>1 DEF Control, Payload
  <2>3. CASE mu' = mu /\ pc' = [pc EXCEPT ![c] = "inline"]
    BY <1>1, <2>1, <2>2, <2>3 DEF Control, Places, Holding
  <2>4. CASE mu' = None /\ pc' = [pc EXCEPT ![c] = Ended(c)]
    BY <1>1, <2>1, <2>2, <2>4 DEF Control, Places, Holding
  <2> QED
    BY <1>6, <2>3, <2>4 DEF FinalMetrics
<1> QED
  BY <1>2, <1>3, <1>4, <1>5, <1>6 DEF CycleStep

(* Payloads come and go, and the last one to go wakes the cycle that waits *)
(* for them.                                                               *)
LEMMA PayloadControl ==
    ASSUME Control, NEW c \in All,
           EventsError(c) \/ MetricsError(c) \/ EventsSent(c) \/ MetricsSent(c)
    PROVE  Control'
<1> USE CycleFacts
<1>0. UNCHANGED <<mode, prompt, loop>>
  BY DEF EventsError, MetricsError, EventsSent, MetricsSent
<1>1. ASSUME NEW at \in [All -> Places], pc' = Wake(events', metrics', at) \/ pc' = at,
             events' \in [All -> Payload], metrics' \in [All -> Payload],
             \A e \in All : events'[e] = events[e] \/ events'[e] = "none" \/ events[e] # "none",
             \A e \in All : at[e] = pc[e] \/ (pc[e] # "idle" /\ at[e] # "final"),
             mu' \in All \cup {None}, \A e \in All : at[e] \in Holding <=> mu' = e
      PROVE  Control'
  <2>1. /\ pc' \in [All -> Places]
        /\ \A e \in All : /\ pc'[e] \in Holding <=> at[e] \in Holding
                          /\ pc'[e] = at[e] \/ (at[e] = "wait" /\ pc'[e] = "woken")
    BY <1>1, WakeFacts
  <2>2. ExitIsLast'
    BY <1>0, <1>1, <2>1 DEF Control, ExitIsLast
  <2>3. EventsBeforeMetrics'
    BY <1>1, <2>1 DEF Control, EventsBeforeMetrics
  <2> QED
    BY <1>0, <1>1, <2>1, <2>2, <2>3 DEF Control
<1>2. CASE EventsError(c)
  <2>1. /\ events' = [events EXCEPT ![c] = "none"] /\ UNCHANGED <<metrics, mu>>
        /\ pc' = Wake(events', metrics', pc)
    BY <1>2 DEF EventsError
  <2>2. /\ events' \in [All -> Payload]
        /\ \A e \in All : events'[e] = events[e] \/ events'[e] = "none"
    BY <2>1 DEF Control, Payload
  <2> QED
    BY <1>1, <2>1, <2>2 DEF Control
<1>3. CASE MetricsError(c)
  <2>1. /\ metrics' = [metrics EXCEPT ![c] = "none"] /\ UNCHANGED <<events, mu>>
        /\ pc' = Wake(events', metrics', pc)
    BY <1>3 DEF MetricsError
  <2>2. metrics' \in [All -> Payload]
    BY <2>1 DEF Control, Payload
  <2> QED
    BY <1>1, <2>1, <2>2 DEF Control
<1>4. CASE EventsSent(c)
  <2>1. events[c] = "send" /\ UNCHANGED <<metrics, mu>>
    BY <1>4 DEF EventsSent
  <2>2. PICK x \in {"none", "refused"} : events' = [events EXCEPT ![c] = x]
    BY <1>4 DEF EventsSent
  <2>3. /\ events' \in [All -> Payload]
        /\ \A e \in All : events'[e] = events[e] \/ events[e] # "none"
    BY <2>1, <2>2 DEF Control, Payload, Errors
  <2> DEFINE at == IF pc[c] = "sending" /\ x = "none" THEN [pc EXCEPT ![c] = "trylock"] ELSE pc
  <2>4. /\ at \in [All -> Places]
        /\ \A e \in All : /\ at[e] = pc[e] \/ (pc[e] # "idle" /\ at[e] # "final")
                          /\ at[e] \in Holding <=> pc[e] \in Holding
    BY DEF Control, Places, Holding
  <2>5. pc' = Wake(events', metrics', at) \/ pc' = at
    BY <1>4, <2>1, <2>2 DEF EventsSent, Control
  <2> HIDE DEF at
  <2> QED
    BY <1>1, <2>1, <2>3, <2>4, <2>5 DEF Control
<1>5. CASE MetricsSent(c)
  <2>1. UNCHANGED events
    BY <1>5 DEF MetricsSent
  <2>2. metrics' \in [All -> Payload]
    <3>1. PICK x \in Payload : metrics' = [metrics EXCEPT ![c] = x]
      BY <1>5 DEF MetricsSent, Payload
    <3> QED
      BY <3>1 DEF Control
  <2>3. CASE pc[c] = "inline" /\ mu' = None
             /\ pc' = Wake(events, metrics', [pc EXCEPT ![c] = "done"])
    <3> DEFINE at == [pc EXCEPT ![c] = "done"]
    <3>1. /\ at \in [All -> Places]
          /\ \A e \in All : /\ at[e] = pc[e] \/ (pc[e] # "idle" /\ at[e] # "final")
                            /\ at[e] \in Holding <=> mu' = e
      BY <2>3 DEF Control, Places, Holding
    <3>2. pc' = Wake(events', metrics', at)
      BY <2>1, <2>3
    <3> HIDE DEF at
    <3> QED
      BY <1>1, <2>1, <2>2, <2>3, <3>1, <3>2 DEF Control
  <2>4. CASE mu' = mu /\ (pc' = Wake(events, metrics', pc) \/ pc' = pc)
    <3>1. pc' = Wake(events', metrics', pc) \/ pc' = pc
      BY <2>1, <2>4
    <3> QED
      BY <1>1, <2>1, <2>2, <2>4, <3>1 DEF Control
  <2> QED
    BY <1>5, <2>3, <2>4 DEF MetricsSent
<1> QED
  BY <1>2, <1>3, <1>4, <1>5

(* What the goroutines know of each other stays true.                      *)
LEMMA NextControl == Control /\ [Next]_vars => Control'
<1> SUFFICES ASSUME Control, [Next]_vars PROVE Control'
  OBVIOUS
<1> USE CycleFacts
<1>1. ASSUME NEW d \in Data, ProcessTxnData(d) PROVE Control'
  BY <1>1 DEF ProcessTxnData, Control, ExitIsLast, EventsBeforeMetrics
<1>2. CASE ConcurrentMapWrites \/ CleanExitReturns
  BY <1>2 DEF ConcurrentMapWrites, CleanExitReturns, Control, ExitIsLast, EventsBeforeMetrics
<1>3. ASSUME NEW c \in Cycles, HarvestByType(c) PROVE Control'
  <2>1. /\ UNCHANGED <<mode, loop, metrics, mu>> /\ prompt' \in BOOLEAN
        /\ pc[c] = "idle"
        /\ events' = [events EXCEPT ![c] = "send"] \/ UNCHANGED events
        /\ \/ UNCHANGED pc
           \/ \E p \in {"payloads", "trylock"} : pc' = [pc EXCEPT ![c] = p]
    BY <1>3 DEF HarvestByType, Control
  <2>2. events' \in [All -> Payload] /\ \A e \in All : e # c => events'[e] = events[e]
    BY <2>1 DEF Control, Payload
  <2>3. /\ pc' \in [All -> Places]
        /\ \A e \in All : /\ pc'[e] \in Holding <=> pc[e] \in Holding
                          /\ pc'[e] = pc[e] \/ (e = c /\ pc'[e] # "final")
    BY <2>1 DEF Control, Places, Holding
  <2>4. ExitIsLast'
    BY <2>1, <2>3 DEF Control, ExitIsLast
  <2>5. EventsBeforeMetrics'
    BY <2>1, <2>2, <2>3 DEF Control, EventsBeforeMetrics
  <2> QED
    BY <2>1, <2>2, <2>3, <2>4, <2>5 DEF Control
<1>4. CASE CleanExit
  <2>1. /\ UNCHANGED <<mode, prompt, events, metrics, mu>> /\ loop = "run" /\ loop' = "quit"
        /\ pc' = [pc EXCEPT ![Exit] = "payloads"]
    BY <1>4 DEF CleanExit
  <2>2. /\ pc' \in [All -> Places]
        /\ \A e \in All : /\ pc'[e] \in Holding <=> pc[e] \in Holding
                          /\ pc'[e] = "final" => pc[e] = "final"
    BY <2>1 DEF Control, ExitIsLast, Places, Holding
  <2> QED
    BY <2>1, <2>2 DEF Control, ExitIsLast, EventsBeforeMetrics
<1>5. ASSUME NEW c \in All, CycleStep(c) PROVE Control'
  BY <1>5, CycleStepControl
<1>6. ASSUME NEW c \in All, EventsError(c) \/ MetricsError(c) \/ EventsSent(c) \/ MetricsSent(c)
      PROVE  Control'
  BY <1>6, PayloadControl
<1>7. CASE UNCHANGED vars
  BY <1>7 DEF vars, Control, ExitIsLast, EventsBeforeMetrics
<1> QED
  BY <1>1, <1>2, <1>3, <1>4, <1>5, <1>6, <1>7 DEF Next

-----------------------------------------------------------------------------
LEMMA InitData == Init => DataInv
  BY DEF Init, DataInv, DataTypes, OnePlace, StoredOnce

(* The processor hands its table to a cycle, or puts a datum into it that  *)
(* was never seen before.                                                  *)
LEMMA ProcessorData ==
    ASSUME Control, DataInv,
           \/ \E d \in Data : ProcessTxnData(d)
           \/ \E c \in Cycles : HarvestByType(c)
           \/ CleanExit
    PROVE  DataInv'
<1> USE CycleFacts
<1>1. ASSUME NEW d \in Data, ProcessTxnData(d) PROVE DataInv'
  <2>1. /\ arrived[d] = 0 /\ d \notin live
        /\ \A c \in All : d \notin table[c] /\ d \notin load[c]
    BY <1>1 DEF ProcessTxnData, Fresh
  <2>2. /\ UNCHANGED <<table, load, arrived, metrics>>
        /\ live' = live \cup {d} \/ live' = live
        /\ lost' = lost \cup {d} \/ lost' = lost
    BY <1>1 DEF ProcessTxnData
  <2>3. DataTypes'
    BY <2>2 DEF DataInv, DataTypes
  <2>4. OnePlace'
    BY <2>1, <2>2 DEF DataInv, OnePlace
  <2>5. StoredOnce'
    BY <2>1, <2>2 DEF DataInv, StoredOnce
  <2> QED
    BY <2>3, <2>4, <2>5 DEF DataInv
<1>2. ASSUME NEW c \in All, table' = [table EXCEPT ![c] = live], live' = {},
             UNCHANGED <<load, arrived, lost, metrics>>
      PROVE  DataInv'
  <2>1. DataTypes'
    BY <1>2 DEF DataInv, DataTypes
  <2>2. OnePlace'
    BY <1>2 DEF DataInv, DataTypes, OnePlace
  <2>3. StoredOnce'
    BY <1>2 DEF DataInv, DataTypes, StoredOnce
  <2> QED
    BY <2>1, <2>2, <2>3 DEF DataInv
<1>3. CASE UNCHANGED <<live, table, load, arrived, lost, metrics>>
  BY <1>3 DEF DataInv, DataTypes, OnePlace, StoredOnce
<1> QED
  BY <1>1, <1>2, <1>3 DEF HarvestByType, CleanExit

(* A cycle drops its table, or turns a table into a payload.               *)
LEMMA CycleStepData ==
    ASSUME Control, DataInv, NEW c \in All, CycleStep(c)
    PROVE  DataInv'
<1> USE CycleFacts
<1>1. CASE HarvestAll(c) \/ Wait(c)
  BY <1>1 DEF HarvestAll, Wait, data, DataInv, DataTypes, OnePlace, StoredOnce
<1>2. CASE TryLock(c) \/ WaitReturns(c)
  <2>1. /\ UNCHANGED <<live, load, arrived, metrics>>
        /\ table' = [table EXCEPT ![c] = {}] \/ UNCHANGED table
        /\ lost' = lost \cup table[c] \/ UNCHANGED lost
    BY <1>2 DEF TryLock, WaitReturns
  <2>2. DataTypes'
    BY <2>1 DEF DataInv, DataTypes
  <2>3. OnePlace'
    BY <2>1 DEF DataInv, DataTypes, OnePlace
  <2>4. StoredOnce'
    BY <2>1 DEF DataInv, DataTypes, StoredOnce
  <2> QED
    BY <2>2, <2>3, <2>4 DEF DataInv
<1>3. CASE FinalMetrics(c)
  <2>1. UNCHANGED <<arrived, lost>> /\ metrics' = [metrics EXCEPT ![c] = "send"]
    BY <1>3 DEF FinalMetrics
  <2>2. \A x \in All : x # c => metrics'[x] = metrics[x]
    BY <2>1 DEF Control
  <2>3. CASE load' = [load EXCEPT ![c] = live] /\ live' = {} /\ UNCHANGED table
    <3>1. DataTypes'
      BY <2>1, <2>3 DEF DataInv, DataTypes
    <3>2. OnePlace'
      BY <2>3 DEF DataInv, DataTypes, OnePlace
    <3>3. StoredOnce'
      BY <2>1, <2>2, <2>3 DEF DataInv, DataTypes, StoredOnce
    <3> QED
      BY <3>1, <3>2, <3>3 DEF DataInv
  <2>4. ASSUME NEW x \in All, load' = [load EXCEPT ![c] = table[x]],
               table' = [table EXCEPT ![x] = {}], UNCHANGED live
        PROVE  DataInv'
    <3>1. DataTypes'
      BY <2>1, <2>4 DEF DataInv, DataTypes
    <3>2. OnePlace'
      BY <2>4 DEF DataInv, DataTypes, OnePlace
    <3>3. StoredOnce'
      BY <2>1, <2>2, <2>4 DEF DataInv, DataTypes, StoredOnce
    <3> QED
      BY <3>1, <3>2, <3>3 DEF DataInv
  <2>5. Own(c) \in All
    BY DEF Own
  <2> QED
    BY <1>3, <2>3, <2>4, <2>5 DEF FinalMetrics
<1> QED
  BY <1>1, <1>2, <1>3 DEF CycleStep

(* A payload that was stored is gone or looks like a timeout; only what    *)
(* the collector refused for now goes back into the live table.            *)
LEMMA PayloadData ==
    ASSUME Control, DataInv, NEW c \in All, MetricsError(c) \/ MetricsSent(c)
    PROVE  DataInv'
<1> USE CycleFacts
<1>1. CASE MetricsError(c)
  <2>1. /\ UNCHANGED <<table, arrived>>
        /\ load' = [load EXCEPT ![c] = {}]
        /\ metrics' = [metrics EXCEPT ![c] = "none"]
        /\ \/ metrics[c] = "later" /\ live' = live \cup load[c] /\ UNCHANGED lost
           \/ lost' = lost \cup load[c] /\ UNCHANGED live
    BY <1>1 DEF MetricsError, ShouldSaveHarvestData
  <2>2. DataTypes'
    BY <2>1 DEF DataInv, DataTypes
  <2>3. OnePlace'
    BY <2>1 DEF DataInv, DataTypes, OnePlace
  <2>4. \A x \in All : x # c => metrics'[x] = metrics[x]
    BY <2>1 DEF Control
  <2>5. StoredOnce'
    BY <2>1, <2>4 DEF DataInv, DataTypes, StoredOnce
  <2> QED
    BY <2>2, <2>3, <2>5 DEF DataInv
<1>2. CASE MetricsSent(c)
  <2>1. metrics[c] = "send" /\ UNCHANGED <<live, table>>
    BY <1>2 DEF MetricsSent
  <2>2. \A d \in load[c] : arrived[d] = 0
    BY <2>1 DEF DataInv, DataTypes, StoredOnce
  <2>3. PICK x \in {"none"} \cup Errors :
            /\ metrics' = [metrics EXCEPT ![c] = x]
            /\ \/ /\ x = "none" /\ load' = [load EXCEPT ![c] = {}]
                  /\ \/ arrived' = Stored(load[c]) /\ UNCHANGED lost
                     \/ lost' = lost \cup load[c] /\ UNCHANGED arrived
               \/ /\ UNCHANGED <<load, lost>>
                  /\ \/ UNCHANGED arrived
                     \/ metrics'[c] = "timeout" /\ arrived' = Stored(load[c])
    BY <1>2 DEF MetricsSent
  <2>4. \A y \in All : metrics'[y] = IF y = c THEN x ELSE metrics[y]
    BY <2>3 DEF Control
  <2>5. arrived' = Stored(load[c]) => \A d \in Data : arrived'[d] = IF d \in load[c] THEN 1 ELSE arrived[d]
    BY <2>2 DEF Stored, DataInv, DataTypes
  <2>6. DataTypes'
    BY <2>1, <2>3 DEF DataInv, DataTypes, Stored
  <2>7. OnePlace'
    BY <2>1, <2>3 DEF DataInv, DataTypes, OnePlace
  <2>8. ASSUME NEW d \in Data
        PROVE  \/ arrived'[d] = 0
               \/ /\ arrived'[d] = 1
                  /\ d \notin live'
                  /\ \A y \in All : d \notin table'[y] /\ (d \in load'[y] => metrics'[y] = "timeout")
    <3>1. CASE d \in load[c]
      <4>1. arrived[d] = 0 /\ d \notin live
        BY <2>2, <3>1 DEF DataInv, OnePlace
      <4>2. \A y \in All : d \notin table[y] /\ (y # c => d \notin load[y])
        BY <3>1 DEF DataInv, OnePlace
      <4>3. CASE arrived'[d] = 1
        <5>1. x = "timeout" \/ load' = [load EXCEPT ![c] = {}]
          BY <2>3, <2>4, <4>1, <4>3
        <5>2. \A y \in All : d \in load'[y] => y = c /\ x = "timeout"
          BY <2>3, <4>2, <5>1 DEF DataInv, DataTypes
        <5> QED
          BY <2>1, <2>4, <4>1, <4>2, <4>3, <5>2
      <4> QED
        BY <2>3, <2>5, <3>1, <4>1, <4>3
    <3>2. CASE d \notin load[c]
      <4>1. arrived'[d] = arrived[d]
        BY <2>3, <2>5, <3>2
      <4>2. \A y \in All : d \in load'[y] => y # c /\ d \in load[y]
        BY <2>3, <3>2 DEF DataInv, DataTypes
      <4> QED
        BY <2>1, <2>4, <4>1, <4>2 DEF DataInv, StoredOnce
    <3> QED
      BY <3>1, <3>2
  <2> QED
    BY <2>6, <2>7, <2>8 DEF DataInv, StoredOnce
<1> QED
  BY <1>1, <1>2

LEMMA NextData == Control /\ DataInv /\ [Next]_vars => DataInv'
<1> SUFFICES ASSUME Control, DataInv, [Next]_vars PROVE DataInv'
  OBVIOUS
<1>1. CASE UNCHANGED <<metrics, data>>
  BY <1>1 DEF data, DataInv, DataTypes, OnePlace, StoredOnce
<1>2. ASSUME NEW c \in All, CycleStep(c) PROVE DataInv'
  BY <1>2, CycleStepData
<1>3. ASSUME NEW c \in All, MetricsError(c) \/ MetricsSent(c) PROVE DataInv'
  BY <1>3, PayloadData
<1>4. CASE ConcurrentMapWrites \/ CleanExitReturns \/ UNCHANGED vars
           \/ (\E c \in All : EventsError(c) \/ EventsSent(c))
  BY <1>1, <1>4 DEF ConcurrentMapWrites, CleanExitReturns, vars, data, EventsError, EventsSent
<1> QED
  BY <1>2, <1>3, <1>4, ProcessorData DEF Next

(* The invariant of overlapping harvest cycles.                            *)
THEOREM CyclesInvariant == Spec => []IInv
<1>1. Init => IInv
  BY InitControl, InitData DEF IInv
<1>2. IInv /\ [Next]_vars => IInv'
  BY NextControl, NextData DEF IInv
<1> QED
  BY <1>1, <1>2, PTL DEF Spec

(* However many cycles overlap and whatever requests fail, time out or     *)
(* race, harvestMetrics has the lock to itself, puts a cycle's metrics     *)
(* together after its events were answered, and no transaction's metrics   *)
(* are stored twice.                                                       *)
THEOREM CyclesStayOrdered == Spec => []CyclesAreOrdered
<1>1. IInv => CyclesAreOrdered
  <2> SUFFICES ASSUME IInv PROVE CyclesAreOrdered
    OBVIOUS
  <2>1. TypeOK
    BY DEF IInv, Control, DataInv, DataTypes, TypeOK, Places
  <2>2. NothingTwice
    BY DEF IInv, DataInv, StoredOnce, NothingTwice
  <2> QED
    BY <2>1, <2>2 DEF IInv, Control, CyclesAreOrdered
<1> QED
  BY <1>1, CyclesInvariant, PTL
===============================================================================
