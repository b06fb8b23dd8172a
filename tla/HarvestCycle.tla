----------------------------- MODULE HarvestCycle -----------------------------
(***************************************************************************)
(* The harvest cycles of one agent run (processor.go: harvestByType,       *)
(* harvestAll, harvestMetrics, harvestPayload, CleanExit) and the          *)
(* MetricsController they share: its WaitGroup counts the payloads being   *)
(* sent, its mutex is held by the one harvestMetrics that waits for them.  *)
(*                                                                         *)
(* A cycle sends its events as one payload and, when the payloads have     *)
(* been answered, its metrics as another.  The goroutine of a payload that *)
(* failed reports to the processor on an unbuffered channel.  The data     *)
(* that are followed are the metrics of single transactions.               *)
(***************************************************************************)
EXTENDS Naturals, FiniteSets

CONSTANTS
    Cycles,   \* harvest cycles going on at the same time
    Exit,     \* the cycle that CleanExit runs itself, with Blocking set
    None,
    Data      \* transactions whose metrics are followed

ASSUME CycleAssumption == Exit \notin Cycles /\ None \notin Cycles \cup {Exit}
All == Cycles \cup {Exit}

VARIABLES
    mode,       \* how the data are harvested
    loop,       \* Processor.Run, then CleanExit
    pc,         \* where each cycle is
    events,     \* each cycle's payload of events
    metrics,    \* each cycle's payload of metrics
    mu,         \* the cycle that holds MetricsController.mu
    live,       \* the data in AppHarvest.Harvest.Metrics
    table,      \* the data in the metric table of each cycle's own Harvest
    load,       \* the data in each metrics payload
    arrived,    \* how often the collector has stored each datum
    lost,
    prompt      \* history: payloads were answered before the next harvest so far

vars == <<mode, prompt, loop, pc, events, metrics, mu, live, table, load, arrived, lost>>
data == <<live, table, load, arrived, lost>>

(* How a request fails, for the goroutine to report: with a status code    *)
(* that asks for the data later, with another one, or without an answer,   *)
(* when the collector may have stored the data all the same.               *)
Errors == {"later", "refused", "timeout"}
Payload == {"none", "send"} \cup Errors

(* Places in harvestMetrics where a cycle holds the lock.                  *)
Holding == {"locked", "wait", "woken", "final", "inline"}

(* harvestByType by type or, with the default report periods, all data at  *)
(* once; an OTLP exporter comes with the default periods (localConnect).   *)
Modes == {"all", "type", "otlp"}
ByType == mode = "type"
OTLP == mode = "otlp"

TypeOK ==
    /\ mode \in Modes /\ prompt \in BOOLEAN
    /\ loop \in {"run", "quit", "returned", "crashed"}
    /\ pc \in [All -> {"idle", "payloads", "sending", "trylock", "done"} \cup Holding]
    /\ events \in [All -> Payload] /\ metrics \in [All -> Payload]
    /\ mu \in All \cup {None}
    /\ \A c \in All : pc[c] \in Holding <=> mu = c
    /\ live \subseteq Data /\ lost \subseteq Data /\ arrived \in [Data -> Nat]
    /\ table \in [All -> SUBSET Data] /\ load \in [All -> SUBSET Data]

Init ==
    /\ mode \in Modes
    /\ prompt = TRUE
    /\ loop = "run"
    /\ pc = [c \in All |-> "idle"]
    /\ events = [c \in All |-> "none"]
    /\ metrics = [c \in All |-> "none"]
    /\ mu = None
    /\ live = {}
    /\ table = [c \in All |-> {}]
    /\ load = [c \in All |-> {}]
    /\ arrived = [d \in Data |-> 0]
    /\ lost = {}

(* The counter of the WaitGroup is zero, given the payloads.               *)
AllDone(e, m) == \A c \in All : e[c] = "none" /\ m[c] = "none"

(* Payloads have become e and m and the cycles' places would be at: Done   *)
(* wakes the waiter when the counter reaches zero.                         *)
Wake(e, m, at) ==
    [c \in All |-> IF at[c] = "wait" /\ AllDone(e, m) THEN "woken" ELSE at[c]]

(* Where a cycle goes when it has ended.                                   *)
Ended(c) == IF c = Exit THEN "done" ELSE "idle"

(* The processor works on the live table while harvestMetrics, on its own  *)
(* goroutine, adds to it and replaces it.                                  *)
Race == \E c \in Cycles : ByType /\ pc[c] = "final"

(* The data not met so far.                                                *)
Fresh == {d \in Data : arrived[d] = 0}
             \ (live \cup lost \cup UNION {table[c] \cup load[c] : c \in All})

(* The collector stores the data in S.                                     *)
Stored(S) == [d \in Data |-> arrived[d] + IF d \in S THEN 1 ELSE 0]

-----------------------------------------------------------------------------
(* The processor.                                                          *)

(* processTxnData: metrics go into the live table, or get lost in a race.  *)
ProcessTxnData(d) ==
    /\ loop = "run"
    /\ d \in Fresh
    /\ \/ live' = live \cup {d} /\ UNCHANGED lost
       \/ Race /\ lost' = lost \cup {d} /\ UNCHANGED live
    /\ UNCHANGED <<mode, prompt, loop, pc, events, metrics, mu, table, load, arrived>>

(* The other outcome: the runtime ends the process for concurrent writes   *)
(* to a map.                                                               *)
ConcurrentMapWrites ==
    /\ loop = "run"
    /\ Race
    /\ loop' = "crashed"
    /\ UNCHANGED <<mode, prompt, pc, events, metrics, mu, data>>

(* doHarvest and harvestByType.  HarvestAll gives the cycle the Harvest,   *)
(* for a goroutine to send; otherwise the processor starts the payloads,   *)
(* and for the default data harvestMetrics, on the live Harvest.           *)
HarvestByType(c) ==
    /\ loop = "run"
    /\ pc[c] = "idle" /\ events[c] = "none" /\ metrics[c] = "none"
    /\ prompt' = (prompt /\ AllDone(events, metrics))
    /\ \/ /\ ~ByType
          /\ table' = [table EXCEPT ![c] = live]
          /\ live' = {}
          /\ pc' = [pc EXCEPT ![c] = "payloads"]
          /\ UNCHANGED events
       \/ /\ ByType
          /\ \/ /\ events' = [events EXCEPT ![c] = "send"]
                /\ \/ UNCHANGED pc
                   \/ pc' = [pc EXCEPT ![c] = "trylock"]
             \/ pc' = [pc EXCEPT ![c] = "trylock"] /\ UNCHANGED events
          /\ UNCHANGED <<live, table>>
    /\ UNCHANGED <<mode, loop, metrics, mu, load, arrived, lost>>

(* <-harvestErrorChannel with the failure of c's events, after which the   *)
(* payload's goroutine ends.                                               *)
EventsError(c) ==
    /\ loop = "run"
    /\ events[c] \in Errors
    /\ events' = [events EXCEPT ![c] = "none"]
    /\ pc' = Wake(events', metrics, pc)
    /\ UNCHANGED <<mode, prompt, loop, metrics, mu, data>>

(* Whether the data are kept for the next harvest.                         *)
ShouldSaveHarvestData(answer) == answer = "later"

(* The same with its metrics: they go back into the live table if the      *)
(* response says so and the limit on attempts is not reached.              *)
MetricsError(c) ==
    /\ loop = "run"
    /\ metrics[c] \in Errors
    /\ \/ /\ ShouldSaveHarvestData(metrics[c])
          /\ live' = live \cup load[c]
          /\ UNCHANGED lost
       \/ lost' = lost \cup load[c] /\ UNCHANGED live
    /\ load' = [load EXCEPT ![c] = {}]
    /\ metrics' = [metrics EXCEPT ![c] = "none"]
    /\ pc' = Wake(events, metrics', pc)
    /\ UNCHANGED <<mode, prompt, loop, events, mu, table, arrived>>

(* CleanExit: the loop ends and the last harvest is run on this goroutine. *)
CleanExit ==
    /\ loop = "run"
    /\ loop' = "quit"
    /\ pc' = [pc EXCEPT ![Exit] = "payloads"]
    /\ table' = [table EXCEPT ![Exit] = live]
    /\ live' = {}
    /\ UNCHANGED <<mode, prompt, events, metrics, mu, load, arrived, lost>>

CleanExitReturns ==
    /\ loop = "quit"
    /\ pc[Exit] = "done"
    /\ loop' = "returned"
    /\ UNCHANGED <<mode, prompt, pc, events, metrics, mu, data>>

-----------------------------------------------------------------------------
(* The goroutines of a cycle.                                              *)
Running == loop \in {"run", "quit"}

(* harvestAll: considerHarvestPayload of the events, if there are any.  A  *)
(* blocking one is sent here; the exporter has goroutines all the same.    *)
HarvestAll(c) ==
    /\ Running
    /\ pc[c] = "payloads"
    /\ \/ /\ events' = [events EXCEPT ![c] = "send"]
          /\ pc' = [pc EXCEPT ![c] = IF c = Exit /\ ~OTLP THEN "sending" ELSE "trylock"]
       \/ pc' = [pc EXCEPT ![c] = "trylock"] /\ UNCHANGED events
    /\ UNCHANGED <<mode, prompt, loop, metrics, mu, data>>

(* harvestPayload of the events: Execute returns.  Without an error the    *)
(* goroutine ends; with one it reports, unless the exporter just logs it.  *)
EventsSent(c) ==
    /\ Running
    /\ events[c] = "send"
    /\ \/ /\ events' = [events EXCEPT ![c] = "none"]
          /\ pc' = Wake(events', metrics,
                        IF pc[c] = "sending" THEN [pc EXCEPT ![c] = "trylock"] ELSE pc)
       \/ /\ ~OTLP
          /\ events' = [events EXCEPT ![c] = "refused"]
          /\ UNCHANGED pc
    /\ UNCHANGED <<mode, prompt, loop, metrics, mu, data>>

(* A cycle by type works on the Harvest that was live when it began, which *)
(* is the one the last cycle gets if there is no later one.                *)
Shared(c) == ByType /\ c = Exit

(* harvestMetrics: mu.TryLock().  When that fails the cycle's own Harvest  *)
(* is dropped with its metrics, unless the cycle that holds the lock has   *)
(* the same one; the live one has lost nothing.                            *)
TryLock(c) ==
    /\ Running
    /\ pc[c] = "trylock"
    /\ \/ /\ mu = None
          /\ mu' = c
          /\ pc' = [pc EXCEPT ![c] = "locked"]
          /\ UNCHANGED <<table, lost>>
       \/ /\ mu # None
          /\ pc' = [pc EXCEPT ![c] = Ended(c)]
          /\ \/ Shared(c) /\ UNCHANGED <<table, lost>>
             \/ /\ ~Shared(c)
                /\ lost' = lost \cup table[c]
                /\ table' = [table EXCEPT ![c] = {}]
          /\ UNCHANGED mu
    /\ UNCHANGED <<mode, prompt, loop, events, metrics, live, load, arrived>>

(* Mutant: wg.Wait() is left out.                                          *)
NoWait(c) ==
    /\ Running
    /\ pc[c] = "locked"
    /\ pc' = [pc EXCEPT ![c] = "final"]
    /\ UNCHANGED <<mode, prompt, loop, events, metrics, mu, data>>

(* wg.Wait()                                                               *)
Wait(c) ==
    /\ Running
    /\ pc[c] = "locked"
    /\ pc' = [pc EXCEPT ![c] = IF AllDone(events, metrics) THEN "final" ELSE "wait"]
    /\ UNCHANGED <<mode, prompt, loop, events, metrics, mu, data>>

(* Wait returns, or panics because the WaitGroup has been used again since *)
(* it was woken; the panic is recovered from and the cycle dropped.        *)
WaitReturns(c) ==
    /\ Running
    /\ pc[c] = "woken"
    /\ \/ /\ AllDone(events, metrics)
          /\ pc' = [pc EXCEPT ![c] = "final"]
          /\ UNCHANGED <<mu, table, lost>>
       \/ /\ ~AllDone(events, metrics)
          /\ mu' = None
          /\ pc' = [pc EXCEPT ![c] = Ended(c)]
          /\ lost' = lost \cup table[c]
          /\ table' = [table EXCEPT ![c] = {}]
    /\ UNCHANGED <<mode, prompt, loop, events, metrics, live, load, arrived>>

(* The cycle to whose table the Harvest of cycle c belongs, once the loop  *)
(* has ended.                                                              *)
Own(c) == IF ByType THEN Exit ELSE c

(* Mutant: the lock is not released.                                       *)
FinalMetricsLocked(c) ==
    /\ Running
    /\ pc[c] = "final"
    /\ load' = [load EXCEPT ![c] = table[c]]
    /\ table' = [table EXCEPT ![c] = {}]
    /\ metrics' = [metrics EXCEPT ![c] = "send"]
    /\ pc' = [pc EXCEPT ![c] = Ended(c)]
    /\ UNCHANGED <<mode, prompt, loop, events, mu, live, arrived, lost>>

(* The metrics of the cycle's Harvest, or of the live one, become a        *)
(* payload and the table is replaced.  Only a blocking cycle waits for it. *)
FinalMetrics(c) ==
    /\ Running
    /\ pc[c] = "final"
    /\ \/ /\ ByType /\ loop = "run"
          /\ load' = [load EXCEPT ![c] = live]
          /\ live' = {}
          /\ UNCHANGED table
       \/ /\ ~ByType \/ loop = "quit"
          /\ load' = [load EXCEPT ![c] = table[Own(c)]]
          /\ table' = [table EXCEPT ![Own(c)] = {}]
          /\ UNCHANGED live
    /\ metrics' = [metrics EXCEPT ![c] = "send"]
    /\ \/ c = Exit /\ ~OTLP /\ pc' = [pc EXCEPT ![c] = "inline"] /\ UNCHANGED mu
       \/ (c # Exit \/ OTLP) /\ pc' = [pc EXCEPT ![c] = Ended(c)] /\ mu' = None
    /\ UNCHANGED <<mode, prompt, loop, events, arrived, lost>>

(* harvestPayload of the metrics: Execute returns.  The exporter's error   *)
(* is logged, the collector's is for the processor.                        *)
MetricsSent(c) ==
    /\ Running
    /\ metrics[c] = "send"
    /\ \/ /\ \/ arrived' = Stored(load[c]) /\ UNCHANGED lost
             \/ OTLP /\ lost' = lost \cup load[c] /\ UNCHANGED arrived
          /\ load' = [load EXCEPT ![c] = {}]
          /\ metrics' = [metrics EXCEPT ![c] = "none"]
          /\ \/ /\ pc[c] = "inline"
                /\ mu' = None
                /\ pc' = Wake(events, metrics', [pc EXCEPT ![c] = "done"])
             \/ /\ pc[c] # "inline"
                /\ pc' = Wake(events, metrics', pc)
                /\ UNCHANGED mu
       \/ /\ ~OTLP
          /\ \E e \in Errors : metrics' = [metrics EXCEPT ![c] = e]
          /\ \/ UNCHANGED arrived
             \/ metrics'[c] = "timeout" /\ arrived' = Stored(load[c])
          /\ UNCHANGED <<pc, mu, load, lost>>
    /\ UNCHANGED <<mode, prompt, loop, events, live, table>>

-----------------------------------------------------------------------------
CycleStep(c) == HarvestAll(c) \/ TryLock(c) \/ Wait(c) \/ WaitReturns(c) \/ FinalMetrics(c)

Next ==
    \/ \E d \in Data : ProcessTxnData(d)
    \/ ConcurrentMapWrites
    \/ \E c \in Cycles : HarvestByType(c)
    \/ \E c \in All : EventsError(c) \/ MetricsError(c)
    \/ CleanExit \/ CleanExitReturns
    \/ \E c \in All : CycleStep(c) \/ EventsSent(c) \/ MetricsSent(c)

(* Goroutines run on, every request is answered or times out, and the      *)
(* processor's loop takes what is offered to it.                           *)
Fairness ==
    /\ \A c \in All : /\ WF_vars(CycleStep(c))
                      /\ WF_vars(EventsSent(c)) /\ WF_vars(MetricsSent(c))
                      /\ WF_vars(EventsError(c) \/ MetricsError(c))
    /\ WF_vars(CleanExitReturns)

Spec == Init /\ [][Next]_vars
FairSpec == Spec /\ Fairness

-----------------------------------------------------------------------------
(* Whatever cycles, failures and races overlap, the collector stores the   *)
(* metrics of a transaction at most once.                                  *)
NothingTwice == \A d \in Data : arrived[d] <= 1

(* The metrics of a cycle are put together when its own events have been   *)
(* answered: they report how many of the events were sent.                 *)
EventsBeforeMetrics == \A c \in All : pc[c] = "final" => events[c] = "none"

(* While payloads are answered within the harvest period the lock comes    *)
(* free again; otherwise every later cycle would be skipped.               *)
LockIsReleased == mu # None ~> (mu = None \/ loop # "run" \/ ~prompt)

-----------------------------------------------------------------------------
(* CleanExit returns "when all harvests complete", as its comment says:    *)
(* requests do complete, one way or the other.                             *)
ExitReturns == loop = "quit" ~> loop = "returned"

(* Cycles that overlap send nothing twice and in the right order           *)
(* (doHarvest, harvestAll, MetricsController).                             *)
CyclesAreOrdered == TypeOK /\ NothingTwice /\ EventsBeforeMetrics
=============================================================================
