--------------------------- MODULE HarvestTrigger ---------------------------
(***************************************************************************)
(* The goroutines behind one AppHarvest of the daemon: the tickers that    *)
(* start harvests, the goroutine that forwards their triggers to the       *)
(* processor, the broadcaster of a cancellation, and AppHarvest.Close.     *)
(* (daemon/internal/newrelic/harvest_trigger.go and app_harvest.go)        *)
(*                                                                         *)
(* Every channel here is unbuffered, so a send and its receive are one     *)
(* step of both goroutines.  Sending on a closed channel, and being        *)
(* blocked in a send when the channel is closed, panics and kills the      *)
(* daemon.                                                                 *)
(***************************************************************************)
EXTENDS Naturals

CONSTANT N     \* how many tickers customTriggerBuilder groups (6 in the code)

ASSUME NAssumption == N \in Nat \ {0}

Members == 1..N

VARIABLES
    grouped,     \* which trigger function getHarvestTrigger chose
    member,      \* where each triggerBuilder goroutine is
    bcast,       \* where the broadcasting goroutine is
    next,        \* the group member it is cancelling
    forwarder,   \* where the forwarding goroutine of NewAppHarvest is
    closer,      \* where AppHarvest.Close is; "idle" while the app is live
    processor,   \* where the processor is in its loop
    triggerOpen  \* whether the trigger channel is open

vars == <<grouped, member, bcast, next, forwarder, closer, processor, triggerOpen>>

(* The broadcaster only ever indexes members of its group.                 *)
TypeOK ==
    /\ grouped \in BOOLEAN
    /\ member \in [Members -> {"select", "sending", "confirming", "stopped"}]
    /\ bcast \in {"wait", "send", "await", "confirm", "done"}
    /\ next \in 1..(N + 1)
    /\ bcast \in {"send", "await"} => next \in Members
    /\ forwarder \in {"range", "sending", "exited"}
    /\ closer \in {"idle", "cancel", "confirm", "observer", "close", "done"}
    /\ processor \in {"loop", "harvest"}
    /\ triggerOpen \in BOOLEAN

(* NewAppHarvest starts the forwarder and the trigger function: one ticker *)
(* for all the data when the reply asks for the default period throughout  *)
(* (isHarvestAll), otherwise one ticker for each kind of data and the      *)
(* goroutine that broadcasts a cancellation to them.                       *)
Init ==
    /\ grouped \in BOOLEAN
    /\ member = [m \in Members |-> IF grouped \/ m = 1 THEN "select" ELSE "stopped"]
    /\ bcast = IF grouped THEN "wait" ELSE "done"
    /\ next = 1
    /\ forwarder = "range"
    /\ closer = "idle"
    /\ processor = "loop"
    /\ triggerOpen = TRUE

-----------------------------------------------------------------------------
(* The tickers.                                                            *)

(* The ticker of member m fires and the goroutine starts its send.         *)
Tick(m) ==
    /\ member[m] = "select"
    /\ member' = [member EXCEPT ![m] = "sending"]
    /\ UNCHANGED <<grouped, bcast, next, forwarder, closer, processor, triggerOpen>>

(* trigger <- t meets the range loop of the forwarder.                     *)
Trigger(m) ==
    /\ member[m] = "sending"
    /\ forwarder = "range"
    /\ triggerOpen
    /\ member' = [member EXCEPT ![m] = "select"]
    /\ forwarder' = "sending"
    /\ UNCHANGED <<grouped, bcast, next, closer, processor, triggerOpen>>

-----------------------------------------------------------------------------
(* The forwarder and the processor.                                        *)

(* ph <- event meets the processor's select.                               *)
Forward ==
    /\ forwarder = "sending"
    /\ processor = "loop"
    /\ forwarder' = "range"
    /\ processor' = "harvest"
    /\ UNCHANGED <<grouped, member, bcast, next, closer, triggerOpen>>

(* The range over a closed trigger channel ends.                           *)
ForwarderExit ==
    /\ forwarder = "range"
    /\ ~triggerOpen
    /\ forwarder' = "exited"
    /\ UNCHANGED <<grouped, member, bcast, next, closer, processor, triggerOpen>>

(* Mutant: the processor runs Close itself and waits for it.               *)
HarvestDoneAfterClose ==
    /\ processor = "harvest"
    /\ closer \in {"idle", "done"}
    /\ processor' = "loop"
    /\ UNCHANGED <<grouped, member, bcast, next, forwarder, closer, triggerOpen>>

(* The handler returns; the processor goes back to its select.             *)
HarvestDone ==
    /\ processor = "harvest"
    /\ processor' = "loop"
    /\ UNCHANGED <<grouped, member, bcast, next, forwarder, closer, triggerOpen>>

(* shutdownAppHarvest: Close runs in a goroutine of its own, so that the   *)
(* processor keeps receiving.  The harvest leaves p.harvests in the same   *)
(* step, which is why Close is started once.  It happens in doHarvest (an  *)
(* inactive application) and in processHarvestError.                       *)
Shutdown ==
    /\ processor \in {"loop", "harvest"}
    /\ closer = "idle"
    /\ closer' = "cancel"
    /\ processor' = "harvest"
    /\ UNCHANGED <<grouped, member, bcast, next, forwarder, triggerOpen>>

-----------------------------------------------------------------------------
(* The cancellation.                                                       *)

(* cancel <- true of Close, received by the broadcaster of a group or by   *)
(* the only ticker.                                                        *)
Cancel ==
    /\ closer = "cancel"
    /\ closer' = "confirm"
    /\ \/ /\ grouped
          /\ bcast = "wait"
          /\ bcast' = "send"
          /\ UNCHANGED member
       \/ /\ ~grouped
          /\ member[1] = "select"
          /\ member' = [member EXCEPT ![1] = "confirming"]
          /\ UNCHANGED bcast
    /\ UNCHANGED <<grouped, next, forwarder, processor, triggerOpen>>

(* c <- true of the broadcaster, received by the member it has come to.    *)
BroadcastSend ==
    /\ bcast = "send"
    /\ member[next] = "select"
    /\ member' = [member EXCEPT ![next] = "confirming"]
    /\ bcast' = "await"
    /\ UNCHANGED <<grouped, next, forwarder, closer, processor, triggerOpen>>

(* The member stops its ticker and confirms; the loop moves on.            *)
BroadcastConfirmed ==
    /\ bcast = "await"
    /\ member' = [member EXCEPT ![next] = "stopped"]
    /\ next' = next + 1
    /\ bcast' = IF next = N THEN "confirm" ELSE "send"
    /\ UNCHANGED <<grouped, forwarder, closer, processor, triggerOpen>>

(* Mutant: Close does not wait for the confirmation.                       *)
CloseUnconfirmed ==
    /\ closer = "confirm"
    /\ closer' = "observer"
    /\ UNCHANGED <<grouped, member, bcast, next, forwarder, processor, triggerOpen>>

(* <-ah.cancel of Close: the confirmation of the broadcaster, or of the    *)
(* only ticker.                                                            *)
CloseConfirmed ==
    /\ closer = "confirm"
    /\ closer' = "observer"
    /\ \/ /\ grouped
          /\ bcast = "confirm"
          /\ bcast' = "done"
          /\ UNCHANGED member
       \/ /\ ~grouped
          /\ member[1] = "confirming"
          /\ member' = [member EXCEPT ![1] = "stopped"]
          /\ UNCHANGED bcast
    /\ UNCHANGED <<grouped, next, forwarder, processor, triggerOpen>>

(* TraceObserver.Shutdown returns: done, or after 500 ms.                  *)
ObserverShutdown ==
    /\ closer = "observer"
    /\ closer' = "close"
    /\ UNCHANGED <<grouped, member, bcast, next, forwarder, processor, triggerOpen>>

(* close(ah.trigger); close(ah.cancel)                                     *)
CloseTrigger ==
    /\ closer = "close"
    /\ closer' = "done"
    /\ triggerOpen' = FALSE
    /\ UNCHANGED <<grouped, member, bcast, next, forwarder, processor>>

Close == Cancel \/ CloseConfirmed \/ ObserverShutdown \/ CloseTrigger
Broadcast == BroadcastSend \/ BroadcastConfirmed

Next ==
    \/ \E m \in Members : Tick(m) \/ Trigger(m)
    \/ Forward
    \/ ForwarderExit
    \/ HarvestDone
    \/ Shutdown
    \/ Close
    \/ Broadcast

(* Goroutines that can run do run.  A cancellation is offered to a select  *)
(* whose ticker may be ready too: Go chooses among ready cases at random,  *)
(* so a cancellation offered again and again is received (strong           *)
(* fairness).  The same holds for the senders that compete for the         *)
(* forwarder and for the processor's select.  Nothing makes a ticker tick  *)
(* or the processor shut the application down.                             *)
Fairness ==
    /\ \A m \in Members : SF_vars(Trigger(m))
    /\ SF_vars(Forward)
    /\ WF_vars(ForwarderExit)
    /\ WF_vars(HarvestDone)
    /\ SF_vars(Cancel)
    /\ SF_vars(BroadcastSend)
    /\ WF_vars(BroadcastConfirmed)
    /\ WF_vars(CloseConfirmed \/ ObserverShutdown \/ CloseTrigger)

Spec == Init /\ [][Next]_vars
FairSpec == Spec /\ Fairness

-----------------------------------------------------------------------------
(* Once Close has closed the trigger channel no ticker is sending on it or *)
(* can come to: a ticker that was still selecting could start a send at    *)
(* its next tick, which would panic and take the whole daemon down.  This  *)
(* is what the confirmation handshake on the cancel channel is for.        *)
NoSendOnClosedTrigger ==
    ~triggerOpen => \A m \in Members : member[m] = "stopped"

(* A Close that has begun ends, and the forwarding goroutine with it: an   *)
(* application that is shut down leaves no goroutine behind, and never     *)
(* leaves its tickers waiting on a processor that waits on them.           *)
CloseCompletes ==
    closer = "cancel" ~> (closer = "done" /\ forwarder = "exited")
=============================================================================
