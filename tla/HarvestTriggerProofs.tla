------------------------ MODULE HarvestTriggerProofs ------------------------
(* For every number of tickers: no ticker sends on a closed channel.       *)
EXTENDS HarvestTrigger, TLAPS

Stopped(m) == member[m] = "stopped"

(* The broadcaster has stopped exactly the members before next; a Close    *)
(* that was confirmed has no live ticker left.                             *)
Handshake ==
    /\ grouped => /\ \A m \in Members : m < next => Stopped(m)
                  /\ bcast = "wait" => next = 1
                  /\ bcast \in {"confirm", "done"} => next = N + 1
    /\ ~grouped => /\ bcast = "done"
                   /\ \A m \in Members : m # 1 => Stopped(m)
    /\ closer \in {"observer", "close", "done"} => \A m \in Members : Stopped(m)
    /\ ~triggerOpen => closer = "done"

IInv == TypeOK /\ Handshake

(* The handshake holds when NewAppHarvest has started its goroutines.      *)
LEMMA InitIInv == Init => IInv
  BY NAssumption DEF Init, IInv, TypeOK, Handshake, Members, Stopped

(* Every step of every goroutine keeps the handshake.                      *)
LEMMA NextIInv == IInv /\ [Next]_vars => IInv'
<1> SUFFICES ASSUME IInv, [Next]_vars PROVE IInv'
  OBVIOUS
<1> USE NAssumption DEF IInv, TypeOK, Handshake, Members, Stopped
<1>1. ASSUME NEW m \in Members, Tick(m) PROVE IInv'
  BY <1>1 DEF Tick
<1>2. ASSUME NEW m \in Members, Trigger(m) PROVE IInv'
  BY <1>2 DEF Trigger
<1>3. CASE Forward
  BY <1>3 DEF Forward
<1>4. CASE ForwarderExit
  BY <1>4 DEF ForwarderExit
<1>5. CASE HarvestDone
  BY <1>5 DEF HarvestDone
<1>6. CASE Shutdown
  BY <1>6 DEF Shutdown
<1>7. CASE Cancel
  BY <1>7 DEF Cancel
<1>8. CASE BroadcastSend
  BY <1>8 DEF BroadcastSend
<1>9. CASE BroadcastConfirmed
  BY <1>9 DEF BroadcastConfirmed
<1>10. CASE CloseConfirmed
  BY <1>10 DEF CloseConfirmed
<1>11. CASE ObserverShutdown
  BY <1>11 DEF ObserverShutdown
<1>12. CASE CloseTrigger
  BY <1>12 DEF CloseTrigger
<1>13. CASE UNCHANGED vars
  BY <1>13 DEF vars
<1> QED
  BY <1>1, <1>2, <1>3, <1>4, <1>5, <1>6, <1>7, <1>8, <1>9, <1>10, <1>11, <1>12, <1>13
     DEF Next, Close, Broadcast

(* Close (app_harvest.go) closes the trigger channel only when every       *)
(* ticker goroutine has stopped, whatever the number of tickers and        *)
(* however their ticks, the forwarder and the cancellation interleave.     *)
THEOREM NoSendOnClosed == Spec => []NoSendOnClosedTrigger
<1>1. IInv => NoSendOnClosedTrigger
  BY DEF IInv, Handshake, NoSendOnClosedTrigger, Stopped
<1> QED
  BY InitIInv, NextIInv, <1>1, PTL DEF Spec

(* The broadcaster never indexes beyond its group.                         *)
THEOREM TypeCorrect == Spec => []TypeOK
<1>1. IInv => TypeOK
  BY DEF IInv
<1> QED
  BY InitIInv, NextIInv, <1>1, PTL DEF Spec
=============================================================================
