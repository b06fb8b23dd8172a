------------------------- MODULE TraceObserverProofs -------------------------
(* For every queue that holds at least two batches: the queue never holds  *)
(* more spans than it was configured for, and QueueBatch never blocks the  *)
(* processor, although the capacity counter lags behind the worker.        *)
EXTENDS TraceObserver, TLAPS

(* What the default configuration guarantees (100000 spans, batches of at  *)
(* most 1000) and the smallest allowed one does not.                       *)
Roomy == 2 * MaxBatch <= QueueSize

(* Spans the counter does not have back yet.                               *)
Outstanding == messages.spans + inflight + sent.spans

(* What the counter would be if it were an integer.                        *)
Capacity == QueueSize - Outstanding + (IF proc = "account" THEN batch ELSE 0)

(* The worker holds spans only between receiving a batch and reporting it. *)
WorkerHolds == worker \in {"send", "report"} <=> inflight > 0

(* A batch is queued only while the channel is open, and the channel is    *)
(* closed only for good.                                                   *)
QueueingIsOpen ==
    /\ proc # "idle" => open /\ closer = "idle" /\ batch >= 1
    /\ ~open => initiated
    /\ closer # "idle" => initiated

(* The counter is right modulo 2^64, ...                                   *)
CounterModulo == open => remaining \in {Capacity, Capacity + Modulus}

(* ... it has lost track of at most one queue and one batch, ...           *)
Lag == /\ Outstanding <= 2 * QueueSize
       /\ proc \in {"flush", "enqueue"} => Outstanding <= QueueSize

(* ... and a batch is put into the queue only where there is room for it.  *)
RoomForBatch == proc = "enqueue" => messages.spans + inflight + batch <= QueueSize

IInv ==
    /\ TypeOK
    /\ WorkerHolds
    /\ QueueingIsOpen
    /\ CounterModulo
    /\ Lag
    /\ RoomForBatch
    /\ QueueBounded

(* An empty channel holds nothing.                                         *)
LEMMA EmptyFacts ==
    EmptyChannel \in Channel /\ EmptyChannel.spans = 0 /\ EmptyChannel.batches = 0
  BY DEF Channel, EmptyChannel

(* A batch put into a channel adds its spans and itself.                   *)
LEMMA PutFacts ==
    ASSUME NEW ch \in Channel, NEW n \in Nat \ {0}, ch.batches <= ch.spans
    PROVE  /\ Put(ch, n) \in Channel
           /\ Put(ch, n).batches <= Put(ch, n).spans
           /\ Put(ch, n).spans = ch.spans + n
  BY DEF Channel, Put

(* A new trace observer is idle and its queue empty.                       *)
LEMMA InitIInv == Init => IInv
<1> SUFFICES ASSUME Init PROVE IInv
  OBVIOUS
<1>1. /\ messages \in Channel /\ messages.spans = 0 /\ messages.batches = 0
      /\ sent \in Channel /\ sent.spans = 0 /\ sent.batches = 0
  BY EmptyFacts DEF Init
<1>2. /\ open = TRUE /\ remaining = QueueSize /\ proc = "idle" /\ batch = 0 /\ inflight = 0
      /\ worker \in {"absent", "connect"} /\ status = "ok" /\ closer = "idle"
      /\ initiated = FALSE /\ completed = FALSE
  BY DEF Init
<1>a. open \in BOOLEAN /\ initiated \in BOOLEAN /\ completed \in BOOLEAN
  BY <1>2, Zenon
<1>b. remaining \in 0..(Modulus - 1) /\ batch \in 0..MaxBatch /\ inflight \in 0..MaxBatch
  BY <1>2, SizeAssumption
<1>3. TypeOK
  BY <1>1, <1>2, <1>a, <1>b DEF TypeOK, Statuses
<1>4. WorkerHolds /\ QueueingIsOpen /\ RoomForBatch
  BY <1>2 DEF WorkerHolds, QueueingIsOpen, RoomForBatch
<1>5. CounterModulo /\ Lag /\ QueueBounded
  BY <1>1, <1>2, SizeAssumption DEF CounterModulo, Lag, QueueBounded, Capacity, Outstanding
<1> QED
  BY <1>3, <1>4, <1>5 DEF IInv

(* A batch that comes out of a channel holds at least one span and leaves  *)
(* at least one for each batch behind it.                                  *)
LEMMA SizesBounds ==
    ASSUME NEW ch \in Channel, NEW n \in Sizes(ch)
    PROVE  /\ n \in 1..MaxBatch /\ n <= ch.spans /\ ch.batches >= 1
           /\ Take(ch, n) \in Channel
           /\ Take(ch, n).batches <= Take(ch, n).spans
           /\ Take(ch, n).spans = ch.spans - n
  BY SizeAssumption DEF Channel, Sizes, Take

LEMMA QueueingIInv == Roomy /\ IInv /\ Queueing => IInv'
<1> SUFFICES ASSUME Roomy, IInv, Queueing PROVE IInv'
  OBVIOUS
<1> USE SizeAssumption DEF IInv, TypeOK, Channel
<1>1. ASSUME NEW n \in 1..MaxBatch, QueueBatch(n) PROVE IInv'
  BY <1>1 DEF QueueBatch, WorkerHolds, QueueingIsOpen, CounterModulo, Lag, RoomForBatch,
     QueueBounded, Capacity, Outstanding
<1>2. CASE QueueBatchClosing
  <2>1. /\ messages' \in [spans : Nat, batches : Nat]
        /\ messages'.spans = 0 /\ messages'.batches = 0
    BY <1>2, EmptyFacts DEF QueueBatchClosing
  <2>2. /\ proc = "idle" /\ initiated /\ open' = FALSE
        /\ UNCHANGED <<sent, remaining, proc, batch, worker, inflight, status, initiated,
                       completed, closer>>
    BY <1>2 DEF QueueBatchClosing
  <2>3. open' \in BOOLEAN
    BY <2>2, Zenon
  <2>4. TypeOK'
    BY <2>1, <2>2, <2>3
  <2>5. WorkerHolds' /\ QueueingIsOpen' /\ CounterModulo'
    BY <2>2 DEF WorkerHolds, QueueingIsOpen, CounterModulo
  <2>6. Lag' /\ RoomForBatch' /\ QueueBounded'
    BY <2>1, <2>2 DEF Lag, RoomForBatch, QueueBounded, Outstanding
  <2> QED
    BY <2>4, <2>5, <2>6
<1>3. CASE GetRemainingQueueCapacity
  <2>1. /\ sent' = EmptyChannel /\ remaining' = Wrap(remaining + sent.spans)
        /\ proc' = IF remaining' < batch THEN "flush" ELSE "enqueue"
        /\ UNCHANGED <<messages, open, batch, worker, inflight, status, initiated,
                       completed, closer>>
        /\ proc = "drain" /\ sent'.spans = 0 /\ sent'.batches = 0
        /\ sent' \in [spans : Nat, batches : Nat]
    BY <1>3, EmptyFacts DEF GetRemainingQueueCapacity
  <2>2. open
    BY <2>1 DEF QueueingIsOpen
  <2>3. Capacity = QueueSize - messages.spans - inflight - sent.spans
    BY <2>1 DEF Capacity, Outstanding
  <2>4. remaining \in {Capacity, Capacity + Modulus}
    BY <2>2 DEF CounterModulo
  <2>5. remaining' = QueueSize - messages.spans - inflight
    BY <2>1, <2>3, <2>4 DEF Wrap, QueueBounded, Lag, Outstanding
  <2>6. TypeOK'
    BY <2>1, <2>5 DEF QueueBounded
  <2>7. CounterModulo' /\ Lag'
    BY <2>1, <2>5 DEF CounterModulo, Lag, Capacity, Outstanding, QueueBounded
  <2>8. RoomForBatch'
    BY <2>1, <2>5 DEF RoomForBatch
  <2>9. WorkerHolds' /\ QueueingIsOpen' /\ QueueBounded'
    BY <2>1 DEF WorkerHolds, QueueingIsOpen, QueueBounded
  <2> QED
    BY <2>6, <2>7, <2>8, <2>9
<1>4. CASE EmptyQueue
  <2>1. /\ proc = "flush" /\ proc' = "enqueue"
        /\ remaining' = Wrap(remaining + messages.spans) /\ messages' = EmptyChannel
        /\ UNCHANGED <<open, sent, batch, worker, inflight, status, initiated,
                       completed, closer>>
    BY <1>4 DEF EmptyQueue
  <2>a. /\ messages' \in [spans : Nat, batches : Nat]
        /\ messages'.spans = 0 /\ messages'.batches = 0
    BY <2>1, EmptyFacts
  <2>2. open /\ Outstanding <= QueueSize
    BY <2>1 DEF QueueingIsOpen, Lag
  <2>3. remaining \in {QueueSize - Outstanding, QueueSize - Outstanding + Modulus}
    BY <2>1, <2>2 DEF CounterModulo, Capacity, Outstanding
  <2>4. remaining' = QueueSize - inflight - sent.spans
    BY <2>1, <2>2, <2>3 DEF Wrap, Outstanding
  <2>b. TypeOK'
    BY <2>1, <2>a, <2>2, <2>4 DEF Outstanding
  <2>5. CounterModulo' /\ Lag'
    BY <2>1, <2>a, <2>2, <2>4 DEF CounterModulo, Lag, Capacity, Outstanding
  <2>6. RoomForBatch' /\ QueueBounded'
    BY <2>1, <2>a DEF RoomForBatch, QueueBounded, Roomy
  <2>7. WorkerHolds' /\ QueueingIsOpen'
    BY <2>1 DEF WorkerHolds, QueueingIsOpen
  <2> QED
    BY <2>b, <2>5, <2>6, <2>7
<1>5. CASE Enqueue
  BY <1>5 DEF Enqueue, Put, WorkerHolds, QueueingIsOpen, CounterModulo, Lag, RoomForBatch,
     QueueBounded, Capacity, Outstanding
<1>6. CASE Account
  <2>1. /\ proc = "account" /\ proc' = "idle" /\ remaining' = Wrap(remaining - batch)
        /\ UNCHANGED <<messages, open, sent, batch, worker, inflight, status, initiated,
                       completed, closer>>
    BY <1>6 DEF Account
  <2>2. remaining \in {QueueSize - Outstanding + batch, QueueSize - Outstanding + batch + Modulus}
    BY <2>1 DEF CounterModulo, Capacity, QueueingIsOpen
  <2>3. /\ remaining' \in {QueueSize - Outstanding, QueueSize - Outstanding + Modulus}
        /\ remaining' \in 0..(Modulus - 1)
    BY <2>1, <2>2 DEF Wrap, Lag, Outstanding
  <2> QED
    BY <2>1, <2>3 DEF WorkerHolds, QueueingIsOpen, CounterModulo, Lag, RoomForBatch,
       QueueBounded, Capacity, Outstanding
<1> QED
  BY <1>1, <1>2, <1>3, <1>4, <1>5, <1>6 DEF Queueing

LEMMA StreamingIInv == IInv /\ Streaming => IInv'
<1> SUFFICES ASSUME IInv, Streaming PROVE IInv'
  OBVIOUS
<1> USE SizeAssumption DEF IInv, TypeOK
<1>1. ASSUME NEW n \in Sizes(messages), messages' = Take(messages, n), inflight' = n,
             worker = "select", worker' = "send",
             UNCHANGED <<open, sent, remaining, proc, batch, status, initiated, completed, closer>>
      PROVE  IInv'
  <2>1. /\ n \in 1..MaxBatch /\ messages' \in Channel /\ messages'.batches <= messages'.spans
        /\ messages'.spans = messages.spans - n /\ inflight = 0
    BY <1>1, SizesBounds DEF WorkerHolds
  <2>2. messages'.spans + inflight' = messages.spans + inflight
    BY <1>1, <2>1 DEF Channel
  <2>3. Outstanding' = Outstanding
    BY <1>1, <2>2 DEF Outstanding
  <2>4. TypeOK'
    BY <1>1, <2>1
  <2>5. CounterModulo' /\ Lag' /\ RoomForBatch' /\ QueueBounded'
    BY <1>1, <2>2, <2>3 DEF CounterModulo, Lag, RoomForBatch, QueueBounded, Capacity
  <2>6. WorkerHolds' /\ QueueingIsOpen'
    BY <1>1, <2>1 DEF WorkerHolds, QueueingIsOpen
  <2> QED
    BY <2>4, <2>5, <2>6
<1>2. CASE ReceiveBatch
  BY <1>1, <1>2 DEF ReceiveBatch
<1>3. CASE Report
  <2>1. /\ worker = "report" /\ sent' = Put(sent, inflight) /\ inflight' = 0
        /\ worker' \in {"select", "return"}
        /\ UNCHANGED <<messages, open, remaining, proc, batch, status, initiated, completed,
                       closer>>
    BY <1>3 DEF Report
  <2>2. inflight \in Nat \ {0}
    BY <2>1 DEF WorkerHolds
  <2>3. /\ sent' \in Channel /\ sent'.batches <= sent'.spans
        /\ sent'.spans = sent.spans + inflight
    BY <2>1, <2>2, PutFacts
  <2>4. Outstanding' = Outstanding
    BY <2>1, <2>3 DEF Outstanding, Channel
  <2>5. TypeOK'
    BY <2>1, <2>3
  <2>6. WorkerHolds' /\ QueueingIsOpen' /\ CounterModulo' /\ Lag'
    BY <2>1, <2>4 DEF WorkerHolds, QueueingIsOpen, CounterModulo, Lag, Capacity
  <2>7. RoomForBatch' /\ QueueBounded'
    BY <2>1 DEF RoomForBatch, QueueBounded, Channel
  <2> QED
    BY <2>5, <2>6, <2>7
<1>4. ASSUME UNCHANGED <<messages, open, sent, remaining, proc, batch, inflight, closer>>,
             TypeOK', WorkerHolds', initiated => initiated'
      PROVE  IInv'
  BY <1>4 DEF QueueingIsOpen, CounterModulo, Lag, RoomForBatch, QueueBounded, Capacity,
     Outstanding
<1>5. CASE Connect
  BY <1>4, <1>5 DEF Connect, WorkerHolds, Statuses
<1>6. CASE ReceiveNil
  BY <1>4, <1>6 DEF ReceiveNil, WorkerHolds
<1>7. CASE SendReturns
  BY <1>4, <1>7 DEF SendReturns, WorkerHolds
<1>8. CASE ResponseError
  BY <1>4, <1>8 DEF ResponseError, WorkerHolds, Statuses
<1>9. CASE ShutdownSeen
  BY <1>4, <1>9 DEF ShutdownSeen, WorkerHolds, Statuses
<1>10. CASE Return
  BY <1>4, <1>10 DEF Return, WorkerHolds
<1>11. CASE BackoffOver
  BY <1>4, <1>11 DEF BackoffOver, WorkerHolds
<1>12. CASE CompleteShutdown
  BY <1>4, <1>12 DEF CompleteShutdown, WorkerHolds
<1> QED
  BY <1>2, <1>3, <1>5, <1>6, <1>7, <1>8, <1>9, <1>10, <1>11, <1>12 DEF Streaming

LEMMA ShutdownIInv == IInv /\ Shutdown => IInv'
<1> SUFFICES ASSUME IInv, Shutdown PROVE IInv'
  OBVIOUS
<1> USE SizeAssumption DEF IInv, TypeOK, Channel, WorkerHolds, QueueingIsOpen, CounterModulo,
        Lag, RoomForBatch, QueueBounded, Capacity, Outstanding
<1>1. CASE InitShutdown
  BY <1>1 DEF InitShutdown
<1>2. CASE ShutdownWaited
  BY <1>2 DEF ShutdownWaited
<1>3. CASE CloseMessages
  <2>1. /\ messages' \in [spans : Nat, batches : Nat]
        /\ messages'.spans = 0 /\ messages'.batches = 0
    BY <1>3, EmptyFacts DEF CloseMessages
  <2>2. /\ closer = "close" /\ closer' = "done" /\ open' = FALSE
        /\ UNCHANGED <<sent, remaining, proc, batch, worker, inflight, status, initiated,
                       completed>>
    BY <1>3 DEF CloseMessages
  <2>3. open' \in BOOLEAN
    BY <2>2, Zenon
  <2>4. TypeOK'
    BY <2>1, <2>2, <2>3
  <2>5. WorkerHolds' /\ QueueingIsOpen' /\ CounterModulo'
    BY <2>2
  <2>6. Lag' /\ RoomForBatch' /\ QueueBounded'
    BY <2>1, <2>2
  <2> QED
    BY <2>4, <2>5, <2>6
<1> QED
  BY <1>1, <1>2, <1>3 DEF Shutdown

(* The accounting of the queue: the counter is right modulo 2^64 and a     *)
(* batch is only put where there is room for it.                           *)
THEOREM QueueAccounting == Roomy => (Spec => []IInv)
<1> SUFFICES ASSUME Roomy PROVE Spec => []IInv
  OBVIOUS
<1>1. IInv /\ UNCHANGED vars => IInv'
  BY DEF IInv, TypeOK, WorkerHolds, QueueingIsOpen, CounterModulo, Lag, RoomForBatch,
     QueueBounded, Capacity, Outstanding, vars
<1>2. IInv /\ [Next]_vars => IInv'
  BY <1>1, QueueingIInv, StreamingIInv, ShutdownIInv DEF Next
<1> QED
  BY InitIInv, <1>2, PTL DEF Spec

(* At most QueueSize spans wait to be transmitted.                         *)
THEOREM QueueIsBounded == Roomy => (Spec => []QueueBounded)
<1> SUFFICES ASSUME Roomy PROVE Spec => []QueueBounded
  OBVIOUS
<1>1. IInv => QueueBounded
  BY DEF IInv
<1> QED
  BY QueueAccounting, <1>1, PTL

(* QueueBatch never waits for the worker, so a slow trace observer never   *)
(* holds up the processor.                                                 *)
THEOREM ProcessorNeverBlocks == Roomy => (Spec => []EnqueueNeverBlocks)
<1> SUFFICES ASSUME Roomy PROVE Spec => []EnqueueNeverBlocks
  OBVIOUS
<1>1. IInv => EnqueueNeverBlocks
  BY SizeAssumption DEF IInv, TypeOK, Channel, RoomForBatch, QueueingIsOpen, EnqueueNeverBlocks
<1> QED
  BY QueueAccounting, <1>1, PTL

(* QueueBatch and closeMessages are kept apart for a queue of any size,    *)
(* full or not: whoever closes the channel has first made the processor    *)
(* give up the run or was the processor itself, and initiateShutdown,      *)
(* which is closed by then, turns every later QueueBatch away.             *)
THEOREM QueueBatchFindsItOpen == Spec => []NoSendOnClosedMessages
<1> DEFINE Apart == /\ proc # "idle" => open /\ closer = "idle"
                    /\ ~open \/ closer # "idle" => initiated
<1>1. Init => Apart
  BY DEF Init
<1>2. Apart /\ [Next]_vars => Apart'
  <2> SUFFICES ASSUME Apart, [Next]_vars PROVE Apart'
    OBVIOUS
  <2>1. CASE Queueing
    BY <2>1 DEF Queueing, QueueBatch, QueueBatchClosing, GetRemainingQueueCapacity, EmptyQueue,
       Enqueue, Account
  <2>2. CASE Streaming
    BY <2>2 DEF Streaming, Connect, ReceiveBatch, ReceiveNil, SendReturns, Report, ResponseError,
       ShutdownSeen, Return, BackoffOver, CompleteShutdown
  <2>3. CASE Shutdown
    BY <2>3 DEF Shutdown, InitShutdown, ShutdownWaited, CloseMessages
  <2>4. CASE UNCHANGED vars
    BY <2>4 DEF vars
  <2> QED
    BY <2>1, <2>2, <2>3, <2>4 DEF Next
<1>3. Apart => NoSendOnClosedMessages
  BY DEF NoSendOnClosedMessages
<1> HIDE DEF Apart
<1> QED
  BY <1>1, <1>2, <1>3, PTL DEF Spec
=============================================================================
