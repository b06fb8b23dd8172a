---------------------------- MODULE TraceObserver ----------------------------
(***************************************************************************)
(* The trace observer of one agent run (infinite_tracing/trace_observer.go)*)
(* : the queue of span batches between the processor and the goroutine     *)
(* that streams them to the endpoint, the capacity counter that only the   *)
(* processor touches, and Shutdown, which AppHarvest.Close runs in a third *)
(* goroutine once the processor has let go of the run.                     *)
(*                                                                         *)
(* A channel of batches is abstracted to how many batches and how many     *)
(* spans it holds: which batch comes out next is left open, subject to     *)
(* every batch holding at least one span.                                  *)
(***************************************************************************)
EXTENDS Integers

CONSTANTS
    QueueSize,   \* Config.QueueSize: spans, and the capacity of both channels
    MaxBatch,    \* the most spans an agent puts into a batch
    Modulus      \* 2^64: the capacity counter is a uint64

ASSUME SizeAssumption ==
    /\ QueueSize \in Nat \ {0} /\ MaxBatch \in Nat \ {0} /\ Modulus \in Nat
    \* nr_span_queue_size_mh keeps the queue from being smaller than a batch
    /\ MaxBatch <= QueueSize
    /\ 4 * QueueSize < Modulus

VARIABLES
    messages,    \* the span batch queue: [spans, batches]
    open,        \* whether the messages channel is open
    sent,        \* messagesSent: the counts the worker has reported back
    remaining,   \* messagesRemainingCapacity
    proc,        \* where the processor is in QueueBatch
    batch,       \* the span count of the batch being queued
    worker,      \* where the streaming goroutine is
    inflight,    \* spans of the batch the worker holds
    status,      \* the status doStreaming is about to return
    initiated,   \* whether initiateShutdown is closed
    completed,   \* whether shutdownComplete is closed
    closer       \* where Shutdown is

vars == <<messages, open, sent, remaining, proc, batch, worker, inflight, status,
          initiated, completed, closer>>

Statuses == {"ok", "shutdown", "restart", "reconnect", "immediate"}
Channel == [spans : Nat, batches : Nat]
EmptyChannel == [spans |-> 0, batches |-> 0]

TypeOK ==
    /\ messages \in Channel /\ sent \in Channel
    /\ messages.batches <= messages.spans /\ sent.batches <= sent.spans
    /\ open \in BOOLEAN /\ initiated \in BOOLEAN /\ completed \in BOOLEAN
    /\ remaining \in 0..(Modulus - 1)
    /\ proc \in {"idle", "drain", "flush", "enqueue", "account"}
    /\ batch \in 0..MaxBatch
    /\ worker \in {"absent", "connect", "select", "send", "report", "return",
                   "backoff", "completing", "exited", "panicked"}
    /\ inflight \in 0..MaxBatch
    /\ status \in Statuses
    /\ closer \in {"idle", "wait", "close", "done"}

(* uint64 arithmetic on the sum or difference of two uint64s.              *)
Wrap(x) == IF x < 0 THEN x + Modulus ELSE IF x >= Modulus THEN x - Modulus ELSE x

Put(ch, n) == [spans |-> ch.spans + n, batches |-> ch.batches + 1]

(* The batches that may come out of a channel, by their size.              *)
Sizes(ch) == {n \in 1..MaxBatch : ch.batches > 0 /\ n + ch.batches - 1 <= ch.spans
                                  /\ (ch.batches = 1 => n = ch.spans)}
Take(ch, n) == [spans |-> ch.spans - n, batches |-> ch.batches - 1]

(* NewTraceObserver: without a sender there is no worker.                  *)
Init ==
    /\ messages = EmptyChannel
    /\ open = TRUE
    /\ sent = EmptyChannel
    /\ remaining = QueueSize
    /\ proc = "idle"
    /\ batch = 0
    /\ worker \in {"absent", "connect"}
    /\ inflight = 0
    /\ status = "ok"
    /\ initiated = FALSE
    /\ completed = FALSE
    /\ closer = "idle"

-----------------------------------------------------------------------------
(* QueueBatch, on the processor's goroutine.                               *)

(* The processor only queues batches of a run that is in p.harvests, so    *)
(* never once Close has been started.                                      *)
QueueBatch(n) ==
    /\ proc = "idle"
    /\ closer = "idle"
    /\ ~initiated
    /\ proc' = "drain"
    /\ batch' = n
    /\ UNCHANGED <<messages, open, sent, remaining, worker, inflight, status,
                   initiated, completed, closer>>

(* QueueBatch when the worker has initiated a shutdown but not yet         *)
(* completed it: closeMessages closes the channel and drains it.           *)
QueueBatchClosing ==
    /\ proc = "idle"
    /\ closer = "idle"
    /\ initiated /\ ~completed
    /\ open
    /\ open' = FALSE
    /\ messages' = EmptyChannel
    /\ UNCHANGED <<sent, remaining, proc, batch, worker, inflight, status,
                   initiated, completed, closer>>

(* Mutant: no flush, the sender is left to catch up.                       *)
GetRemainingNoFlush ==
    /\ proc = "drain"
    /\ remaining' = Wrap(remaining + sent.spans)
    /\ sent' = EmptyChannel
    /\ proc' = "enqueue"
    /\ UNCHANGED <<messages, open, batch, worker, inflight, status,
                   initiated, completed, closer>>

(* getRemainingQueueCapacity takes in what the worker has reported, and    *)
(* QueueBatch decides whether to flush.                                    *)
GetRemainingQueueCapacity ==
    /\ proc = "drain"
    /\ remaining' = Wrap(remaining + sent.spans)
    /\ sent' = EmptyChannel
    /\ proc' = IF remaining' < batch THEN "flush" ELSE "enqueue"
    /\ UNCHANGED <<messages, open, batch, worker, inflight, status,
                   initiated, completed, closer>>

(* emptyQueue drops every batch the worker has not taken.                  *)
EmptyQueue ==
    /\ proc = "flush"
    /\ remaining' = Wrap(remaining + messages.spans)
    /\ messages' = EmptyChannel
    /\ proc' = "enqueue"
    /\ UNCHANGED <<open, sent, batch, worker, inflight, status,
                   initiated, completed, closer>>

(* to.messages <- b: blocks the processor while the channel is full.       *)
Enqueue ==
    /\ proc = "enqueue"
    /\ messages.batches < QueueSize
    /\ messages' = Put(messages, batch)
    /\ proc' = "account"
    /\ UNCHANGED <<open, sent, remaining, batch, worker, inflight, status,
                   initiated, completed, closer>>

(* to.messagesRemainingCapacity -= count                                   *)
Account ==
    /\ proc = "account"
    /\ remaining' = Wrap(remaining - batch)
    /\ proc' = "idle"
    /\ UNCHANGED <<messages, open, sent, batch, worker, inflight, status,
                   initiated, completed, closer>>

-----------------------------------------------------------------------------
(* The worker: doStreaming, and the loop around it.                        *)

(* sender.connect succeeds, or doStreaming returns its status.             *)
Connect ==
    /\ worker = "connect"
    /\ \/ worker' = "select" /\ UNCHANGED status
       \/ worker' = "return" /\ status' \in Statuses \ {"ok"}
    /\ UNCHANGED <<messages, open, sent, remaining, proc, batch, inflight,
                   initiated, completed, closer>>

(* The select takes a batch from the queue.                                *)
ReceiveBatch ==
    /\ worker = "select"
    /\ \E n \in Sizes(messages) :
          /\ messages' = Take(messages, n)
          /\ inflight' = n
    /\ worker' = "send"
    /\ UNCHANGED <<open, sent, remaining, proc, batch, status, initiated, completed, closer>>

(* The select receives from the closed and empty channel: nil, which       *)
(* msg.count then dereferences.                                            *)
ReceiveNil ==
    /\ worker = "select"
    /\ ~open /\ messages.batches = 0
    /\ worker' = "panicked"
    /\ UNCHANGED <<messages, open, sent, remaining, proc, batch, inflight, status,
                   initiated, completed, closer>>

(* sender.send returns, with an error or without.                          *)
SendReturns ==
    /\ worker = "send"
    /\ status' \in Statuses
    /\ worker' = "report"
    /\ UNCHANGED <<messages, open, sent, remaining, proc, batch, inflight,
                   initiated, completed, closer>>

(* to.messagesSent <- msg.count, after which an error ends doStreaming.    *)
Report ==
    /\ worker = "report"
    /\ sent.batches < QueueSize
    /\ sent' = Put(sent, inflight)
    /\ inflight' = 0
    /\ worker' = IF status = "ok" THEN "select" ELSE "return"
    /\ UNCHANGED <<messages, open, remaining, proc, batch, status,
                   initiated, completed, closer>>

(* The receiving goroutine of the sender has reported an error: one that   *)
(* is not final comes as statusOk, which ends doStreaming all the same.    *)
ResponseError ==
    /\ worker = "select"
    /\ status' \in {"ok", "shutdown", "reconnect"}
    /\ worker' = "return"
    /\ UNCHANGED <<messages, open, sent, remaining, proc, batch, inflight,
                   initiated, completed, closer>>

(* <-to.initiateShutdown                                                   *)
ShutdownSeen ==
    /\ worker = "select"
    /\ initiated
    /\ status' = "shutdown"
    /\ worker' = "return"
    /\ UNCHANGED <<messages, open, sent, remaining, proc, batch, inflight,
                   initiated, completed, closer>>

(* The worker's loop handles the status of doStreaming.  After a           *)
(* statusReconnect a sender that cannot be cloned ends the loop.           *)
Return ==
    /\ worker = "return"
    /\ \/ /\ status = "shutdown"
          /\ initiated' = TRUE
          /\ worker' = "completing"
       \/ /\ status = "restart"
          /\ worker' = "backoff"
          /\ UNCHANGED initiated
       \/ /\ status = "reconnect"
          /\ worker' \in {"connect", "completing"}
          /\ UNCHANGED initiated
       \/ /\ status \in {"ok", "immediate"}
          /\ worker' = "connect"
          /\ UNCHANGED initiated
    /\ UNCHANGED <<messages, open, sent, remaining, proc, batch, inflight, status,
                   completed, closer>>

(* time.Sleep(recordSpanBackoff) is over.                                  *)
BackoffOver ==
    /\ worker = "backoff"
    /\ worker' = "connect"
    /\ UNCHANGED <<messages, open, sent, remaining, proc, batch, inflight, status,
                   initiated, completed, closer>>

(* completeShutdown, and the sender is shut down.                          *)
CompleteShutdown ==
    /\ worker = "completing"
    /\ completed' = TRUE
    /\ worker' = "exited"
    /\ UNCHANGED <<messages, open, sent, remaining, proc, batch, inflight, status,
                   initiated, closer>>

-----------------------------------------------------------------------------
(* Shutdown(500ms), run by AppHarvest.Close after the processor has        *)
(* removed the run (so not in the middle of a QueueBatch).                 *)

(* Mutant: Close is started while the processor may be queueing a batch.   *)
InitShutdownAnytime ==
    /\ closer = "idle"
    /\ closer' = "wait"
    /\ initiated' = TRUE
    /\ UNCHANGED <<messages, open, sent, remaining, proc, batch, worker, inflight, status,
                   completed>>

InitShutdown ==
    /\ closer = "idle"
    /\ proc = "idle"
    /\ closer' = "wait"
    /\ initiated' = TRUE
    /\ UNCHANGED <<messages, open, sent, remaining, proc, batch, worker, inflight, status,
                   completed>>

(* The shutdown is complete, or the timeout was hit: 500 ms are enough for *)
(* the worker unless it is blocked or asleep.                              *)
ShutdownWaited ==
    /\ closer = "wait"
    /\ completed \/ worker \in {"absent", "connect", "send", "report", "backoff"}
    /\ closer' = "close"
    /\ UNCHANGED <<messages, open, sent, remaining, proc, batch, worker, inflight, status,
                   initiated, completed>>

(* closeMessages closes the channel and drains it.                         *)
CloseMessages ==
    /\ closer = "close"
    /\ closer' = "done"
    /\ open' = FALSE
    /\ messages' = EmptyChannel
    /\ UNCHANGED <<sent, remaining, proc, batch, worker, inflight, status,
                   initiated, completed>>

-----------------------------------------------------------------------------
Queueing ==
    \/ \E n \in 1..MaxBatch : QueueBatch(n)
    \/ QueueBatchClosing \/ GetRemainingQueueCapacity \/ EmptyQueue \/ Enqueue \/ Account

Streaming ==
    \/ Connect \/ ReceiveBatch \/ ReceiveNil \/ SendReturns \/ Report \/ ResponseError
    \/ ShutdownSeen \/ Return \/ BackoffOver \/ CompleteShutdown

Shutdown == InitShutdown \/ ShutdownWaited \/ CloseMessages

Next == Queueing \/ Streaming \/ Shutdown

(* Every goroutine runs on; the network answers each call, with success or *)
(* an error, but owes no success.  A closed initiateShutdown is always     *)
(* ready, and a select that is entered again and again chooses it in the   *)
(* end.                                                                    *)
Fairness ==
    /\ WF_vars(GetRemainingQueueCapacity \/ EmptyQueue \/ Enqueue \/ Account)
    /\ WF_vars(Connect) /\ WF_vars(SendReturns) /\ WF_vars(Report)
    /\ WF_vars(Return \/ BackoffOver \/ CompleteShutdown)
    /\ SF_vars(ShutdownSeen)
    /\ WF_vars(ShutdownWaited \/ CloseMessages)

Spec == Init /\ [][Next]_vars
FairSpec == Spec /\ Fairness

-----------------------------------------------------------------------------
(* At most QueueSize spans are waiting to be transmitted, the batch in the *)
(* worker's hands included, although the counter only learns of a sent     *)
(* batch at the next QueueBatch and may wrap around in between.            *)
QueueBounded == messages.spans + inflight <= QueueSize

(* The processor is never blocked by a full queue: while it waits, no      *)
(* application of the daemon is served.                                    *)
EnqueueNeverBlocks == proc = "enqueue" => messages.batches < QueueSize

(* QueueBatch never sends on the closed channel: Shutdown and QueueBatch   *)
(* run on different goroutines and only the order in which the processor   *)
(* gives up a run keeps them apart.                                        *)
NoSendOnClosedMessages == proc = "enqueue" => open

(* A QueueBatch that has begun returns.                                    *)
QueueBatchReturns == proc # "idle" ~> proc = "idle"
=============================================================================
