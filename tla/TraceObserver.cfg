\* A queue of two batches and a bit, and batches of 1 or 2 spans.
CONSTANTS
    QueueSize = 5
    MaxBatch = 2
    Modulus = 24
SPECIFICATION FairSpec
INVARIANTS
    EnqueueNeverBlocks
    NoSendOnClosedMessages
PROPERTY QueueBatchReturns
\* A trace observer that was shut down does nothing more.
CHECK_DEADLOCK FALSE
