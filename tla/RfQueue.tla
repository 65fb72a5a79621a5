------------------------------- MODULE RfQueue -------------------------------
(***************************************************************************)
(* rf_queue.c: the circular buffer of reports that wait for the radio      *)
(* link.  The head is the next slot to write, the tail the next to read;   *)
(* head = tail is "empty", so one slot always stays unused.                *)
(***************************************************************************)
EXTENDS Integers, Sequences

CONSTANTS
    RF_QUEUE_SIZE,   \* number of slots (64 in the firmware)
    Report,          \* report_buffer_t values
    NoReport         \* the all-zero report_buffer_t

\* A head of 0..SIZE-1 has to fit in the uint8_t that holds it.
ASSUME QueueSizeAssumption == RF_QUEUE_SIZE \in 1..256

VARIABLES
    queue_head,      \* next slot to write
    queue_tail,      \* next slot to read
    buffer_queue,    \* the slots
    call,            \* the last call
    ret,             \* what it returned
    report           \* the caller's buffer that dequeue fills

ringVars == <<queue_head, queue_tail, buffer_queue, call, ret, report>>

Slot == 0 .. RF_QUEUE_SIZE - 1

RingInit ==
    /\ queue_head = 0
    /\ queue_tail = 0
    /\ buffer_queue = [i \in Slot |-> NoReport]
    /\ call = "clear"
    /\ ret = TRUE
    /\ report = NoReport

-----------------------------------------------------------------------------
(* Operations *)

rf_queue_is_empty == queue_head = queue_tail

\* Slip the property must expose: the full test is forgotten.
EnqueueOverwrites(r) ==
    /\ buffer_queue' = [buffer_queue EXCEPT ![queue_head] = r]
    /\ queue_head' = (queue_head + 1) % RF_QUEUE_SIZE
    /\ call' = "enqueue"
    /\ ret' = TRUE
    /\ UNCHANGED <<queue_tail, report>>

\* The index after i, going round (the sum is an int, so it does not wrap at 256).
NextSlot(i) == (i + 1) % RF_QUEUE_SIZE

clear_rf_queue ==
    /\ queue_head' = 0
    /\ queue_tail' = 0
    /\ call' = "clear"
    /\ ret' = TRUE
    /\ UNCHANGED <<buffer_queue, report>>

enqueue_rf_report(r) ==
    \/ /\ NextSlot(queue_head) = queue_tail
       /\ call' = "enqueue"
       /\ ret' = FALSE
       /\ UNCHANGED <<queue_head, queue_tail, buffer_queue, report>>
    \/ /\ NextSlot(queue_head) # queue_tail
       /\ buffer_queue' = [buffer_queue EXCEPT ![queue_head] = r]
       /\ queue_head' = NextSlot(queue_head)
       /\ call' = "enqueue"
       /\ ret' = TRUE
       /\ UNCHANGED <<queue_tail, report>>

dequeue_rf_report ==
    \/ /\ rf_queue_is_empty
       /\ call' = "dequeue"
       /\ ret' = FALSE
       /\ UNCHANGED <<queue_head, queue_tail, buffer_queue, report>>
    \/ /\ ~rf_queue_is_empty
       /\ report' = buffer_queue[queue_tail]
       /\ queue_tail' = NextSlot(queue_tail)
       /\ call' = "dequeue"
       /\ ret' = TRUE
       /\ UNCHANGED <<queue_head, buffer_queue>>

RingNext ==
    \/ \E r \in Report : enqueue_rf_report(r)
    \/ dequeue_rf_report
    \/ clear_rf_queue

RingSpec == RingInit /\ [][RingNext]_ringVars

-----------------------------------------------------------------------------
(* Properties *)

\* rf_queue.c:23-26: the indices stay inside buffer_queue, so no call reads
\* or writes outside the array.
RingTypeOK ==
    /\ queue_head \in Slot
    /\ queue_tail \in Slot
    /\ buffer_queue \in [Slot -> Report \cup {NoReport}]
    /\ call \in {"enqueue", "dequeue", "clear"}
    /\ ret \in BOOLEAN
    /\ report \in Report \cup {NoReport}

\* Number of reports waiting.
Pending == IF queue_head >= queue_tail
           THEN queue_head - queue_tail
           ELSE queue_head - queue_tail + RF_QUEUE_SIZE

\* The slot that holds the i-th oldest waiting report.
SlotOf(i) == IF queue_tail + i - 1 < RF_QUEUE_SIZE
             THEN queue_tail + i - 1
             ELSE queue_tail + i - 1 - RF_QUEUE_SIZE

\* The abstract queue that the head, the tail and the slots stand for.
Contents == [i \in 1..Pending |-> buffer_queue[SlotOf(i)]]

Fifo == INSTANCE BoundedFifo
        WITH fifo <- Contents, Capacity <- RF_QUEUE_SIZE - 1

\* rf_queue.c:37-54: whatever mix of enqueue, dequeue and clear the driver
\* makes, through any number of turns round the array, the circular buffer
\* behaves as a bounded FIFO: nothing is lost but by clear, nothing is
\* duplicated or reordered, a full queue refuses and a dequeue returns the
\* oldest report.
ImplementsFifo == Fifo!Spec
=============================================================================
