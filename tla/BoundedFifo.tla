----------------------------- MODULE BoundedFifo -----------------------------
(***************************************************************************)
(* What a report queue of the RF transport promises: a first-in first-out  *)
(* buffer of at most Capacity reports that refuses, and does not damage    *)
(* anything, when it is full; every call answers whether it succeeded, and *)
(* a failed dequeue leaves the caller's buffer alone.                      *)
(* rf_queue.c is shown to implement this (RfQueue.tla).                    *)
(***************************************************************************)
EXTENDS Naturals, Sequences

CONSTANTS
    Report,      \* the reports that can be queued
    NoReport,    \* content of a caller's buffer before anything is dequeued
    Capacity     \* how many reports fit

VARIABLES
    fifo,        \* the queued reports, oldest first
    call,        \* the last call
    ret,         \* what it returned
    report       \* the buffer dequeue copies into

vars == <<fifo, call, ret, report>>

Init ==
    /\ fifo = << >>
    /\ call = "clear"
    /\ ret = TRUE
    /\ report = NoReport

Enqueue(r) ==
    /\ call' = "enqueue"
    /\ ret' = (Len(fifo) < Capacity)
    /\ fifo' = IF Len(fifo) < Capacity THEN Append(fifo, r) ELSE fifo
    /\ UNCHANGED report

Dequeue ==
    \/ /\ fifo = << >>
       /\ call' = "dequeue"
       /\ ret' = FALSE
       /\ UNCHANGED <<fifo, report>>
    \/ /\ fifo # << >>
       /\ call' = "dequeue"
       /\ ret' = TRUE
       /\ report' = Head(fifo)
       /\ fifo' = Tail(fifo)

Clear ==
    /\ fifo' = << >>
    /\ call' = "clear"
    /\ ret' = TRUE
    /\ UNCHANGED report

Next == (\E r \in Report : Enqueue(r)) \/ Dequeue \/ Clear

Spec == Init /\ [][Next]_vars
=============================================================================
