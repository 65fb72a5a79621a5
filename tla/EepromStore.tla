----------------------------- MODULE EepromStore -----------------------------
(***************************************************************************)
(* What the emulated EEPROM promises its callers: a memory of bytes with a *)
(* copy in RAM.  Reads are served from the copy.  A write changes the copy *)
(* at once and has reached the memory when the next write begins; power    *)
(* may fail at any time, and each byte then has its old or its new value.  *)
(* The exception is a wipe (a compaction or an erasure): from its first    *)
(* step to its last the memory may lose anything.                          *)
(***************************************************************************)
EXTENDS Naturals

CONSTANTS Addr, Byte     \* addresses of the bytes; their values, 0 among them

VARIABLES
    mem,      \* what a restart would find
    cache,    \* what a read returns
    on,       \* power
    safe      \* nothing is, or may have been, lost

vars == <<mem, cache, on, safe>>

Zero == [a \in Addr |-> 0]

Init ==
    /\ mem = Zero
    /\ cache = Zero
    /\ on = FALSE
    /\ safe = TRUE

\* One call changes one byte, or the two bytes of a word.
Write(w) ==
    /\ on
    /\ safe => mem = cache
    /\ cache' \in [Addr -> Byte]
    /\ \A a \in Addr : a \div 2 # w => cache'[a] = cache[a]
    /\ UNCHANGED <<mem, on, safe>>

\* Bytes of the write under way reach the memory.
Persist ==
    /\ on
    /\ \A a \in Addr : mem'[a] \in {mem[a], cache[a]}
    /\ UNCHANGED <<cache, on, safe>>

\* A step of a wipe, or of anything later that a wipe cut off has spoilt.
Wipe ==
    /\ on
    /\ safe' = FALSE
    /\ mem' \in [Addr -> Byte]
    /\ UNCHANGED <<cache, on>>

\* The end of a wipe: all of the copy has been written, or everything is zero.
WipeDone ==
    /\ on
    /\ ~safe
    /\ safe' = TRUE
    /\ mem' = cache'
    /\ cache' \in {cache, Zero}
    /\ UNCHANGED on

PowerLoss ==
    /\ on
    /\ on' = FALSE
    /\ cache' = Zero
    /\ UNCHANGED <<mem, safe>>

Boot ==
    /\ ~on
    /\ on' = TRUE
    /\ cache' = mem
    /\ UNCHANGED <<mem, safe>>

Next ==
    \/ \E a \in Addr : Write(a \div 2)
    \/ Persist
    \/ Wipe
    \/ WipeDone
    \/ PowerLoss
    \/ Boot

Spec == Init /\ [][Next]_vars
=============================================================================
