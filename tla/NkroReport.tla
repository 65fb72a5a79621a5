----------------------------- MODULE NkroReport ------------------------------
(***************************************************************************)
(* rf_driver.c, uart_auto_nkey_send: how an n-key-rollover report is split *)
(* for the radio.  The RF module takes two kinds of keyboard reports: a    *)
(* byte report with the modifiers and room for a few key codes, and a bit  *)
(* report with one bit per key.  A key that goes down takes the first free *)
(* byte slot and overflows into the bits; a key that goes up is removed    *)
(* from wherever it is found.  This module has the operators; NkroSplit    *)
(* runs the loop step by step and RfReport calls it as a whole.            *)
(***************************************************************************)
EXTENDS Integers, FiniteSetsExt, Functions

CONSTANTS
    NUM_BYTE_SLOTS,   \* key codes in a byte report (6: bytes 2..7)
    NUM_KEYS,         \* key codes of the bit report (119)
    Mods              \* values of the modifier byte, 0 among them

ASSUME ReportAssumption ==
    /\ NUM_BYTE_SLOTS \in Nat
    /\ NUM_KEYS \in Nat
    /\ 0 \in Mods

Key == 1 .. NUM_KEYS
NoKey == 0
ByteSlot == 1 .. NUM_BYTE_SLOTS

-----------------------------------------------------------------------------
(* The static buffers bytekb_report_buf (mods, slots) and bitkb_report_buf *)
(* (bits); due stands for the flags f_byte_send and f_bit_send that say    *)
(* which reports have to go out.                                           *)

EmptySplit ==
    [mods |-> 0, slots |-> [i \in ByteSlot |-> NoKey], bits |-> {},
     due |-> {}]

\* A slot, or the bits, get a new value, and their report becomes due.
PutSlot(s, i, k) ==
    [mods |-> s.mods, slots |-> [s.slots EXCEPT ![i] = k], bits |-> s.bits,
     due |-> s.due \cup {"byte"}]

PutBits(s, bits) ==
    [mods |-> s.mods, slots |-> s.slots, bits |-> bits, due |-> s.due \cup {"bit"}]

SlotsHolding(s, k) == {i \in ByteSlot : s.slots[i] = k}

\* Slips the properties must expose: a release does not make the byte report due; the
\* search of a released key stops one slot early; a pressed key always gets its
\* bit too; it takes the last slot when none is free, whose key moves to the bits.
DelKeyUnflagged(s, k) ==
    IF SlotsHolding(s, k) # {}
    THEN [s EXCEPT !.slots[Min(SlotsHolding(s, k))] = NoKey]
    ELSE PutBits(s, s.bits \ {k})

DelKeyMissesLastSlot(s, k) ==
    IF SlotsHolding(s, k) \ {NUM_BYTE_SLOTS} # {}
    THEN PutSlot(s, Min(SlotsHolding(s, k)), NoKey)
    ELSE PutBits(s, s.bits \ {k})

AddKeyTwice(s, k) ==
    IF SlotsHolding(s, NoKey) # {}
    THEN [PutSlot(s, Min(SlotsHolding(s, NoKey)), k) EXCEPT !.bits = @ \cup {k}]
    ELSE PutBits(s, s.bits \cup {k})

AddKeyEvicts(s, k) ==
    IF SlotsHolding(s, NoKey) # {}
    THEN PutSlot(s, Min(SlotsHolding(s, NoKey)), k)
    ELSE PutBits(PutSlot(s, NUM_BYTE_SLOTS, k), s.bits \cup {s.slots[NUM_BYTE_SLOTS]})

\* A key goes down: the first free slot, else its bit.
AddKey(s, k) ==
    IF SlotsHolding(s, NoKey) # {}
    THEN PutSlot(s, Min(SlotsHolding(s, NoKey)), k)
    ELSE PutBits(s, s.bits \cup {k})

\* A key goes up: the first slot that holds it, else its bit.
DelKey(s, k) ==
    IF SlotsHolding(s, k) # {}
    THEN PutSlot(s, Min(SlotsHolding(s, k)), NoKey)
    ELSE PutBits(s, s.bits \ {k})

\* One key code of the loop: nothing unless its bit changed.
KeyStep(s, k, pre, now) ==
    IF (k \in pre) = (k \in now) THEN s
    ELSE IF k \in now THEN AddKey(s, k) ELSE DelKey(s, k)

\* Before the loop: both flags down, the modifier byte copied if it changed.
ModsStep(s, pre_mods, now_mods) ==
    [s EXCEPT !.mods = IF pre_mods # now_mods THEN now_mods ELSE @,
              !.due = IF pre_mods # now_mods THEN {"byte"} ELSE {}]

\* The buffers after each key code of the loop, in ascending order.
SplitRun(s, pre, now) ==
    LET loop[k \in 0 .. NUM_KEYS] ==
          IF k = 0 THEN ModsStep(s, pre.mods, now.mods)
          ELSE KeyStep(loop[k - 1], k, pre.keys, now.keys)
    IN  loop

\* The whole loop.
SplitLoop(s, pre, now) == SplitRun(s, pre, now)[NUM_KEYS]

-----------------------------------------------------------------------------
(* What the receiver makes of a byte report. *)

ByteKeys(s) == Range(s.slots) \ {NoKey}
=============================================================================
