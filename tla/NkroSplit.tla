------------------------------ MODULE NkroSplit ------------------------------
(***************************************************************************)
(* rf_driver.c, uart_auto_nkey_send: the loop over the key codes as a      *)
(* state machine.  Each call gets an arbitrary new report; the static      *)
(* buffers carry over from one call to the next.                           *)
(***************************************************************************)
EXTENDS NkroReport

VARIABLES
    pre_bit_report,   \* static: the report of the previous call
    now_bit_report,   \* the report of the running call
    split,            \* static: byte and bit buffers, and the send flags
    key_code,         \* loop variable, 0 between calls
    sentByte,         \* modifiers and slots of the last byte report sent
    sentBit           \* bits of the last bit report sent

vars == <<pre_bit_report, now_bit_report, split, key_code, sentByte, sentBit>>

NkroReports == [mods : Mods, keys : SUBSET Key]
NoKeysHeld == [mods |-> 0, keys |-> {}]

Init ==
    /\ pre_bit_report = NoKeysHeld
    /\ now_bit_report = NoKeysHeld
    /\ split = EmptySplit
    /\ key_code = 0
    /\ sentByte = [mods |-> 0, slots |-> [i \in ByteSlot |-> NoKey]]
    /\ sentBit = {}

Call(r) ==
    /\ key_code = 0
    /\ now_bit_report' = r
    /\ split' = ModsStep(split, pre_bit_report.mods, r.mods)
    /\ key_code' = 1
    /\ UNCHANGED <<pre_bit_report, sentByte, sentBit>>

KeyLoop ==
    /\ key_code \in Key
    /\ split' = KeyStep(split, key_code, pre_bit_report.keys, now_bit_report.keys)
    /\ key_code' = key_code + 1
    /\ UNCHANGED <<pre_bit_report, now_bit_report, sentByte, sentBit>>

Return ==
    /\ key_code = NUM_KEYS + 1
    /\ pre_bit_report' = now_bit_report
    /\ sentByte' = IF "byte" \in split.due
                   THEN [mods |-> split.mods, slots |-> split.slots] ELSE sentByte
    /\ sentBit' = IF "bit" \in split.due THEN split.bits ELSE sentBit
    /\ key_code' = 0
    /\ UNCHANGED <<now_bit_report, split>>

Next ==
    \/ \E r \in NkroReports : Call(r)
    \/ KeyLoop
    \/ Return

Spec == Init /\ [][Next]_vars

-----------------------------------------------------------------------------
(* Properties *)

Splits == [mods : Mods, slots : [ByteSlot -> Key \cup {NoKey}], bits : SUBSET Key,
           due : SUBSET {"byte", "bit"}]

\* The static buffers keep their shape and the loop index its range.
TypeOK ==
    /\ pre_bit_report \in NkroReports
    /\ now_bit_report \in NkroReports
    /\ split \in Splits
    /\ key_code \in 0 .. NUM_KEYS + 1
    /\ sentByte \in [mods : Mods, slots : [ByteSlot -> Key \cup {NoKey}]]
    /\ sentBit \in SUBSET Key

\* What the last two reports sent tell the receiver.
SentKeys == ({sentByte.slots[i] : i \in ByteSlot} \ {NoKey}) \cup sentBit

\* rf_driver.c:62-127: after every call the receiver, which knows nothing but
\* the last byte and the last bit report it was sent, sees exactly the keys and
\* modifiers of the report the keyboard wanted to send, whatever keys changed
\* together and however often keys moved between the slots and the bits.
ReceiverSeesReport ==
    key_code = 0 => /\ SentKeys = pre_bit_report.keys
                    /\ sentByte.mods = pre_bit_report.mods

\* No key is in two slots, and no slot holds a key whose bit is set.
OnePlace(s) ==
    /\ \A i, j \in ByteSlot : s.slots[i] = s.slots[j] /\ s.slots[i] # NoKey => i = j
    /\ \A i \in ByteSlot : s.slots[i] \notin s.bits

\* rf_driver.c:84-110: at every iteration a key is held in one place at most.
\* Otherwise the one removal that a release makes would leave a stuck copy.
HeldOnce == OnePlace(split)

\* What the receiver sees while the bit report of a call is still on its way: the
\* byte report goes out first.
SeenBetween == ({sentByte'.slots[i] : i \in ByteSlot} \ {NoKey}) \cup sentBit

\* rf_driver.c:79-126: the changes of one call go out in two reports; between the
\* two the receiver neither misses a key that is held throughout nor sees one that
\* is in neither report, so no key is released or struck that was not.
NoneReleasedBetween ==
    [][key_code # 0 /\ key_code' = 0
         => /\ pre_bit_report.keys \cap now_bit_report.keys \subseteq SeenBetween
            /\ SeenBetween \subseteq pre_bit_report.keys \cup now_bit_report.keys]_vars
=============================================================================
