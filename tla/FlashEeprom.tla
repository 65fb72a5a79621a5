----------------------------- MODULE FlashEeprom -----------------------------
(***************************************************************************)
(* The emulated EEPROM the settings are kept in                            *)
(* (eeprom_legacy_emulated_flash.c, under eeprom_driver.c): pages of flash *)
(* that hold a compacted image, followed by a log of the writes since; the *)
(* whole is mirrored in RAM.  Flash can only be erased by the page, and a  *)
(* half-word can be programmed once after an erasure.                      *)
(*                                                                         *)
(* The flash is one array of half-words, the image in front of the log,    *)
(* with the encodings of the code.  A call decides what to do from RAM and *)
(* flash at once; the flash operations it asks for are carried out one by  *)
(* one, so that power can fail between any two of them (operations         *)
(* themselves are atomic, and succeed).  RAM is lost with power.           *)
(***************************************************************************)
EXTENDS Naturals, Sequences

CONSTANTS
    DENSITY,           \* FEE_DENSITY_BYTES, in half-words
    LOG,               \* FEE_WRITE_LOG_BYTES, in half-words
    PAGE,              \* FEE_PAGE_SIZE, in half-words
    FEE_BYTE_RANGE,    \* addresses below are logged by the byte (128)
    Byte,              \* the values of a byte
    MaxBlock,          \* bound: bytes of a block that is written
    MaxSpoilt          \* bound: blocks written after a wipe that was cut off

FEE_EMPTY_WORD == 65535
HalfWord == 0 .. FEE_EMPTY_WORD
Octet == 0 .. 255

ASSUME FlashAssumption ==
    /\ DENSITY \in Nat \ {0} /\ LOG \in Nat \ {0} /\ PAGE \in Nat \ {0}
    /\ DENSITY <= 8192
    /\ (DENSITY + LOG) % PAGE = 0
    /\ FEE_BYTE_RANGE \in Nat \ {0} /\ FEE_BYTE_RANGE <= 128 /\ FEE_BYTE_RANGE % 2 = 0
    /\ 0 \in Byte /\ Byte \subseteq Octet
    /\ MaxBlock \in Nat /\ MaxSpoilt \in Nat

VARIABLES
    flash,         \* the pages, as half-words
    DataBuf,       \* the mirror, as bytes
    empty_slot,    \* first free half-word of the log
    calls,         \* calls eeprom_write_block has yet to make
    todo,          \* flash operations the call under way has yet to make
    on,            \* power
    boot,          \* what EEPROM_Init would make of the flash: Replay(flash)
    wiping,        \* history: the call under way has erased a page
    damaged,       \* history: power failed in a wipe, and none was completed since
    spoilt,        \* blocks written since then, for MaxSpoilt
    stale          \* history: an older log entry covers a word of the image

ram == <<DataBuf, empty_slot, calls, todo>>
history == <<wiping, damaged, stale, spoilt>>
pages == <<flash, boot>>
vars == <<pages, ram, on, history>>

LogBase == DENSITY
LogEnd == DENSITY + LOG
Pages == (DENSITY + LOG) \div PAGE
Addr == 0 .. 2 * DENSITY - 1
Zero == [a \in Addr |-> 0]

Flip(v) == FEE_EMPTY_WORD - v                \* ~v
Aligned(a) == 2 * (a \div 2)                 \* Address & 0xFFFE
WordAt(buf, a) == buf[a] + 256 * buf[a + 1]  \* a is even
PutWord(buf, a, v) == [buf EXCEPT ![a] = v % 256, ![a + 1] = v \div 256]

Erase(p) == [op |-> "erase", at |-> p, value |-> 0]
Program(i, v) == [op |-> "program", at |-> i, value |-> v]
Pass == [op |-> "pass", at |-> 0, value |-> 0]
ReInit == [op |-> "init", at |-> 0, value |-> 0]

-----------------------------------------------------------------------------
(* EEPROM_Init *)

\* The mirror of the image alone.
Compacted(fl) ==
    [a \in Addr |-> LET v == Flip(fl[a \div 2])
                    IN  IF a % 2 = 0 THEN v % 256 ELSE v \div 256]

\* *(uint16_t *)(&DataBuf[address]) = wvalue, if the address is a good one.
Store(s, a, v) ==
    IF a >= 2 * DENSITY THEN s
    ELSE [s EXCEPT !.buf = PutWord(@, a, v), !.words = @ \cup {a \div 2}]

\* Slip: a value that was never programmed is taken for zero.
NextValueUnchecked(s, a, h) == Store(s, a, Flip(h))

\* The second half-word of a Word-Next entry; it may be missing.
NextValue(s, a, h) == IF Flip(h) = 0 THEN s ELSE Store(s, a, Flip(h))

\* One turn of the loop over the log, for one half-word h at index i.  slot is
\* where the loop has come to; a Word-Next entry leaves its address in next.
ReplayHalfWord(s, h, i) ==
    LET t == [s EXCEPT !.slot = i + 1, !.next = << >>]
        kind == h \div 8192     \* 0 .. 3: byte, 4, 5: encoded, 6: reserved, 7: Word-Next
        low == (h % 8192) * 2
    IN  CASE s.slot < i -> s
          [] s.slot = i /\ s.next # << >> -> NextValue(t, s.next[1], h)
          [] s.slot = i /\ s.next = << >> ->
               CASE h = FEE_EMPTY_WORD -> s
                 [] kind < 4 -> [t EXCEPT !.buf[h \div 256] = h % 256,
                                          !.words = @ \cup {(h \div 256) \div 2}]
                 [] kind = 7 /\ h # FEE_EMPTY_WORD -> [t EXCEPT !.next = <<low + FEE_BYTE_RANGE>>]
                 [] kind = 6 -> t
                 [] OTHER -> Store(t, low, kind % 2)

\* The loop, by the half-words it has passed.
Loop(fl) ==
    LET r[i \in LogBase .. LogEnd] ==
          IF i = LogBase
          THEN [buf |-> Compacted(fl), words |-> {}, next |-> << >>, slot |-> LogBase]
          ELSE ReplayHalfWord(r[i - 1], fl[i - 1], i - 1)
    IN  r

Replay(fl) == Loop(fl)[LogEnd]

Init ==
    /\ flash = [i \in 0 .. LogEnd - 1 |-> FEE_EMPTY_WORD]
    /\ boot = Replay(flash)
    /\ DataBuf = Zero
    /\ empty_slot = LogBase
    /\ calls = << >>
    /\ todo = << >>
    /\ on = FALSE
    /\ wiping = FALSE
    /\ damaged = FALSE
    /\ stale = FALSE
    /\ spoilt = 0

EEPROM_Init ==
    /\ ~on
    /\ on' = TRUE
    /\ DataBuf' = boot.buf
    /\ empty_slot' = boot.slot
    /\ UNCHANGED <<pages, calls, todo, history>>

-----------------------------------------------------------------------------
(* What a write asks of the flash: operations, and where the log then ends *)

Ask(ops, slot) == [ops |-> ops, slot |-> slot]

eeprom_clear == [p \in 1 .. Pages |-> Erase(p - 1)]

\* The half-words of the image in turn; a word that is zero is passed over.
Image(buf) ==
    [w \in 1 .. DENSITY |->
       LET value == Flip(WordAt(buf, 2 * (w - 1)))
       IN  IF value = FEE_EMPTY_WORD THEN Pass ELSE Program(w - 1, value)]

\* Slip: the pages of the log are left alone.
CompactKeepsLog(buf) == Ask(<<Erase(0)>> \o Image(buf), LogBase)

eeprom_compact(buf) == Ask(eeprom_clear \o Image(buf), LogBase)

\* Slip: room for one half-word is taken to be room for two.
LogWordTooLate(buf, slot, a) ==
    LET value == WordAt(buf, a)
    IN  CASE slot > LogEnd - 1 -> eeprom_compact(buf)
          [] value <= 1 /\ slot <= LogEnd - 1 ->
               Ask(<<Program(slot, 32768 + 8192 * value + a \div 2)>>, slot + 1)
          [] OTHER -> Ask(<<Program(slot, 57344 + (a - FEE_BYTE_RANGE) \div 2),
                            Program(slot + 1, Flip(value))>>, slot + 2)

eeprom_write_log_word_entry(buf, slot, a) ==
    LET value == WordAt(buf, a)
        entry_size == IF value <= 1 THEN 1 ELSE 2
    IN  IF slot > LogEnd - entry_size THEN eeprom_compact(buf)
        ELSE IF value <= 1
        THEN Ask(<<Program(slot, 32768 + 8192 * value + a \div 2)>>, slot + 1)
        ELSE Ask(<<Program(slot, 57344 + (a - FEE_BYTE_RANGE) \div 2),
                   Program(slot + 1, Flip(value))>>, slot + 2)

eeprom_write_log_byte_entry(buf, slot, a) ==
    IF slot >= LogEnd THEN eeprom_compact(buf)
    ELSE Ask(<<Program(slot, 256 * a + buf[a])>>, slot + 1)

\* A word of the image that is still erased takes the value without the log.
Direct(a) == flash[a \div 2] = FEE_EMPTY_WORD

eeprom_write_direct_entry(buf, a) ==
    LET value == Flip(WordAt(buf, Aligned(a)))
    IN  Ask(IF value = FEE_EMPTY_WORD THEN << >> ELSE <<Program(a \div 2, value)>>, empty_slot)

LogByte(buf, a) ==
    IF a < FEE_BYTE_RANGE THEN eeprom_write_log_byte_entry(buf, empty_slot, a)
    ELSE eeprom_write_log_word_entry(buf, empty_slot, Aligned(a))

\* Below FEE_BYTE_RANGE, an entry for each byte that changed; the first may have
\* compacted everything by the time the second is made.
LogWord(buf, a) ==
    LET none == Ask(<< >>, empty_slot)
        low == IF buf[a] = DataBuf[a] THEN none
               ELSE eeprom_write_log_byte_entry(buf, empty_slot, a)
        high == IF buf[a + 1] = DataBuf[a + 1] THEN Ask(<< >>, low.slot)
                ELSE eeprom_write_log_byte_entry(buf, low.slot, a + 1)
    IN  IF a < FEE_BYTE_RANGE THEN Ask(low.ops \o high.ops, high.slot)
        ELSE eeprom_write_log_word_entry(buf, empty_slot, a)

-----------------------------------------------------------------------------
(* Calls *)

ByteCall(a, b) == [op |-> "byte", at |-> a, value |-> b]
WordCall(a, v) == [op |-> "word", at |-> a, value |-> v]

\* Carry out the write of buf as asked for, with the calls rest to come.
Carry(buf, ask, rest) ==
    /\ DataBuf' = buf
    /\ empty_slot' = ask.slot
    /\ todo' = ask.ops
    /\ calls' = rest
    /\ UNCHANGED <<pages, on, history>>

\* The address is bad, or the value is there already.
Skip(rest) ==
    /\ calls' = rest
    /\ UNCHANGED <<pages, DataBuf, empty_slot, todo, on, history>>

EEPROM_WriteDataByte(a, b, rest) ==
    \/ /\ a \in Addr => DataBuf[a] = b
       /\ Skip(rest)
    \/ /\ a \in Addr
       /\ DataBuf[a] # b
       /\ LET buf == [DataBuf EXCEPT ![a] = b]
          IN  Carry(buf, IF Direct(a) THEN eeprom_write_direct_entry(buf, a)
                         ELSE LogByte(buf, a), rest)

\* At an odd address, two writes of a byte.
EEPROM_WriteDataWord(a, v, rest) ==
    \/ /\ a % 2 = 1 /\ a \in Addr
       /\ Skip(<<ByteCall(a, v % 256), ByteCall(a + 1, v \div 256)>> \o rest)
    \/ /\ a \in Addr => a % 2 = 0 /\ WordAt(DataBuf, a) = v
       /\ Skip(rest)
    \/ /\ a % 2 = 0 /\ a \in Addr
       /\ WordAt(DataBuf, a) # v
       /\ LET buf == PutWord(DataBuf, a, v)
          IN  Carry(buf, IF Direct(a) THEN eeprom_write_direct_entry(buf, a)
                         ELSE LogWord(buf, a), rest)

NextCall ==
    /\ on
    /\ todo = << >>
    /\ calls # << >>
    /\ LET c == Head(calls)
       IN  \/ c.op = "byte" /\ EEPROM_WriteDataByte(c.at, c.value, Tail(calls))
           \/ c.op = "word" /\ EEPROM_WriteDataWord(c.at, c.value, Tail(calls))

\* No call is under way.
Free == on /\ calls = << >> /\ todo = << >>

\* A caller makes the calls new.
Enter(new) ==
    /\ Free
    /\ damaged => spoilt < MaxSpoilt
    /\ spoilt' = IF damaged THEN spoilt + 1 ELSE 0
    /\ calls' = new
    /\ UNCHANGED <<pages, DataBuf, empty_slot, todo, on, wiping, damaged, stale>>

\* Slip: what is left over at the end of a block is written first.
WriteBlockEndFirst(a, data) ==
    LET n == Len(data)
        one(i) == ByteCall(a + i - 1, data[i])
    IN  [i \in 1 .. n |-> IF i = 1 THEN one(n) ELSE one(i - 1)]

\* The calls of eeprom_write_block: words, but for a byte at an odd address in
\* front and one that is left over at the end.
eeprom_write_block(a, data) ==
    LET front == a % 2
        words == (Len(data) - front) \div 2
        pos == [i \in 1 .. words |-> front + 2 * i - 1]
    IN  (IF front = 1 THEN <<ByteCall(a, data[1])>> ELSE << >>)
        \o [i \in 1 .. words |-> WordCall(a + pos[i] - 1, data[pos[i]] + 256 * data[pos[i] + 1])]
        \o (IF front + 2 * words < Len(data)
            THEN <<ByteCall(a + Len(data) - 1, data[Len(data)])>> ELSE << >>)

\* eeprom_update_block of eeprom_driver.c: only if something differs.
eeprom_update_block(a, data) ==
    /\ a + Len(data) - 1 \in Addr
    /\ \E i \in DOMAIN data : DataBuf[a + i - 1] # data[i]
    /\ Enter(eeprom_write_block(a, data))

\* A word write from outside, at an odd address.
WriteWordUnaligned(a, v) ==
    /\ a % 2 = 1
    /\ Enter(<<WordCall(a, v)>>)

\* EEPROM_Erase, whose last step is EEPROM_Init.
EEPROM_Erase ==
    /\ Free
    /\ todo' = eeprom_clear \o <<ReInit>>
    /\ empty_slot' = LogBase
    /\ UNCHANGED <<pages, DataBuf, calls, on, history>>

-----------------------------------------------------------------------------
(* The flash controller (legacy_flash_ops.c) *)

FLASH_ErasePage(fl, p) == [i \in DOMAIN fl |-> IF i \div PAGE = p THEN FEE_EMPTY_WORD ELSE fl[i]]

\* Without an erasure before it, only zero can be programmed.
FLASH_ProgramHalfWord(fl, i, v) ==
    IF fl[i] = FEE_EMPTY_WORD \/ v = 0 THEN [fl EXCEPT ![i] = v] ELSE fl

\* An entry of the log would be replayed over what is programmed at i.
Covered(i) == i < LogBase /\ i \in boot.words

FlashStep ==
    LET o == Head(todo)
        last == Tail(todo) = << >>
    IN  /\ on
        /\ todo # << >>
        /\ todo' = Tail(todo)
        /\ flash' = CASE o.op = "erase" -> FLASH_ErasePage(flash, o.at)
                      [] o.op = "program" -> FLASH_ProgramHalfWord(flash, o.at, o.value)
                      [] OTHER -> flash
        /\ boot' = Replay(flash')
        /\ DataBuf' = IF o.op = "init" THEN boot.buf ELSE DataBuf
        /\ empty_slot' = IF o.op = "init" THEN boot.slot ELSE empty_slot
        /\ wiping' = ((wiping \/ o.op = "erase") /\ ~last)
        /\ damaged' = (damaged /\ ~(wiping /\ last))
        /\ stale' = ((stale /\ o.op # "erase") \/ (o.op = "program" /\ Covered(o.at)))
        /\ spoilt' = IF damaged' THEN spoilt ELSE 0
        /\ UNCHANGED <<calls, on>>

PowerLoss ==
    /\ on
    /\ on' = FALSE
    /\ DataBuf' = Zero
    /\ empty_slot' = LogBase
    /\ calls' = << >>
    /\ todo' = << >>
    /\ wiping' = FALSE
    /\ damaged' = (damaged \/ wiping)
    /\ UNCHANGED <<pages, stale, spoilt>>

Blocks == UNION {[1 .. n -> Byte] : n \in 1 .. MaxBlock}

Next ==
    \/ EEPROM_Init
    \/ \E a \in Addr, data \in Blocks : eeprom_update_block(a, data)
    \/ \E a \in Addr, lo, hi \in Byte : WriteWordUnaligned(a, lo + 256 * hi)
    \/ EEPROM_Erase
    \/ NextCall
    \/ FlashStep
    \/ PowerLoss

Spec == Init /\ [][Next]_vars

-----------------------------------------------------------------------------
(* Properties *)

\* Half-words, bytes and the end of the log stay in range; the flash operations
\* asked for are inside the pages.
TypeOK ==
    /\ flash \in [0 .. LogEnd - 1 -> HalfWord]
    /\ DataBuf \in [Addr -> Octet]
    /\ empty_slot \in LogBase .. LogEnd
    /\ \A i \in DOMAIN todo : /\ todo[i].op = "erase" => todo[i].at \in 0 .. Pages - 1
                              /\ todo[i].op = "program" => todo[i].at \in 0 .. LogEnd - 1
    /\ spoilt \in 0 .. MaxSpoilt
    /\ on \in BOOLEAN /\ wiping \in BOOLEAN /\ damaged \in BOOLEAN /\ stale \in BOOLEAN

\* eeprom_legacy_emulated_flash.c:315-471: whatever is programmed is erased at
\* that time, in the image, in the log and right after a compaction, so that no
\* write is silently refused by the flash.
ProgramsErased ==
    ~damaged =>
      \A i \in DOMAIN todo :
         todo[i].op = "program" =>
            \/ flash[todo[i].at] = FEE_EMPTY_WORD
            \/ \E j \in 1 .. i - 1 : todo[j] = Erase(todo[i].at \div PAGE)

\* The pages hold what the specification calls the memory; nothing is lost
\* unless a wipe is under way or was cut off, or an older entry is in the way.
Store_ == INSTANCE EepromStore WITH
            mem <- boot.buf, cache <- DataBuf, Byte <- Octet,
            safe <- ~(wiping \/ damaged \/ stale)

\* eeprom_legacy_emulated_flash.c:216-629: image and log together implement the
\* memory of EepromStore.  Each write is durable when it returns, and a power
\* failure leaves each byte old or new, also between the two half-words of an
\* entry, the two entries of a word and the calls of a block; a completed
\* compaction or erasure makes good whatever was spoilt before.
ImplementsStore == Store_!Spec

\* The words of the image that a call is about.
FirstWord(c) == c.at \div 2
LastWord(c) == (IF c.op = "word" THEN c.at + 1 ELSE c.at) \div 2

\* eeprom_legacy_emulated_flash.c:601-629: a block is saved in the order of its
\* addresses.  Whenever power fails, but in a wipe, there is one word (w - 1) that
\* may be old, new or half of each; whatever the block has in front of it is new,
\* and whatever it has yet to write is as it was.
SavedInOrder ==
    on /\ ~(wiping \/ damaged \/ stale) =>
      \E w \in 0 .. DENSITY :
        /\ \A a \in Addr : a \div 2 + 1 # w => boot.buf[a] = DataBuf[a]
        /\ \A i \in DOMAIN calls : w <= FirstWord(calls[i])

\* eeprom_legacy_emulated_flash.c:29-30 "We emulate eeprom by writing a snapshot
\* compacted view of eeprom contents, followed by a write log of any change since
\* that snapshot": unless power failed in a wipe, a restart brings back what was
\* written last.
WritesSurvive == Free /\ ~damaged => boot.buf = DataBuf
=============================================================================
