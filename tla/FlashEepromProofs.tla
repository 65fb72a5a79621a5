-------------------------- MODULE FlashEepromProofs --------------------------
(***************************************************************************)
(* For any size of image, log and page: no half-word is programmed twice,  *)
(* and image and log implement the memory of EepromStore, power failures   *)
(* between any two flash operations included.                              *)
(*                                                                         *)
(* The invariant says of a call under way what the operations still to be  *)
(* made will do (Plan): what a restart would find after each of them.  The *)
(* calls establish that from the lemmas about the replay of a log with one *)
(* entry more; carrying the operations out then only consumes it.          *)
(***************************************************************************)
EXTENDS FlashEeprom, SequenceTheorems, WellFoundedInduction, TLAPS

Flash == [0 .. LogEnd - 1 -> HalfWord]
Mirror == [Addr -> Octet]
Op == [op : {"erase", "program", "pass", "init"}, at : Nat, value : Nat]
Call == [op : {"byte"}, at : Nat, value : Octet] \cup [op : {"word"}, at : Nat, value : HalfWord]

Programmed(fl, o) == FLASH_ProgramHalfWord(fl, o.at, o.value)

\* Behind the last entry that a restart would find, the log is erased.
TailErased(fl) == \A i \in Replay(fl).slot .. LogEnd - 1 : fl[i] = FEE_EMPTY_WORD

\* Words of the image that are erased are zero, whatever the log says of them.
ZeroWords(fl) ==
    \A w \in 0 .. DENSITY - 1 :
       fl[w] = FEE_EMPTY_WORD => Replay(fl).buf[2 * w] = 0 /\ Replay(fl).buf[2 * w + 1] = 0

Settled(fl, slot) == TailErased(fl) /\ Replay(fl).slot = slot
Synced(fl, buf) == ZeroWords(fl) /\ Replay(fl).buf = buf

\* Nothing was lost, and no wipe is under way.
Kept == ~damaged /\ ~stale /\ ~wiping

IsProgram(o) == o.op = "program" /\ o.at \in 0 .. LogEnd - 1 /\ o.value \in HalfWord

\* A restart after the first of two operations finds bytes that are old or new.
Between(fl, gl, buf) ==
    ZeroWords(gl) /\ \A a \in Addr : Replay(gl).buf[a] \in {Replay(fl).buf[a], buf[a]}

-----------------------------------------------------------------------------
(* What the call under way has yet to do, and what that will lead to *)

PlanNone ==
    /\ todo = << >> /\ ~wiping
    /\ ~damaged => Settled(flash, empty_slot)
    /\ Kept => Synced(flash, DataBuf)

PlanOne ==
    LET o == todo[1]
        fl == Programmed(flash, o)
    IN  /\ Len(todo) = 1 /\ IsProgram(o) /\ ~wiping
        /\ ~damaged => flash[o.at] = FEE_EMPTY_WORD /\ Settled(fl, empty_slot)
        /\ Kept /\ ~Covered(o.at) => Synced(fl, DataBuf)

PlanTwo ==
    LET o == todo[1]
        p == todo[2]
        fl == Programmed(flash, o)
        gl == Programmed(fl, p)
    IN  /\ Len(todo) = 2 /\ IsProgram(o) /\ IsProgram(p) /\ ~wiping
        /\ LogBase <= o.at /\ o.at < p.at
        /\ ~damaged => /\ flash[o.at] = FEE_EMPTY_WORD /\ flash[p.at] = FEE_EMPTY_WORD
                       /\ TailErased(fl) /\ Settled(gl, empty_slot)
        /\ Kept => Between(flash, fl, DataBuf) /\ Synced(gl, DataBuf)

\* The operations of a compaction, in order, and the byte entry that may follow.
CompactOp(buf, j, a) ==
    IF j <= Pages THEN Erase(j - 1)
    ELSE IF j <= Pages + DENSITY THEN Image(buf)[j - Pages]
    ELSE Program(LogBase, 256 * a + buf[a])

CompactRest(ops, buf, k, m, a) ==
    /\ Len(ops) = Pages + DENSITY + m - k
    /\ \A j \in 1 .. Len(ops) : ops[j] = CompactOp(buf, k + j, a)

ErasedUpTo(fl, k) == \A i \in 0 .. LogEnd - 1 : i \div PAGE < k => fl[i] = FEE_EMPTY_WORD

\* The first n words of the image are those of buf, the rest is erased.
HoldsImage(fl, buf, n) ==
    \A i \in 0 .. LogEnd - 1 :
       fl[i] = IF i < n THEN Flip(WordAt(buf, 2 * i)) ELSE FEE_EMPTY_WORD

\* k operations of a compaction were made; m entries (of byte a) follow it.
PlanCompact(k, m, a) ==
    /\ k < Pages + DENSITY + m
    /\ m = 1 => a < FEE_BYTE_RANGE
    /\ CompactRest(todo, DataBuf, k, m, a)
    /\ empty_slot = LogBase + m
    /\ wiping <=> k > 0
    /\ wiping => ~stale
    /\ k <= Pages => ErasedUpTo(flash, k)
    /\ k > Pages => HoldsImage(flash, DataBuf, k - Pages)

\* The last half-word of the log takes the first byte of a word; then compact.
PlanEntryCompact ==
    LET o == todo[1]
        fl == Programmed(flash, o)
    IN  /\ Len(todo) = 1 + Pages + DENSITY /\ IsProgram(o) /\ ~wiping
        /\ CompactRest(Tail(todo), DataBuf, 0, 0, 0)
        /\ empty_slot = LogBase
        /\ LogBase <= o.at
        /\ ~damaged => flash[o.at] = FEE_EMPTY_WORD /\ TailErased(fl)
        /\ Kept => Between(flash, fl, DataBuf)

\* k operations of an erasure were made.
PlanErase(k) ==
    /\ Len(todo) = Pages - k + 1
    /\ \A j \in 1 .. Len(todo) : todo[j] = IF k + j <= Pages THEN Erase(k + j - 1) ELSE ReInit
    /\ empty_slot = LogBase
    /\ wiping <=> k > 0
    /\ wiping => ~stale
    /\ ErasedUpTo(flash, k)

Plan ==
    \/ PlanNone \/ PlanOne \/ PlanTwo \/ PlanEntryCompact
    \/ \E k \in 0 .. Pages + DENSITY, m \in {0, 1}, a \in Addr : PlanCompact(k, m, a)
    \/ \E k \in 0 .. Pages : PlanErase(k)

Typed ==
    /\ flash \in Flash
    /\ DataBuf \in Mirror
    /\ empty_slot \in LogBase .. LogEnd
    /\ calls \in Seq(Call)
    /\ todo \in Seq(Op)
    /\ on \in BOOLEAN
    /\ wiping \in BOOLEAN
    /\ damaged \in BOOLEAN
    /\ stale \in BOOLEAN
    /\ spoilt \in 0 .. MaxSpoilt
    /\ boot = Replay(flash)

\* The inductive invariant.
FlashInv ==
    /\ Typed
    /\ ~on => todo = << >> /\ calls = << >> /\ ~wiping
    /\ on => Plan
    /\ ~damaged /\ ~wiping => TailErased(flash)
    /\ Kept => ZeroWords(flash)

-----------------------------------------------------------------------------
(* Numbers *)

LEMMA LeastNatural ==
    ASSUME NEW S \in SUBSET Nat, S # {}
    PROVE  \E m \in S : \A k \in S : m <= k
<1> DEFINE R == OpToRel(<, Nat)
<1>1. IsWellFoundedOn(R, Nat)
  BY NatLessThanWellFounded
<1>2. \E m \in S : \A k \in S : ~(<<k, m>> \in R)
  <2> HIDE DEF R
  <2> QED
    BY <1>1, WFMin
<1>3. PICK m \in S : \A k \in S : ~(<<k, m>> \in R)
  BY <1>2
<1>4. \A k \in S : ~(k < m)
  BY <1>3 DEF OpToRel
<1> QED
  BY <1>4

\* Whatever holds of a and, below b, of n + 1 whenever of n, holds from a to b.
LEMMA UpwardInduction ==
    ASSUME NEW S, NEW a \in Nat, NEW b \in Nat, a \in S,
           \A n \in a .. b - 1 : n \in S => n + 1 \in S
    PROVE  a .. b \subseteq S
<1> SUFFICES ASSUME NEW x \in a .. b, x \notin S
             PROVE  FALSE
  OBVIOUS
<1> DEFINE T == {n \in a .. b : n \notin S}
<1>1. T \in SUBSET Nat /\ T # {}
  OBVIOUS
<1>2. PICK n \in T : \A m \in T : n <= m
  BY <1>1, LeastNatural
<1>3. n \in Nat /\ n \in a .. b /\ n # a /\ n \notin S
  BY <1>2
<1>4. n - 1 \in a .. b - 1 /\ n - 1 + 1 = n
  BY <1>3
<1>5. n - 1 \in S
  BY <1>2, <1>3, <1>4
<1> QED
  BY <1>3, <1>4, <1>5

LEMMA OctetRange == \A v : v \in Octet <=> v \in Nat /\ v <= 255
  BY DEF Octet

LEMMA HalfWordRange == \A v : v \in HalfWord <=> v \in Nat /\ v <= 65535
<1>1. FEE_EMPTY_WORD = 65535
  BY SMT DEF FEE_EMPTY_WORD
<1>2. FEE_EMPTY_WORD \in Nat
  BY <1>1, SMT
<1>3. \A v : v \in HalfWord <=> v \in Nat /\ v <= FEE_EMPTY_WORD
  BY <1>2, SMT DEF HalfWord
<1> QED
  BY <1>1, <1>3, SMT

LEMMA EmptyWord == FEE_EMPTY_WORD = 65535 /\ FEE_EMPTY_WORD \in HalfWord
<1>1. FEE_EMPTY_WORD = 65535
  BY SMT DEF FEE_EMPTY_WORD
<1>2. FEE_EMPTY_WORD \in Nat /\ FEE_EMPTY_WORD <= 65535
  BY <1>1, SMT
<1> QED
  BY <1>1, <1>2, HalfWordRange

\* ~v undoes itself, and only ~0 is the empty word.
LEMMA FlipOnce ==
    ASSUME NEW v \in HalfWord
    PROVE  /\ Flip(v) \in HalfWord
           /\ Flip(Flip(v)) = v
           /\ Flip(v) = FEE_EMPTY_WORD <=> v = 0
           /\ Flip(v) = 0 <=> v = FEE_EMPTY_WORD
<1>1. v \in Nat /\ v <= 65535
  BY HalfWordRange
<1>2. Flip(v) = 65535 - v
  BY EmptyWord, SMT DEF Flip
<1>3. Flip(v) \in Nat /\ Flip(v) <= 65535
  BY <1>1, <1>2, SMT
<1>4. Flip(Flip(v)) = 65535 - Flip(v)
  BY EmptyWord, SMT DEF Flip
<1>5. Flip(Flip(v)) = v
  BY <1>1, <1>2, <1>4, SMT
<1>6. (Flip(v) = 65535 <=> v = 0) /\ (Flip(v) = 0 <=> v = 65535)
  BY <1>1, <1>2, SMT
<1>7. Flip(v) \in HalfWord
  BY <1>3, HalfWordRange
<1>8. FEE_EMPTY_WORD = 65535
  BY EmptyWord
<1> HIDE DEF Flip
<1> QED
  BY <1>5, <1>6, <1>7, <1>8, SMT

\* The bytes of a word are those it was made of.
LEMMA WordOfBytes ==
    ASSUME NEW x \in Octet, NEW y \in Octet
    PROVE  /\ x + 256 * y \in HalfWord
           /\ (x + 256 * y) % 256 = x
           /\ (x + 256 * y) \div 256 = y
           /\ x + 256 * y = 0 <=> x = 0 /\ y = 0
<1>1. x \in Nat /\ x <= 255 /\ y \in Nat /\ y <= 255
  BY OctetRange
<1>2. x + 256 * y \in Nat /\ x + 256 * y <= 65535
  BY <1>1, SMT
<1>3. (x + 256 * y) % 256 = x /\ (x + 256 * y) \div 256 = y
  BY <1>1, SMT
<1>4. x + 256 * y = 0 <=> x = 0 /\ y = 0
  BY <1>1, SMT
<1>5. x + 256 * y \in HalfWord
  BY <1>2, HalfWordRange
<1> QED
  BY <1>3, <1>4, <1>5

LEMMA BytesOfWord ==
    ASSUME NEW v \in HalfWord
    PROVE  v % 256 \in Octet /\ v \div 256 \in Octet
<1>1. v \in Nat /\ v <= 65535
  BY HalfWordRange
<1>2. v % 256 \in Nat /\ v % 256 <= 255 /\ v \div 256 \in Nat /\ v \div 256 <= 255
  BY <1>1, SMT
<1> QED
  BY <1>2, OctetRange

\* The three kinds of entry are told apart, and none is the empty word.
LEMMA ByteEntry ==
    ASSUME NEW a \in Nat, a < 128, NEW b \in Octet
    PROVE  LET h == 256 * a + b
           IN  /\ h \in HalfWord /\ h # FEE_EMPTY_WORD
               /\ h \div 8192 < 4 /\ h \div 256 = a /\ h % 256 = b
<1>1. b \in Nat /\ b <= 255
  BY OctetRange
<1>2. /\ 256 * a + b \in Nat /\ 256 * a + b < 65535
      /\ (256 * a + b) \div 8192 < 4 /\ (256 * a + b) \div 256 = a /\ (256 * a + b) % 256 = b
  BY <1>1, SMT
<1> DEFINE h == 256 * a + b
<1>3. /\ h \in Nat /\ h < 65535
      /\ h \div 8192 < 4 /\ h \div 256 = a /\ h % 256 = b
  BY <1>2
<1> HIDE DEF h
<1>4. h \in HalfWord /\ h # FEE_EMPTY_WORD
  <2>1. h <= 65535 /\ h # 65535
    BY <1>3, SMT
  <2> QED
    BY <1>3, <2>1, HalfWordRange, EmptyWord
<1> QED
  BY <1>3, <1>4 DEF h

LEMMA SmallEntry ==
    ASSUME NEW w \in Nat, w < 8192, NEW v \in {0, 1}
    PROVE  LET h == 32768 + 8192 * v + w
           IN  /\ h \in HalfWord /\ h # FEE_EMPTY_WORD
               /\ h \div 8192 = 4 + v /\ (h % 8192) * 2 = 2 * w /\ (h \div 8192) % 2 = v
<1> DEFINE h == 32768 + 8192 * v + w
<1>1. h \in Nat /\ h < 65535 /\ h \div 8192 = 4 + v /\ h % 8192 = w
  BY SMT
<1> HIDE DEF h
<1>2. (h % 8192) * 2 = 2 * w /\ (h \div 8192) % 2 = v
  BY <1>1, SMT
<1>3. h \in HalfWord /\ h # FEE_EMPTY_WORD
  <2>1. h <= 65535 /\ h # 65535
    BY <1>1, SMT
  <2> QED
    BY <1>1, <2>1, HalfWordRange, EmptyWord
<1> QED
  BY <1>1, <1>2, <1>3 DEF h

LEMMA NextEntry ==
    ASSUME NEW w \in Nat, w < 8191
    PROVE  LET h == 57344 + w
           IN  /\ h \in HalfWord /\ h # FEE_EMPTY_WORD
               /\ h \div 8192 = 7 /\ (h % 8192) * 2 = 2 * w
<1> DEFINE h == 57344 + w
<1>1. h \in Nat /\ h < 65535 /\ h \div 8192 = 7 /\ h % 8192 = w
  BY SMT
<1> HIDE DEF h
<1>2. (h % 8192) * 2 = 2 * w
  BY <1>1, SMT
<1>3. h \in HalfWord /\ h # FEE_EMPTY_WORD
  <2>1. h <= 65535 /\ h # 65535
    BY <1>1, SMT
  <2> QED
    BY <1>1, <2>1, HalfWordRange, EmptyWord
<1> QED
  BY <1>1, <1>2, <1>3 DEF h

-----------------------------------------------------------------------------
(* Sizes and addresses *)

LEMMA Sizes ==
    /\ DENSITY \in Nat /\ DENSITY > 0 /\ DENSITY <= 8192
    /\ LogBase \in Nat /\ LogEnd \in Nat /\ LogBase = DENSITY /\ LogBase < LogEnd
    /\ Pages \in Nat /\ Pages > 0 /\ PAGE \in Nat /\ PAGE > 0
    /\ FEE_BYTE_RANGE \in Nat /\ FEE_BYTE_RANGE > 0 /\ FEE_BYTE_RANGE <= 128
    /\ FEE_BYTE_RANGE % 2 = 0
<1>1. /\ DENSITY \in Nat /\ DENSITY > 0 /\ LOG \in Nat /\ LOG > 0 /\ PAGE \in Nat /\ PAGE > 0
      /\ (DENSITY + LOG) % PAGE = 0
  BY FlashAssumption
<1>2. LogBase \in Nat /\ LogEnd \in Nat /\ LogBase = DENSITY /\ LogBase < LogEnd
  BY <1>1 DEF LogBase, LogEnd
<1>3. Pages \in Nat /\ Pages > 0
  BY <1>1 DEF Pages
<1> QED
  BY <1>1, <1>2, <1>3, FlashAssumption

\* Every half-word is in a page.
LEMMA PageOf == \A i \in 0 .. LogEnd - 1 : i \div PAGE \in 0 .. Pages - 1
<1>1. /\ DENSITY \in Nat /\ DENSITY > 0 /\ LOG \in Nat /\ LOG > 0 /\ PAGE \in Nat \ {0}
      /\ (DENSITY + LOG) % PAGE = 0
  BY FlashAssumption
<1>2. ASSUME NEW n \in Nat, n % PAGE = 0, NEW i \in 0 .. n - 1
      PROVE  i \div PAGE \in 0 .. (n \div PAGE) - 1
  BY <1>1, <1>2
<1>3. LogEnd \in Nat /\ LogEnd % PAGE = 0 /\ Pages = LogEnd \div PAGE
  BY <1>1 DEF LogEnd, Pages
<1> QED
  BY <1>2, <1>3

\* A word of the image is two bytes of the mirror.
LEMMA AddrWord ==
    /\ \A a : a \in Addr <=> a \in Nat /\ a < 2 * DENSITY
    /\ \A a \in Addr : a \div 2 \in 0 .. DENSITY - 1
    /\ \A w \in 0 .. DENSITY - 1 :
         /\ 2 * w \in Addr /\ 2 * w + 1 \in Addr
         /\ (2 * w) \div 2 = w /\ (2 * w + 1) \div 2 = w
         /\ (2 * w) % 2 = 0 /\ (2 * w + 1) % 2 = 1
    /\ \A a \in Addr : a % 2 = 0 => a + 1 \in Addr /\ (a + 1) \div 2 = a \div 2 /\ a = 2 * (a \div 2)
    /\ \A a \in Addr : a = 2 * (a \div 2) \/ a = 2 * (a \div 2) + 1
<1>1. DENSITY \in Nat /\ DENSITY > 0
  BY Sizes
<1>2. \A a : a \in Addr <=> a \in Nat /\ a < 2 * DENSITY
  BY <1>1 DEF Addr
<1>3. \A a \in Addr : a \div 2 \in 0 .. DENSITY - 1
  BY <1>1, <1>2
<1>4. \A w \in 0 .. DENSITY - 1 :
         /\ 2 * w \in Addr /\ 2 * w + 1 \in Addr
         /\ (2 * w) \div 2 = w /\ (2 * w + 1) \div 2 = w
         /\ (2 * w) % 2 = 0 /\ (2 * w + 1) % 2 = 1
  BY <1>1, <1>2
<1>5. \A a \in Addr : a % 2 = 0 =>
         a + 1 \in Addr /\ (a + 1) \div 2 = a \div 2 /\ a = 2 * (a \div 2)
  BY <1>1, <1>2
<1>6. \A a \in Addr : a = 2 * (a \div 2) \/ a = 2 * (a \div 2) + 1
  BY <1>1, <1>2
<1> QED
  BY <1>2, <1>3, <1>4, <1>5, <1>6

LEMMA WordTyped ==
    ASSUME NEW buf \in Mirror, NEW w \in 0 .. DENSITY - 1
    PROVE  /\ WordAt(buf, 2 * w) \in HalfWord
           /\ WordAt(buf, 2 * w) % 256 = buf[2 * w]
           /\ WordAt(buf, 2 * w) \div 256 = buf[2 * w + 1]
           /\ WordAt(buf, 2 * w) = 0 <=> buf[2 * w] = 0 /\ buf[2 * w + 1] = 0
<1>1. buf[2 * w] \in Octet /\ buf[2 * w + 1] \in Octet
  BY AddrWord DEF Mirror
<1>2. WordAt(buf, 2 * w) = buf[2 * w] + 256 * buf[2 * w + 1]
  BY DEF WordAt
<1> QED
  BY <1>1, <1>2, WordOfBytes

\* Equal bytes make equal mirrors.
LEMMA SameMirror ==
    ASSUME NEW x \in Mirror, NEW y \in Mirror, \A a \in Addr : x[a] = y[a]
    PROVE  x = y
  BY DEF Mirror

LEMMA PutWordTyped ==
    ASSUME NEW buf \in Mirror, NEW a \in Addr, a % 2 = 0, NEW v \in HalfWord
    PROVE  LET new == PutWord(buf, a, v)
           IN  /\ new \in Mirror
               /\ new[a] = v % 256 /\ new[a + 1] = v \div 256
               /\ \A x \in Addr : x # a /\ x # a + 1 => new[x] = buf[x]
<1>1. a + 1 \in Addr /\ a # a + 1
  BY AddrWord
<1>2. v % 256 \in Octet /\ v \div 256 \in Octet
  BY BytesOfWord
<1> DEFINE lo == v % 256
           hi == v \div 256
<1>3. PutWord(buf, a, v) = [buf EXCEPT ![a] = lo, ![a + 1] = hi]
  BY DEF PutWord
<1>4. lo \in Octet /\ hi \in Octet
  BY <1>2
<1> HIDE DEF lo, hi
<1>5. PutWord(buf, a, v) \in Mirror
  BY <1>1, <1>3, <1>4 DEF Mirror
<1>6. PutWord(buf, a, v)[a] = lo /\ PutWord(buf, a, v)[a + 1] = hi
      /\ \A x \in Addr : x # a /\ x # a + 1 => PutWord(buf, a, v)[x] = buf[x]
  BY <1>1, <1>3 DEF Mirror
<1> QED
  BY <1>5, <1>6 DEF lo, hi

-----------------------------------------------------------------------------
(* One half-word of the log *)

\* What the loop keeps: an address in next is that of a word.
Nexts == {<< >>} \cup {<<a>> : a \in {n \in Nat : n % 2 = 0}}
LoopState == [buf : Mirror, words : SUBSET Nat, next : Nexts, slot : Nat]

\* On to the half-word behind i.
Passed(s, i) == [s EXCEPT !.slot = i + 1, !.next = << >>]

LEMMA PassedTyped ==
    ASSUME NEW s \in LoopState, NEW i \in Nat
    PROVE  /\ Passed(s, i) \in LoopState
           /\ Passed(s, i).slot = i + 1 /\ Passed(s, i).next = << >>
           /\ Passed(s, i).buf = s.buf /\ Passed(s, i).words = s.words
<1> DEFINE e == << >>
           j == i + 1
<1>1. e \in Nexts /\ j \in Nat
  BY DEF Nexts
<1>2. Passed(s, i) = [s EXCEPT !.slot = j, !.next = e]
  BY DEF Passed
<1> HIDE DEF e, j
<1>3. /\ Passed(s, i) \in LoopState
      /\ Passed(s, i).slot = j /\ Passed(s, i).next = e
      /\ Passed(s, i).buf = s.buf /\ Passed(s, i).words = s.words
  BY <1>1, <1>2 DEF LoopState
<1> QED
  BY <1>3 DEF e, j

LEMMA StoreTyped ==
    ASSUME NEW s \in LoopState, NEW a \in Nat, a % 2 = 0, NEW v \in HalfWord
    PROVE  LET t == Store(s, a, v)
           IN  /\ t \in LoopState /\ t.slot = s.slot /\ t.next = s.next
               /\ a \notin Addr => t = s
               /\ a \in Addr => t.buf = PutWord(s.buf, a, v) /\ t.words = s.words \cup {a \div 2}
<1>1. CASE a \notin Addr
  <2>1. a >= 2 * DENSITY
    BY <1>1, AddrWord, Sizes
  <2> QED
    BY <1>1, <2>1 DEF Store
<1>2. CASE a \in Addr
  <2>1. ~(a >= 2 * DENSITY) /\ a \div 2 \in Nat
    BY <1>2, AddrWord, Sizes
  <2> DEFINE b == PutWord(s.buf, a, v)
             w == s.words \cup {a \div 2}
  <2>2. s.buf \in Mirror /\ s.words \in SUBSET Nat
    BY DEF LoopState
  <2>3. b \in Mirror /\ w \in SUBSET Nat
    BY <1>2, <2>1, <2>2, PutWordTyped
  <2>4. Store(s, a, v) = [s EXCEPT !.buf = b, !.words = w]
    BY <2>1 DEF Store
  <2> HIDE DEF b, w
  <2>5. Store(s, a, v) \in LoopState /\ Store(s, a, v).slot = s.slot
        /\ Store(s, a, v).next = s.next /\ Store(s, a, v).buf = b /\ Store(s, a, v).words = w
    BY <2>3, <2>4 DEF LoopState
  <2> QED
    BY <1>2, <2>5 DEF b, w
<1> QED
  BY <1>1, <1>2

\* The mirror and the words after a byte entry.
PutByte(s, a, b) == [s EXCEPT !.buf[a] = b, !.words = @ \cup {a \div 2}]

LEMMA PutByteTyped ==
    ASSUME NEW s \in LoopState, NEW a \in Nat, NEW b \in Octet
    PROVE  LET t == PutByte(s, a, b)
           IN  /\ t \in LoopState /\ t.slot = s.slot /\ t.next = s.next
               /\ t.buf = [s.buf EXCEPT ![a] = b] /\ t.words = s.words \cup {a \div 2}
<1> DEFINE f == [s.buf EXCEPT ![a] = b]
           w == s.words \cup {a \div 2}
<1>1. s.buf \in Mirror /\ s.words \in SUBSET Nat /\ a \div 2 \in Nat
  BY DEF LoopState
<1>2. f \in Mirror /\ w \in SUBSET Nat
  BY <1>1 DEF Mirror
<1>3. PutByte(s, a, b) = [s EXCEPT !.buf = f, !.words = w]
  BY DEF PutByte, LoopState
<1> HIDE DEF f, w
<1>4. PutByte(s, a, b) \in LoopState /\ PutByte(s, a, b).slot = s.slot
      /\ PutByte(s, a, b).next = s.next /\ PutByte(s, a, b).buf = f /\ PutByte(s, a, b).words = w
  BY <1>2, <1>3 DEF LoopState
<1> QED
  BY <1>4 DEF f, w

\* The half-word to come is the value for a.
Waiting(s, a) == [s EXCEPT !.next = <<a>>]

\* The turns of the loop.
LEMMA TurnStopped ==
    ASSUME NEW s \in LoopState, NEW h, NEW i \in Nat, s.slot < i
    PROVE  ReplayHalfWord(s, h, i) = s
<1>1. s.slot \in Nat
  BY DEF LoopState
<1>2. ~(s.slot = i)
  BY <1>1
<1> QED
  BY <1>2 DEF ReplayHalfWord

LEMMA TurnEnds ==
    ASSUME NEW s \in LoopState, s.next = << >>
    PROVE  ReplayHalfWord(s, FEE_EMPTY_WORD, s.slot) = s
<1>1. s.slot \in Nat
  BY DEF LoopState
<1>2. ~(s.slot < s.slot)
  BY <1>1
<1>3. FEE_EMPTY_WORD \div 8192 = 7
  BY EmptyWord, SMT
<1>4. ~(FEE_EMPTY_WORD \div 8192 < 4) /\ ~(FEE_EMPTY_WORD \div 8192 = 6)
  BY <1>3
<1> QED
  BY <1>2, <1>4, SMT DEF ReplayHalfWord

LEMMA TurnValue ==
    ASSUME NEW s \in LoopState, NEW a, s.next = <<a>>, NEW h
    PROVE  ReplayHalfWord(s, h, s.slot) = NextValue(Passed(s, s.slot), a, h)
<1>1. s.slot \in Nat
  BY DEF LoopState
<1>2. ~(s.slot < s.slot) /\ s.next # << >> /\ s.next[1] = a
  BY <1>1
<1> QED
  BY <1>2 DEF ReplayHalfWord, Passed

LEMMA TurnByte ==
    ASSUME NEW s \in LoopState, s.next = << >>, NEW h \in HalfWord, h \div 8192 < 4,
           h # FEE_EMPTY_WORD
    PROVE  ReplayHalfWord(s, h, s.slot) = PutByte(Passed(s, s.slot), h \div 256, h % 256)
<1>1. s.slot \in Nat
  BY DEF LoopState
<1>2. ~(s.slot < s.slot)
  BY <1>1
<1>3. h \in Nat
  BY HalfWordRange
<1>4. h \div 8192 \in Nat /\ h \div 8192 # 7 /\ h \div 8192 # 6
  BY <1>3, SMT
<1> QED
  BY <1>2, <1>4, SMT DEF ReplayHalfWord, Passed, PutByte

LEMMA TurnSmall ==
    ASSUME NEW s \in LoopState, s.next = << >>, NEW h \in HalfWord,
           h \div 8192 = 4 \/ h \div 8192 = 5, h # FEE_EMPTY_WORD
    PROVE  ReplayHalfWord(s, h, s.slot)
             = Store(Passed(s, s.slot), (h % 8192) * 2, (h \div 8192) % 2)
<1>1. s.slot \in Nat
  BY DEF LoopState
<1>2. ~(s.slot < s.slot)
  BY <1>1
<1>4. ~(h \div 8192 < 4) /\ h \div 8192 # 7 /\ h \div 8192 # 6
  BY SMT
<1> QED
  BY <1>2, <1>4, SMT DEF ReplayHalfWord, Passed

LEMMA TurnReserved ==
    ASSUME NEW s \in LoopState, s.next = << >>, NEW h \in HalfWord, h \div 8192 = 6,
           h # FEE_EMPTY_WORD
    PROVE  ReplayHalfWord(s, h, s.slot) = Passed(s, s.slot)
<1>1. s.slot \in Nat
  BY DEF LoopState
<1>2. ~(s.slot < s.slot)
  BY <1>1
<1>4. ~(h \div 8192 < 4) /\ h \div 8192 # 7
  BY SMT
<1> QED
  BY <1>2, <1>4, SMT DEF ReplayHalfWord, Passed

LEMMA TurnNext ==
    ASSUME NEW s \in LoopState, s.next = << >>, NEW h \in HalfWord, h \div 8192 = 7,
           h # FEE_EMPTY_WORD
    PROVE  ReplayHalfWord(s, h, s.slot)
             = Waiting(Passed(s, s.slot), (h % 8192) * 2 + FEE_BYTE_RANGE)
<1>1. s.slot \in Nat
  BY DEF LoopState
<1>2. ~(s.slot < s.slot)
  BY <1>1
<1>4. ~(h \div 8192 < 4) /\ h \div 8192 # 6
  BY SMT
<1> QED
  BY <1>2, <1>4, SMT DEF ReplayHalfWord, Passed, Waiting

LEMMA TurnKinds ==
    ASSUME NEW s \in LoopState, NEW h \in HalfWord
    PROVE  \/ s.next = << >> /\ h = FEE_EMPTY_WORD
           \/ \E a \in Nat : a % 2 = 0 /\ s.next = <<a>>
           \/ /\ s.next = << >> /\ h # FEE_EMPTY_WORD
              /\ \/ h \div 8192 < 4
                 \/ h \div 8192 = 4 \/ h \div 8192 = 5
                 \/ h \div 8192 = 6
                 \/ h \div 8192 = 7
<1>1. s.next = << >> \/ \E a \in Nat : a % 2 = 0 /\ s.next = <<a>>
  BY DEF LoopState, Nexts
<1>2. h \in Nat /\ h <= 65535
  BY HalfWordRange
<1>3. \/ h \div 8192 < 4
      \/ h \div 8192 = 4 \/ h \div 8192 = 5
      \/ h \div 8192 = 6
      \/ h \div 8192 = 7
  BY <1>2, SMT
<1> QED
  BY <1>1, <1>3, SMT

LEMMA NextValueTyped ==
    ASSUME NEW s \in LoopState, NEW a \in Nat, a % 2 = 0, NEW h \in HalfWord
    PROVE  LET t == NextValue(s, a, h)
           IN  t \in LoopState /\ t.slot = s.slot /\ t.next = s.next
<1>1. Flip(h) \in HalfWord
  BY FlipOnce
<1>2. CASE Flip(h) = 0
  BY <1>2 DEF NextValue
<1>3. CASE Flip(h) # 0
  <2>1. NextValue(s, a, h) = Store(s, a, Flip(h))
    BY <1>3 DEF NextValue
  <2> QED
    BY <1>1, <2>1, StoreTyped
<1> QED
  BY <1>2, <1>3

LEMMA WaitingTyped ==
    ASSUME NEW s \in LoopState, NEW a \in Nat, a % 2 = 0
    PROVE  LET t == Waiting(s, a)
           IN  /\ t \in LoopState /\ t.slot = s.slot /\ t.next = <<a>>
               /\ t.buf = s.buf /\ t.words = s.words
<1> DEFINE e == <<a>>
<1>1. e \in Nexts
  BY DEF Nexts
<1>2. Waiting(s, a) = [s EXCEPT !.next = e]
  BY DEF Waiting
<1> HIDE DEF e
<1>3. LET t == Waiting(s, a)
      IN  t \in LoopState /\ t.slot = s.slot /\ t.next = e /\ t.buf = s.buf /\ t.words = s.words
  BY <1>1, <1>2 DEF LoopState
<1> QED
  BY <1>3 DEF e

\* The address of a Word-Next entry is that of a word.
LEMMA NextAddr ==
    ASSUME NEW h \in HalfWord
    PROVE  LET a == (h % 8192) * 2 + FEE_BYTE_RANGE IN a \in Nat /\ a % 2 = 0
<1>1. h \in Nat
  BY HalfWordRange
<1>2. h % 8192 \in Nat
  BY <1>1, SMT
<1> QED
  BY <1>2, Sizes, SMT

\* A turn ends the loop or passes one half-word.
LEMMA TurnTyped ==
    ASSUME NEW s \in LoopState, NEW h \in HalfWord
    PROVE  LET t == ReplayHalfWord(s, h, s.slot)
           IN  /\ t \in LoopState
               /\ t.slot = s.slot + 1 \/ (t = s /\ s.next = << >> /\ h = FEE_EMPTY_WORD)
<1>0. s.slot \in Nat
  BY DEF LoopState
<1> DEFINE p == Passed(s, s.slot)
           t == ReplayHalfWord(s, h, s.slot)
<1>1. p \in LoopState /\ p.slot = s.slot + 1
  BY <1>0, PassedTyped
<1> SUFFICES t \in LoopState /\ (t.slot = s.slot + 1 \/ (t = s /\ s.next = << >> /\ h = FEE_EMPTY_WORD))
  OBVIOUS
<1>2. CASE s.next = << >> /\ h = FEE_EMPTY_WORD
  BY <1>2, TurnEnds
<1>3. ASSUME NEW a \in Nat, a % 2 = 0, s.next = <<a>>
      PROVE  t \in LoopState /\ t.slot = s.slot + 1
  <2>1. t = NextValue(p, a, h)
    BY <1>3, TurnValue
  <2> HIDE DEF t, p
  <2> QED
    BY <1>1, <1>3, <2>1, NextValueTyped
<1>4. CASE s.next = << >> /\ h # FEE_EMPTY_WORD /\ h \div 8192 < 4
  <2> DEFINE a == h \div 256
             b == h % 256
  <2>1. t = PutByte(p, a, b)
    BY <1>4, TurnByte
  <2>2. a \in Nat /\ b \in Octet
    BY BytesOfWord, OctetRange
  <2> HIDE DEF t, p, a, b
  <2> QED
    BY <1>1, <2>1, <2>2, PutByteTyped
<1>5. CASE s.next = << >> /\ h # FEE_EMPTY_WORD /\ (h \div 8192 = 4 \/ h \div 8192 = 5)
  <2> DEFINE a == (h % 8192) * 2
             v == (h \div 8192) % 2
  <2>1. t = Store(p, a, v)
    BY <1>5, TurnSmall
  <2>2. h \in Nat
    BY HalfWordRange
  <2>3. a \in Nat /\ a % 2 = 0
    BY <2>2, SMT
  <2>4. v \in Nat /\ v <= 65535
    BY <1>5, SMT
  <2>5. v \in HalfWord
    BY <2>4, HalfWordRange
  <2> HIDE DEF t, p, a, v
  <2> QED
    BY <1>1, <2>1, <2>3, <2>5, StoreTyped
<1>6. CASE s.next = << >> /\ h # FEE_EMPTY_WORD /\ h \div 8192 = 6
  BY <1>1, <1>6, TurnReserved
<1>7. CASE s.next = << >> /\ h # FEE_EMPTY_WORD /\ h \div 8192 = 7
  <2> DEFINE a == (h % 8192) * 2 + FEE_BYTE_RANGE
  <2>1. t = Waiting(p, a)
    BY <1>7, TurnNext
  <2>2. a \in Nat /\ a % 2 = 0
    BY NextAddr
  <2> HIDE DEF t, p, a
  <2> QED
    BY <1>1, <2>1, <2>2, WaitingTyped
<1> HIDE DEF t
<1> QED
  BY <1>2, <1>3, <1>4, <1>5, <1>6, <1>7, TurnKinds

-----------------------------------------------------------------------------
(* The image under the log *)

\* t is s with another word w in the image; no entry so far was about it, and
\* then it reads lo, hi, or one was.
Over(s, t, w, lo, hi) ==
    /\ s.words = t.words /\ s.next = t.next /\ s.slot = t.slot
    /\ \A a \in Addr : a \div 2 # w => s.buf[a] = t.buf[a]
    /\ w \notin t.words => t.buf[2 * w] = lo /\ t.buf[2 * w + 1] = hi

LEMMA OverPassed ==
    ASSUME NEW s \in LoopState, NEW t \in LoopState, NEW w, NEW lo, NEW hi, Over(s, t, w, lo, hi),
           NEW i \in Nat
    PROVE  Over(Passed(s, i), Passed(t, i), w, lo, hi)
<1> DEFINE p == Passed(s, i)
           q == Passed(t, i)
<1>1. /\ p.slot = i + 1 /\ p.next = << >> /\ p.buf = s.buf /\ p.words = s.words
      /\ q.slot = i + 1 /\ q.next = << >> /\ q.buf = t.buf /\ q.words = t.words
  BY PassedTyped
<1> HIDE DEF p, q
<1>2. Over(p, q, w, lo, hi)
  BY <1>1 DEF Over
<1> QED
  BY <1>2 DEF p, q

LEMMA OverStore ==
    ASSUME NEW s \in LoopState, NEW t \in LoopState, NEW w \in 0 .. DENSITY - 1, NEW lo, NEW hi,
           Over(s, t, w, lo, hi), NEW a \in Nat, a % 2 = 0, NEW v \in HalfWord
    PROVE  Over(Store(s, a, v), Store(t, a, v), w, lo, hi)
<1>1. CASE a \notin Addr
  BY <1>1, StoreTyped
<1>2. CASE a \in Addr
  <2> DEFINE x == Store(s, a, v)
             y == Store(t, a, v)
             f == PutWord(s.buf, a, v)
             g == PutWord(t.buf, a, v)
  <2>1. s.buf \in Mirror /\ t.buf \in Mirror
    BY DEF LoopState
  <2>2. /\ x.buf = f /\ y.buf = g
        /\ x.words = s.words \cup {a \div 2} /\ y.words = t.words \cup {a \div 2}
        /\ x.slot = s.slot /\ y.slot = t.slot /\ x.next = s.next /\ y.next = t.next
    BY <1>2, StoreTyped
  <2>3. f[a] = v % 256 /\ g[a] = v % 256 /\ f[a + 1] = v \div 256 /\ g[a + 1] = v \div 256
        /\ (\A z \in Addr : z # a /\ z # a + 1 => f[z] = s.buf[z] /\ g[z] = t.buf[z])
    BY <1>2, <2>1, PutWordTyped
  <2> HIDE DEF x, y, f, g
  <2>4. x.words = y.words /\ x.next = y.next /\ x.slot = y.slot
    BY <2>2 DEF Over
  <2>5. ASSUME NEW z \in Addr, z \div 2 # w
        PROVE  f[z] = g[z]
    <3>1. s.buf[z] = t.buf[z]
      BY <2>5 DEF Over
    <3> QED
      BY <2>3, <3>1
  <2>6. ASSUME w \notin y.words
        PROVE  g[2 * w] = lo /\ g[2 * w + 1] = hi
    <3>1. w # a \div 2 /\ w \notin t.words
      BY <2>2, <2>6
    <3>2. t.buf[2 * w] = lo /\ t.buf[2 * w + 1] = hi
      BY <3>1 DEF Over
    <3>3. /\ 2 * w \in Addr /\ 2 * w + 1 \in Addr /\ (2 * w) \div 2 = w /\ (2 * w + 1) \div 2 = w
          /\ (a + 1) \div 2 = a \div 2
      BY <1>2, AddrWord
    <3>4. 2 * w # a /\ 2 * w # a + 1 /\ 2 * w + 1 # a /\ 2 * w + 1 # a + 1
      BY <3>1, <3>3
    <3> QED
      BY <2>3, <3>2, <3>3, <3>4
  <2> QED
    BY <2>2, <2>4, <2>5, <2>6 DEF Over, x, y
<1> QED
  BY <1>1, <1>2

LEMMA OverByte ==
    ASSUME NEW s \in LoopState, NEW t \in LoopState, NEW w \in 0 .. DENSITY - 1, NEW lo, NEW hi,
           Over(s, t, w, lo, hi), NEW a \in Nat, NEW b \in Octet
    PROVE  Over(PutByte(s, a, b), PutByte(t, a, b), w, lo, hi)
<1> DEFINE x == PutByte(s, a, b)
           y == PutByte(t, a, b)
<1>1. s.buf \in Mirror /\ t.buf \in Mirror
  BY DEF LoopState
<1>2. /\ x.buf = [s.buf EXCEPT ![a] = b] /\ y.buf = [t.buf EXCEPT ![a] = b]
      /\ x.words = s.words \cup {a \div 2} /\ y.words = t.words \cup {a \div 2}
      /\ x.slot = s.slot /\ y.slot = t.slot /\ x.next = s.next /\ y.next = t.next
  BY PutByteTyped
<1> HIDE DEF x, y
<1>3. \A z \in Addr : x.buf[z] = (IF z = a THEN b ELSE s.buf[z])
                      /\ y.buf[z] = (IF z = a THEN b ELSE t.buf[z])
  BY <1>1, <1>2 DEF Mirror
<1>4. x.words = y.words /\ x.next = y.next /\ x.slot = y.slot
  BY <1>2 DEF Over
<1>5. \A z \in Addr : z \div 2 # w => x.buf[z] = y.buf[z]
  BY <1>3 DEF Over
<1>6. ASSUME w \notin y.words
      PROVE  y.buf[2 * w] = lo /\ y.buf[2 * w + 1] = hi
  <2>1. w # a \div 2 /\ w \notin t.words
    BY <1>2, <1>6
  <2>2. t.buf[2 * w] = lo /\ t.buf[2 * w + 1] = hi
    BY <2>1 DEF Over
  <2>3. /\ 2 * w \in Addr /\ 2 * w + 1 \in Addr /\ (2 * w) \div 2 = w /\ (2 * w + 1) \div 2 = w
    BY AddrWord
  <2>4. 2 * w # a /\ 2 * w + 1 # a
    BY <2>1, <2>3
  <2> QED
    BY <1>3, <2>2, <2>3, <2>4
<1> QED
  BY <1>4, <1>5, <1>6 DEF Over, x, y

\* The same turn of the loop for both.
LEMMA OverTurn ==
    ASSUME NEW s \in LoopState, NEW t \in LoopState, NEW w \in 0 .. DENSITY - 1, NEW lo, NEW hi,
           Over(s, t, w, lo, hi), NEW h \in HalfWord
    PROVE  Over(ReplayHalfWord(s, h, s.slot), ReplayHalfWord(t, h, s.slot), w, lo, hi)
<1>0. s.slot \in Nat /\ t.slot = s.slot /\ t.next = s.next
  BY DEF LoopState, Over
<1> DEFINE p == Passed(s, s.slot)
           q == Passed(t, s.slot)
           x == ReplayHalfWord(s, h, s.slot)
           y == ReplayHalfWord(t, h, s.slot)
<1>1. p \in LoopState /\ q \in LoopState /\ Over(p, q, w, lo, hi)
  BY <1>0, PassedTyped, OverPassed
<1> SUFFICES Over(x, y, w, lo, hi)
  OBVIOUS
<1>2. CASE s.next = << >> /\ h = FEE_EMPTY_WORD
  <2>1. x = s /\ y = t
    BY <1>0, <1>2, TurnEnds
  <2> QED
    BY <2>1
<1>3. ASSUME NEW a \in Nat, a % 2 = 0, s.next = <<a>>
      PROVE  Over(x, y, w, lo, hi)
  <2>1. x = NextValue(p, a, h)
    BY <1>3, TurnValue
  <2>2. y = NextValue(q, a, h)
    BY <1>0, <1>3, TurnValue
  <2>3. Flip(h) \in HalfWord
    BY FlipOnce
  <2> HIDE DEF x, y, p, q
  <2>4. CASE Flip(h) = 0
    BY <1>1, <2>1, <2>2, <2>4 DEF NextValue
  <2>5. CASE Flip(h) # 0
    <3>1. x = Store(p, a, Flip(h)) /\ y = Store(q, a, Flip(h))
      BY <2>1, <2>2, <2>5 DEF NextValue
    <3> QED
      BY <1>1, <1>3, <2>3, <3>1, OverStore
  <2> QED
    BY <2>4, <2>5
<1>4. CASE s.next = << >> /\ h # FEE_EMPTY_WORD /\ h \div 8192 < 4
  <2> DEFINE a == h \div 256
             b == h % 256
  <2>1. x = PutByte(p, a, b)
    BY <1>4, TurnByte
  <2>2. y = PutByte(q, a, b)
    BY <1>0, <1>4, TurnByte
  <2>3. a \in Nat /\ b \in Octet
    BY BytesOfWord, OctetRange
  <2> HIDE DEF x, y, p, q, a, b
  <2> QED
    BY <1>1, <2>1, <2>2, <2>3, OverByte
<1>5. CASE s.next = << >> /\ h # FEE_EMPTY_WORD /\ (h \div 8192 = 4 \/ h \div 8192 = 5)
  <2> DEFINE a == (h % 8192) * 2
             v == (h \div 8192) % 2
  <2>1. x = Store(p, a, v)
    BY <1>5, TurnSmall
  <2>2. y = Store(q, a, v)
    BY <1>0, <1>5, TurnSmall
  <2>3. h \in Nat
    BY HalfWordRange
  <2>4. a \in Nat /\ a % 2 = 0
    BY <2>3, SMT
  <2>5. v \in Nat /\ v <= 65535
    BY <1>5, SMT
  <2>6. v \in HalfWord
    BY <2>5, HalfWordRange
  <2> HIDE DEF x, y, p, q, a, v
  <2> QED
    BY <1>1, <2>1, <2>2, <2>4, <2>6, OverStore
<1>6. CASE s.next = << >> /\ h # FEE_EMPTY_WORD /\ h \div 8192 = 6
  <2>1. x = p
    BY <1>6, TurnReserved
  <2>2. y = q
    BY <1>0, <1>6, TurnReserved
  <2> QED
    BY <1>1, <2>1, <2>2
<1>7. CASE s.next = << >> /\ h # FEE_EMPTY_WORD /\ h \div 8192 = 7
  <2> DEFINE a == (h % 8192) * 2 + FEE_BYTE_RANGE
  <2>1. x = Waiting(p, a)
    BY <1>7, TurnNext
  <2>2. y = Waiting(q, a)
    BY <1>0, <1>7, TurnNext
  <2>3. a \in Nat /\ a % 2 = 0
    BY NextAddr
  <2> HIDE DEF x, y, p, q, a
  <2>4. x.slot = p.slot /\ x.next = <<a>> /\ x.buf = p.buf /\ x.words = p.words
    BY <1>1, <2>1, <2>3, WaitingTyped
  <2>5. y.slot = q.slot /\ y.next = <<a>> /\ y.buf = q.buf /\ y.words = q.words
    BY <1>1, <2>2, <2>3, WaitingTyped
  <2> QED
    BY <1>1, <2>4, <2>5 DEF Over
<1> HIDE DEF x, y
<1> QED
  BY <1>2, <1>3, <1>4, <1>5, <1>6, <1>7, TurnKinds

-----------------------------------------------------------------------------
(* The loop over the log *)

Base(fl) == [buf |-> Compacted(fl), words |-> {}, next |-> << >>, slot |-> LogBase]

\* The function in Loop exists and does as it says.
LEMMA LoopSteps ==
    ASSUME NEW fl
    PROVE  /\ Loop(fl)[LogBase] = Base(fl)
           /\ \A i \in LogBase .. LogEnd - 1 :
                Loop(fl)[i + 1] = ReplayHalfWord(Loop(fl)[i], fl[i], i)
<1> DEFINE first == Base(fl)
           turn(s, i) == ReplayHalfWord(s, fl[i], i)
           IsLoop(r, n) == r = [i \in LogBase .. n |-> IF i = LogBase THEN first
                                                      ELSE turn(r[i - 1], i - 1)]
           S == {n \in Nat : \E r : IsLoop(r, n)}
<1>5. Loop(fl) = CHOOSE r : IsLoop(r, LogEnd)
  BY DEF Loop, Base
<1> HIDE DEF first, turn
<1>0. LogBase \in Nat /\ LogEnd \in Nat /\ LogBase < LogEnd
  BY Sizes
<1>1. LogBase \in S
  <2> DEFINE r == [i \in LogBase .. LogBase |-> first]
  <2>1. IsLoop(r, LogBase)
    BY <1>0
  <2> HIDE DEF r, IsLoop
  <2> QED
    BY <1>0, <2>1
<1>2. ASSUME NEW n \in LogBase .. LogEnd - 1, n \in S
      PROVE  n + 1 \in S
  <2>0. n \in Nat /\ n >= LogBase
    BY <1>0
  <2>1. PICK r : IsLoop(r, n)
    BY <1>2
  <2> DEFINE q == [i \in LogBase .. n + 1 |-> IF i = n + 1 THEN turn(r[n], n) ELSE r[i]]
  <2>2. ASSUME NEW i \in LogBase .. n + 1
        PROVE  q[i] = IF i = LogBase THEN first ELSE turn(q[i - 1], i - 1)
    <3>1. CASE i = n + 1
      <4>1. i # LogBase /\ i - 1 = n /\ n \in LogBase .. n + 1 /\ n # n + 1
        BY <1>0, <2>0, <3>1
      <4>2. q[i] = turn(r[n], n) /\ q[n] = r[n]
        BY <3>1, <4>1
      <4> HIDE DEF q
      <4> QED
        BY <4>1, <4>2
    <3>2. CASE i # n + 1 /\ i # LogBase
      <4>1. i \in LogBase .. n /\ i - 1 \in LogBase .. n + 1 /\ i - 1 # n + 1
        BY <1>0, <2>0, <3>2
      <4>2. r[i] = turn(r[i - 1], i - 1)
        BY <2>1, <3>2, <4>1
      <4>3. q[i] = r[i] /\ q[i - 1] = r[i - 1]
        BY <3>2, <4>1
      <4> HIDE DEF q
      <4> QED
        BY <3>2, <4>2, <4>3
    <3>3. CASE i = LogBase
      <4>1. i # n + 1 /\ i \in LogBase .. n
        BY <1>0, <2>0, <3>3
      <4>2. r[i] = first
        BY <2>1, <3>3, <4>1
      <4> QED
        BY <3>3, <4>1, <4>2
    <3> QED
      BY <3>1, <3>2, <3>3
  <2>3. q = [i \in LogBase .. n + 1 |-> q[i]]
    OBVIOUS
  <2> HIDE DEF q
  <2>4. IsLoop(q, n + 1)
    BY <2>2, <2>3
  <2> HIDE DEF IsLoop
  <2> QED
    BY <2>0, <2>4
<1>3. LogEnd \in S
  <2> HIDE DEF S
  <2>1. LogBase .. LogEnd \subseteq S
    BY <1>0, <1>1, <1>2, UpwardInduction
  <2> QED
    BY <1>0, <2>1
<1>4. \E r : IsLoop(r, LogEnd)
  BY <1>3
<1>6. IsLoop(Loop(fl), LogEnd)
  <2> HIDE DEF IsLoop
  <2> QED
    BY <1>4, <1>5
<1>7. Loop(fl)[LogBase] = first
  BY <1>0, <1>6
<1>8. ASSUME NEW i \in LogBase .. LogEnd - 1
      PROVE  Loop(fl)[i + 1] = turn(Loop(fl)[i], i)
  <2>1. i + 1 \in LogBase .. LogEnd /\ i + 1 # LogBase /\ (i + 1) - 1 = i
    BY <1>0
  <2> QED
    BY <1>6, <2>1
<1> QED
  BY <1>7, <1>8 DEF first, turn

LEMMA CompactedTyped ==
    ASSUME NEW fl \in Flash
    PROVE  /\ Compacted(fl) \in Mirror
           /\ \A w \in 0 .. DENSITY - 1 : /\ Compacted(fl)[2 * w] = Flip(fl[w]) % 256
                                          /\ Compacted(fl)[2 * w + 1] = Flip(fl[w]) \div 256
<1> DEFINE B(a) == LET v == Flip(fl[a \div 2]) IN IF a % 2 = 0 THEN v % 256 ELSE v \div 256
<1>1. Compacted(fl) = [a \in Addr |-> B(a)]
  BY DEF Compacted
<1>2. ASSUME NEW a \in Addr
      PROVE  B(a) \in Octet
  <2>1. a \div 2 \in 0 .. LogEnd - 1
    BY AddrWord, Sizes
  <2>2. fl[a \div 2] \in HalfWord
    BY <2>1 DEF Flash
  <2>3. Flip(fl[a \div 2]) \in HalfWord
    BY <2>2, FlipOnce
  <2>4. Flip(fl[a \div 2]) % 256 \in Octet /\ Flip(fl[a \div 2]) \div 256 \in Octet
    BY <2>3, BytesOfWord
  <2> QED
    BY <2>4
<1>3. ASSUME NEW w \in 0 .. DENSITY - 1
      PROVE  B(2 * w) = Flip(fl[w]) % 256 /\ B(2 * w + 1) = Flip(fl[w]) \div 256
  <2>1. (2 * w) \div 2 = w /\ (2 * w + 1) \div 2 = w /\ (2 * w) % 2 = 0 /\ (2 * w + 1) % 2 = 1
    BY AddrWord
  <2>2. ~((2 * w + 1) % 2 = 0)
    BY <2>1
  <2> QED
    BY <2>1, <2>2, SMT
<1> HIDE DEF B
<1> QED
  BY <1>1, <1>2, <1>3, AddrWord DEF Mirror

LEMMA BaseTyped ==
    ASSUME NEW fl \in Flash
    PROVE  /\ Base(fl) \in LoopState /\ Base(fl).buf = Compacted(fl) /\ Base(fl).words = {}
           /\ Base(fl).next = << >> /\ Base(fl).slot = LogBase
<1> DEFINE e == << >>
           b == Compacted(fl)
<1>1. e \in Nexts /\ b \in Mirror /\ LogBase \in Nat
  BY Sizes, CompactedTyped DEF Nexts
<1>2. Base(fl) = [buf |-> b, words |-> {}, next |-> e, slot |-> LogBase]
  BY DEF Base
<1> HIDE DEF e, b
<1>3. /\ Base(fl) \in LoopState /\ Base(fl).buf = b /\ Base(fl).words = {}
      /\ Base(fl).next = e /\ Base(fl).slot = LogBase
  BY <1>1, <1>2 DEF LoopState
<1> QED
  BY <1>3 DEF e, b

\* Where the loop has come to after i half-words: it is at i, or has ended at the
\* first half-word that is erased.
Reached(fl, i) ==
    LET s == Loop(fl)[i]
    IN  /\ s \in LoopState /\ s.slot \in LogBase .. i
        /\ s.slot < i => s.next = << >> /\ fl[s.slot] = FEE_EMPTY_WORD /\ s = Loop(fl)[s.slot]

LEMMA LoopReaches ==
    ASSUME NEW fl \in Flash, NEW i \in LogBase .. LogEnd
    PROVE  Reached(fl, i)
<1>0. LogBase \in Nat /\ LogEnd \in Nat /\ LogBase < LogEnd
  BY Sizes
<1> DEFINE S == {n \in Nat : Reached(fl, n)}
<1>1. LogBase \in S
  <2>1. Loop(fl)[LogBase] = Base(fl)
    BY LoopSteps
  <2>2. Base(fl) \in LoopState /\ Base(fl).slot = LogBase
    BY BaseTyped
  <2> QED
    BY <1>0, <2>1, <2>2 DEF Reached
<1>2. ASSUME NEW n \in LogBase .. LogEnd - 1, n \in S
      PROVE  n + 1 \in S
  <2> DEFINE s == Loop(fl)[n]
             t == Loop(fl)[n + 1]
  <2>0. n \in Nat /\ n + 1 \in Nat /\ fl[n] \in HalfWord
    BY <1>0 DEF Flash
  <2>1. t = ReplayHalfWord(s, fl[n], n)
    BY LoopSteps
  <2>2. s \in LoopState /\ s.slot \in LogBase .. n
        /\ (s.slot < n => s.next = << >> /\ fl[s.slot] = FEE_EMPTY_WORD /\ s = Loop(fl)[s.slot])
    BY <1>2 DEF Reached
  <2> SUFFICES t \in LoopState /\ t.slot \in LogBase .. (n + 1)
               /\ (t.slot < n + 1 => t.next = << >> /\ fl[t.slot] = FEE_EMPTY_WORD
                                     /\ t = Loop(fl)[t.slot])
    BY <2>0 DEF Reached
  <2>3. CASE s.slot < n
    <3>1. t = s
      BY <2>0, <2>1, <2>2, <2>3, TurnStopped
    <3> HIDE DEF s, t
    <3> QED
      BY <1>0, <2>0, <2>2, <2>3, <3>1
  <2>4. CASE s.slot = n
    <3>1. t \in LoopState /\ (t.slot = n + 1 \/ (t = s /\ s.next = << >> /\ fl[n] = FEE_EMPTY_WORD))
      BY <2>0, <2>1, <2>2, <2>4, TurnTyped
    <3>2. s = Loop(fl)[n]
      OBVIOUS
    <3> HIDE DEF s, t
    <3> QED
      BY <1>0, <2>0, <2>2, <2>4, <3>1, <3>2
  <2> HIDE DEF s, t
  <2> QED
    BY <1>0, <2>0, <2>2, <2>3, <2>4
<1>3. LogBase .. LogEnd \subseteq S
  <2> HIDE DEF S
  <2> QED
    BY <1>0, <1>1, <1>2, UpwardInduction
<1> QED
  BY <1>3

\* What a restart finds is what the loop had where it ended.
LEMMA ReplayTyped ==
    ASSUME NEW fl \in Flash
    PROVE  LET s == Replay(fl)
           IN  /\ s \in LoopState /\ s.slot \in LogBase .. LogEnd
               /\ s = Loop(fl)[s.slot]
               /\ s.slot < LogEnd => s.next = << >> /\ fl[s.slot] = FEE_EMPTY_WORD
<1>0. LogBase \in Nat /\ LogEnd \in Nat /\ LogBase < LogEnd
  BY Sizes
<1>1. Reached(fl, LogEnd)
  BY <1>0, LoopReaches
<1> DEFINE s == Replay(fl)
<1>2. s \in LoopState /\ s.slot \in LogBase .. LogEnd /\ s = Loop(fl)[LogEnd]
      /\ (s.slot < LogEnd => s.next = << >> /\ fl[s.slot] = FEE_EMPTY_WORD /\ s = Loop(fl)[s.slot])
  BY <1>1 DEF Reached, Replay
<1> HIDE DEF s
<1>3. s = Loop(fl)[s.slot]
  BY <1>0, <1>2
<1> QED
  BY <1>2, <1>3 DEF s

LEMMA LoopEnds ==
    ASSUME NEW fl \in Flash, NEW n \in LogBase .. LogEnd, Loop(fl)[n].slot = n,
           Loop(fl)[n].next = << >>, n < LogEnd => fl[n] = FEE_EMPTY_WORD
    PROVE  Replay(fl) = Loop(fl)[n]
<1>0. LogBase \in Nat /\ LogEnd \in Nat /\ LogBase < LogEnd /\ n \in Nat
  BY Sizes
<1> DEFINE s == Loop(fl)[n]
           S == {m \in Nat : Loop(fl)[m] = s}
<1>1. s \in LoopState
  BY LoopReaches DEF Reached
<1>2. n \in S
  BY <1>0
<1>3. ASSUME NEW m \in n .. LogEnd - 1, m \in S
      PROVE  m + 1 \in S
  <2>1. m \in Nat /\ m + 1 \in Nat /\ m \in LogBase .. LogEnd - 1 /\ n < LogEnd
    BY <1>0
  <2>2. Loop(fl)[m + 1] = ReplayHalfWord(s, fl[m], m)
    BY <1>3, <2>1, LoopSteps
  <2>3. CASE m = n
    BY <1>1, <2>1, <2>2, <2>3, TurnEnds
  <2>4. CASE n < m
    BY <1>1, <2>1, <2>2, <2>4, TurnStopped
  <2> QED
    BY <1>0, <2>1, <2>3, <2>4
<1>4. n .. LogEnd \subseteq S
  <2> HIDE DEF S
  <2> QED
    BY <1>0, <1>2, <1>3, UpwardInduction
<1>5. LogEnd \in S
  BY <1>0, <1>4
<1> QED
  BY <1>5 DEF Replay

\* The loop has not seen what is behind.
LEMMA LoopPrefix ==
    ASSUME NEW fl \in Flash, NEW gl \in Flash, NEW n \in LogBase .. LogEnd,
           \A i \in 0 .. n - 1 : fl[i] = gl[i]
    PROVE  Loop(fl)[n] = Loop(gl)[n]
<1>0. LogBase \in Nat /\ LogEnd \in Nat /\ LogBase = DENSITY /\ n \in Nat /\ n >= LogBase
  BY Sizes
<1> DEFINE S == {m \in Nat : Loop(fl)[m] = Loop(gl)[m]}
<1>1. LogBase \in S
  <2>1. ASSUME NEW a \in Addr
        PROVE  fl[a \div 2] = gl[a \div 2]
    BY <1>0, AddrWord
  <2>2. Compacted(fl) = Compacted(gl)
    BY <2>1 DEF Compacted
  <2> QED
    BY <1>0, <2>2, LoopSteps DEF Base
<1>2. ASSUME NEW m \in LogBase .. n - 1, m \in S
      PROVE  m + 1 \in S
  <2>1. m \in LogBase .. LogEnd - 1 /\ m + 1 \in Nat /\ fl[m] = gl[m]
    BY <1>0
  <2>2. Loop(fl)[m + 1] = ReplayHalfWord(Loop(fl)[m], fl[m], m)
        /\ Loop(gl)[m + 1] = ReplayHalfWord(Loop(gl)[m], gl[m], m)
    BY <2>1, LoopSteps
  <2> QED
    BY <1>2, <2>1, <2>2
<1>3. LogBase .. n \subseteq S
  <2> HIDE DEF S
  <2> QED
    BY <1>0, <1>1, <1>2, UpwardInduction
<1> QED
  BY <1>0, <1>3

\* v at half-word i.
Put(fl, i, v) == [fl EXCEPT ![i] = v]

LEMMA SameFlash ==
    ASSUME NEW fl \in Flash, NEW gl \in Flash, \A i \in 0 .. LogEnd - 1 : fl[i] = gl[i]
    PROVE  fl = gl
<1> DEFINE D == 0 .. LogEnd - 1
<1>1. fl \in [D -> HalfWord] /\ gl \in [D -> HalfWord] /\ \A i \in D : fl[i] = gl[i]
  BY DEF Flash
<1> HIDE DEF D
<1> QED
  BY <1>1

LEMMA PutTyped ==
    ASSUME NEW fl \in Flash, NEW i \in 0 .. LogEnd - 1, NEW v \in HalfWord
    PROVE  LET gl == Put(fl, i, v)
           IN  gl \in Flash /\ gl[i] = v /\ \A j \in 0 .. LogEnd - 1 : j # i => gl[j] = fl[j]
  BY DEF Put, Flash

\* eeprom_write_direct_entry: another word in the image shows unless an entry of
\* the log covers it.
LEMMA ImageShows ==
    ASSUME NEW fl \in Flash, NEW w \in 0 .. DENSITY - 1, NEW v \in HalfWord
    PROVE  LET gl == Put(fl, w, v)
           IN  /\ gl \in Flash
               /\ Over(Replay(fl), Replay(gl), w, Flip(v) % 256, Flip(v) \div 256)
<1>0. LogBase \in Nat /\ LogEnd \in Nat /\ LogBase < LogEnd /\ LogBase = DENSITY
      /\ w \in 0 .. LogEnd - 1
  BY Sizes
<1> DEFINE gl == Put(fl, w, v)
           lo == Flip(v) % 256
           hi == Flip(v) \div 256
           S == {n \in Nat : Over(Loop(fl)[n], Loop(gl)[n], w, lo, hi)}
<1>1. gl \in Flash /\ gl[w] = v /\ \A i \in 0 .. LogEnd - 1 : i # w => gl[i] = fl[i]
  BY <1>0, PutTyped
<1>2. LogBase \in S
  <2>1. Loop(fl)[LogBase] = Base(fl) /\ Loop(gl)[LogBase] = Base(gl)
    BY LoopSteps
  <2>2. /\ Base(fl).buf = Compacted(fl) /\ Base(fl).words = {}
        /\ Base(fl).next = << >> /\ Base(fl).slot = LogBase
    BY BaseTyped
  <2> HIDE DEF gl
  <2>3. /\ Base(gl).buf = Compacted(gl) /\ Base(gl).words = {}
        /\ Base(gl).next = << >> /\ Base(gl).slot = LogBase
    BY <1>1, BaseTyped
  <2>4. Compacted(gl)[2 * w] = lo /\ Compacted(gl)[2 * w + 1] = hi
    BY <1>1, CompactedTyped
  <2>5. ASSUME NEW a \in Addr, a \div 2 # w
        PROVE  Compacted(fl)[a] = Compacted(gl)[a]
    <3>1. a \div 2 \in 0 .. LogEnd - 1
      BY <1>0, AddrWord
    <3>2. gl[a \div 2] = fl[a \div 2]
      BY <1>1, <2>5, <3>1
    <3> QED
      BY <3>2 DEF Compacted
  <2> HIDE DEF lo, hi
  <2> QED
    BY <1>0, <2>1, <2>2, <2>3, <2>4, <2>5 DEF Over
<1>3. ASSUME NEW n \in LogBase .. LogEnd - 1, n \in S
      PROVE  n + 1 \in S
  <2> HIDE DEF gl
  <2> DEFINE s == Loop(fl)[n]
             t == Loop(gl)[n]
  <2>0. n \in Nat /\ n + 1 \in Nat /\ fl[n] \in HalfWord /\ gl[n] = fl[n] /\ n \in LogBase .. LogEnd
    BY <1>0, <1>1 DEF Flash
  <2>1. Loop(fl)[n + 1] = ReplayHalfWord(s, fl[n], n) /\ Loop(gl)[n + 1] = ReplayHalfWord(t, fl[n], n)
    BY <2>0, LoopSteps
  <2>2. s \in LoopState /\ t \in LoopState /\ s.slot \in LogBase .. n
    BY <1>1, <2>0, LoopReaches DEF Reached
  <2>3. Over(s, t, w, lo, hi) /\ t.slot = s.slot
    BY <1>3 DEF Over
  <2> HIDE DEF lo, hi
  <2>4. CASE s.slot < n
    <3>1. Loop(fl)[n + 1] = s /\ Loop(gl)[n + 1] = t
      BY <2>0, <2>1, <2>2, <2>3, <2>4, TurnStopped
    <3> QED
      BY <2>0, <2>3, <3>1
  <2>5. CASE s.slot = n
    <3>1. Over(ReplayHalfWord(s, fl[n], n), ReplayHalfWord(t, fl[n], n), w, lo, hi)
      BY <2>0, <2>2, <2>3, <2>5, OverTurn
    <3> QED
      BY <2>0, <2>1, <3>1
  <2> QED
    BY <1>0, <2>0, <2>2, <2>4, <2>5
<1>4. LogEnd \in S
  <2> HIDE DEF S
  <2>1. LogBase .. LogEnd \subseteq S
    BY <1>0, <1>2, <1>3, UpwardInduction
  <2> QED
    BY <1>0, <2>1
<1> QED
  BY <1>1, <1>4 DEF Replay

\* A half-word more at the end of the log.
LEMMA Appended ==
    ASSUME NEW fl \in Flash, NEW n, n = Replay(fl).slot, n < LogEnd, NEW h \in HalfWord
    PROVE  LET gl == Put(fl, n, h)
           IN  /\ gl \in Flash /\ gl[n] = h
               /\ \A i \in 0 .. LogEnd - 1 : i # n => gl[i] = fl[i]
               /\ n \in LogBase .. LogEnd - 1
               /\ Replay(fl).next = << >> /\ Replay(fl) \in LoopState
               /\ Loop(gl)[n + 1] = ReplayHalfWord(Replay(fl), h, n)
<1>0. LogBase \in Nat /\ LogEnd \in Nat /\ LogBase < LogEnd
  BY Sizes
<1> DEFINE gl == Put(fl, n, h)
           s == Replay(fl)
<1>1. s \in LoopState /\ n \in LogBase .. LogEnd - 1 /\ s = Loop(fl)[n] /\ s.next = << >>
  BY <1>0, ReplayTyped
<1>2. gl \in Flash /\ gl[n] = h /\ \A i \in 0 .. LogEnd - 1 : i # n => gl[i] = fl[i]
  BY <1>0, <1>1, PutTyped, SMTT(20)
<1> HIDE DEF gl, s
<1>3. n \in LogBase .. LogEnd /\ \A i \in 0 .. n - 1 : fl[i] = gl[i]
  BY <1>0, <1>1, <1>2
<1>4. Loop(fl)[n] = Loop(gl)[n]
  BY <1>2, <1>3, LoopPrefix
<1>5. Loop(gl)[n + 1] = ReplayHalfWord(Loop(gl)[n], gl[n], n)
  BY <1>1, LoopSteps
<1> QED
  BY <1>1, <1>2, <1>4, <1>5 DEF gl, s

\* eeprom_write_log_byte_entry.
LEMMA AppendByte ==
    ASSUME NEW fl \in Flash, TailErased(fl), NEW n, n = Replay(fl).slot, n < LogEnd,
           NEW a \in Addr, a < FEE_BYTE_RANGE, NEW b \in Octet
    PROVE  LET gl == Put(fl, n, 256 * a + b)
           IN  /\ gl \in Flash /\ TailErased(gl) /\ Replay(gl).slot = n + 1
               /\ Replay(gl).buf = [Replay(fl).buf EXCEPT ![a] = b]
<1>0. LogBase \in Nat /\ LogEnd \in Nat /\ LogBase < LogEnd /\ a \in Nat /\ a < 128
  BY Sizes, AddrWord
<1> DEFINE h == 256 * a + b
           gl == Put(fl, n, h)
           s == Replay(fl)
           t == Loop(gl)[n + 1]
           p == Passed(s, n)
<1>1. h \in HalfWord /\ h # FEE_EMPTY_WORD /\ h \div 8192 < 4 /\ h \div 256 = a /\ h % 256 = b
  BY <1>0, ByteEntry
<1> HIDE DEF h
<1>2. /\ gl \in Flash /\ \A i \in 0 .. LogEnd - 1 : i # n => gl[i] = fl[i]
      /\ n \in LogBase .. LogEnd - 1 /\ s \in LoopState /\ s.next = << >> /\ n = s.slot
      /\ t = ReplayHalfWord(s, h, n)
  <2>1. /\ gl \in Flash /\ \A i \in 0 .. LogEnd - 1 : i # n => gl[i] = fl[i]
        /\ n \in LogBase .. LogEnd - 1
        /\ Replay(fl).next = << >> /\ Replay(fl) \in LoopState
        /\ Loop(gl)[n + 1] = ReplayHalfWord(Replay(fl), h, n)
    <3>1. h \in HalfWord
      BY <1>1
    <3> QED
      BY <3>1, Appended
  <2> QED
    BY <2>1
<1>3. t = PutByte(p, a, b)
  BY <1>1, <1>2, TurnByte
<1>4. n \in Nat /\ n + 1 \in LogBase .. LogEnd
  BY <1>0, <1>2
<1>5. p \in LoopState /\ p.slot = n + 1 /\ p.next = << >> /\ p.buf = s.buf
  BY <1>2, <1>4, PassedTyped
<1> HIDE DEF p
<1>6. t.slot = n + 1 /\ t.next = << >> /\ t.buf = [s.buf EXCEPT ![a] = b]
  BY <1>0, <1>3, <1>5, PutByteTyped
<1>7. \A i \in n + 1 .. LogEnd - 1 : gl[i] = FEE_EMPTY_WORD
  BY <1>0, <1>2, <1>4 DEF TailErased
<1> HIDE DEF gl
<1>8. Replay(gl) = t
  BY <1>0, <1>2, <1>4, <1>6, <1>7, LoopEnds
<1> HIDE DEF t, s
<1>9. TailErased(gl)
  BY <1>6, <1>7, <1>8 DEF TailErased
<1> QED
  BY <1>2, <1>6, <1>8, <1>9 DEF gl, s, h

\* eeprom_write_log_word_entry, for the values 0 and 1.
LEMMA AppendSmall ==
    ASSUME NEW fl \in Flash, TailErased(fl), NEW n, n = Replay(fl).slot, n < LogEnd,
           NEW a \in Addr, a % 2 = 0, NEW v \in {0, 1}
    PROVE  LET gl == Put(fl, n, 32768 + 8192 * v + a \div 2)
           IN  /\ gl \in Flash /\ TailErased(gl) /\ Replay(gl).slot = n + 1
               /\ Replay(gl).buf = PutWord(Replay(fl).buf, a, v)
<1>0. LogBase \in Nat /\ LogEnd \in Nat /\ LogBase < LogEnd /\ a \in Nat
      /\ a \div 2 \in Nat /\ a \div 2 < 8192 /\ a = 2 * (a \div 2)
  BY Sizes, AddrWord
<1> DEFINE h == 32768 + 8192 * v + a \div 2
           gl == Put(fl, n, h)
           s == Replay(fl)
           t == Loop(gl)[n + 1]
           p == Passed(s, n)
<1>1. h \in HalfWord /\ h # FEE_EMPTY_WORD /\ h \div 8192 = 4 + v
      /\ (h % 8192) * 2 = 2 * (a \div 2) /\ (h \div 8192) % 2 = v
  BY <1>0, SmallEntry
<1> HIDE DEF h
<1>2. /\ gl \in Flash /\ \A i \in 0 .. LogEnd - 1 : i # n => gl[i] = fl[i]
      /\ n \in LogBase .. LogEnd - 1 /\ s \in LoopState /\ s.next = << >> /\ n = s.slot
      /\ t = ReplayHalfWord(s, h, n)
  <2>1. /\ gl \in Flash /\ \A i \in 0 .. LogEnd - 1 : i # n => gl[i] = fl[i]
        /\ n \in LogBase .. LogEnd - 1
        /\ Replay(fl).next = << >> /\ Replay(fl) \in LoopState
        /\ Loop(gl)[n + 1] = ReplayHalfWord(Replay(fl), h, n)
    <3>1. h \in HalfWord
      BY <1>1
    <3> QED
      BY <3>1, Appended
  <2> QED
    BY <2>1
<1>3. t = Store(p, a, v)
  <2>1. h \div 8192 = 4 \/ h \div 8192 = 5
    BY <1>1, SMT
  <2>2. (h % 8192) * 2 = a /\ (h \div 8192) % 2 = v
    BY <1>0, <1>1
  <2>3. t = Store(p, (h % 8192) * 2, (h \div 8192) % 2)
    BY <1>1, <1>2, <2>1, TurnSmall
  <2> HIDE DEF p, t
  <2> QED
    BY <2>2, <2>3
<1>4. n \in Nat /\ n + 1 \in LogBase .. LogEnd
  BY <1>0, <1>2, SMTT(20)
<1>5. p \in LoopState /\ p.slot = n + 1 /\ p.next = << >> /\ p.buf = s.buf
  BY <1>2, <1>4, PassedTyped
<1>6. v \in HalfWord
  BY HalfWordRange
<1> HIDE DEF p
<1>7. t.slot = n + 1 /\ t.next = << >> /\ t.buf = PutWord(s.buf, a, v)
  BY <1>0, <1>3, <1>5, <1>6, StoreTyped
<1>8. \A i \in n + 1 .. LogEnd - 1 : gl[i] = FEE_EMPTY_WORD
  BY <1>0, <1>2, <1>4 DEF TailErased
<1> HIDE DEF gl
<1>9. Replay(gl) = t
  BY <1>0, <1>2, <1>4, <1>7, <1>8, LoopEnds
<1> HIDE DEF t, s
<1>10. TailErased(gl)
  BY <1>7, <1>8, <1>9 DEF TailErased
<1> QED
  BY <1>2, <1>7, <1>9, <1>10 DEF gl, s, h

\* eeprom_write_log_word_entry, for other values: before the second half-word is
\* there, a restart passes over the entry.
LEMMA AppendNext ==
    ASSUME NEW fl \in Flash, TailErased(fl), NEW n, n = Replay(fl).slot, n + 1 < LogEnd,
           NEW a \in Addr, a % 2 = 0, FEE_BYTE_RANGE <= a, NEW v \in HalfWord, v # 0
    PROVE  LET gl == Put(fl, n, 57344 + (a - FEE_BYTE_RANGE) \div 2)
               hl == Put(gl, n + 1, Flip(v))
           IN  /\ gl \in Flash /\ TailErased(gl) /\ gl[n + 1] = FEE_EMPTY_WORD
               /\ Replay(gl).buf = Replay(fl).buf
               /\ hl \in Flash /\ TailErased(hl) /\ Replay(hl).slot = n + 2
               /\ Replay(hl).buf = PutWord(Replay(fl).buf, a, v)
<1>0. LogBase \in Nat /\ LogEnd \in Nat /\ LogBase < LogEnd /\ a \in Nat /\ n \in Nat
  BY Sizes, AddrWord, ReplayTyped DEF LoopState
<1> DEFINE w == (a - FEE_BYTE_RANGE) \div 2
           h == 57344 + w
           gl == Put(fl, n, h)
           hl == Put(gl, n + 1, Flip(v))
           s == Replay(fl)
           t == Loop(gl)[n + 1]
           p == Passed(s, n)
<1>1. w \in Nat /\ w < 8191 /\ 2 * w + FEE_BYTE_RANGE = a
  BY <1>0, Sizes, AddrWord
<1> HIDE DEF w
<1>2. h \in HalfWord /\ h # FEE_EMPTY_WORD /\ h \div 8192 = 7 /\ (h % 8192) * 2 = 2 * w
  BY <1>1, NextEntry
<1> HIDE DEF h
<1>3. /\ gl \in Flash /\ \A i \in 0 .. LogEnd - 1 : i # n => gl[i] = fl[i]
      /\ n \in LogBase .. LogEnd - 1 /\ s \in LoopState /\ s.next = << >> /\ n = s.slot
      /\ t = ReplayHalfWord(s, h, n)
  <2>1. n < LogEnd
    BY <1>0
  <2>2. /\ gl \in Flash /\ \A i \in 0 .. LogEnd - 1 : i # n => gl[i] = fl[i]
        /\ n \in LogBase .. LogEnd - 1
        /\ Replay(fl).next = << >> /\ Replay(fl) \in LoopState
        /\ Loop(gl)[n + 1] = ReplayHalfWord(Replay(fl), h, n)
    <3>1. h \in HalfWord
      BY <1>2
    <3> QED
      BY <2>1, <3>1, Appended
  <2> QED
    BY <2>2
<1>4. t = Waiting(p, a)
  <2>1. (h % 8192) * 2 + FEE_BYTE_RANGE = a
    BY <1>1, <1>2
  <2>2. t = Waiting(p, (h % 8192) * 2 + FEE_BYTE_RANGE)
    BY <1>2, <1>3, TurnNext
  <2> HIDE DEF p, t
  <2> QED
    BY <2>1, <2>2
<1>5. n + 1 \in LogBase .. LogEnd - 1 /\ n + 2 \in LogBase .. LogEnd /\ n + 1 \in 0 .. LogEnd - 1
      /\ (n + 1) + 1 = n + 2
  BY <1>0, <1>3
<1>6. p \in LoopState /\ p.slot = n + 1 /\ p.next = << >> /\ p.buf = s.buf
  BY <1>0, <1>3, PassedTyped
<1>15. t = Loop(gl)[n + 1] /\ TailErased(fl) /\ s = Replay(fl)
  OBVIOUS
<1> HIDE DEF p, t, s
<1>7. t \in LoopState /\ t.slot = n + 1 /\ t.next = <<a>> /\ t.buf = s.buf
  BY <1>0, <1>4, <1>6, WaitingTyped
<1>8. \A i \in n + 1 .. LogEnd - 1 : gl[i] = FEE_EMPTY_WORD
  BY <1>0, <1>3, <1>5, <1>15 DEF TailErased
<1> HIDE DEF gl
<1> DEFINE q == Passed(t, n + 1)
<1>9. q \in LoopState /\ q.slot = n + 2 /\ q.next = << >> /\ q.buf = s.buf
  <2>1. n + 1 \in Nat
    BY <1>0
  <2>2. q \in LoopState /\ q.slot = (n + 1) + 1 /\ q.next = << >> /\ q.buf = t.buf
    BY <1>7, <2>1, PassedTyped
  <2> QED
    BY <1>5, <1>7, <2>2
<1>10. /\ TailErased(gl) /\ Replay(gl).buf = s.buf
  <2>1. Loop(gl)[n + 2] = ReplayHalfWord(t, FEE_EMPTY_WORD, n + 1)
    BY <1>0, <1>5, <1>8, <1>15, LoopSteps
  <2>2. Loop(gl)[n + 2] = NextValue(q, a, FEE_EMPTY_WORD)
    BY <1>7, <2>1, TurnValue
  <2>3. Flip(FEE_EMPTY_WORD) = 0
    BY EmptyWord, FlipOnce
  <2>4. Loop(gl)[n + 2] = q
    BY <2>2, <2>3 DEF NextValue
  <2> HIDE DEF q
  <2>5. Replay(gl) = q
    BY <1>0, <1>3, <1>5, <1>8, <1>9, <2>4, LoopEnds, SMTT(20)
  <2> QED
    BY <1>0, <1>8, <1>9, <2>5 DEF TailErased
<1>11. Flip(v) \in HalfWord /\ Flip(Flip(v)) = v
  BY FlipOnce
<1>12. hl \in Flash /\ hl[n + 1] = Flip(v) /\ \A i \in 0 .. LogEnd - 1 : i # n + 1 => hl[i] = gl[i]
  <2> DEFINE m == n + 1
             x == Flip(v)
  <2>1. m \in 0 .. LogEnd - 1 /\ x \in HalfWord /\ gl \in Flash /\ hl = Put(gl, m, x)
    BY <1>3, <1>5, <1>11
  <2> HIDE DEF m, x, hl
  <2>2. hl \in Flash /\ hl[m] = x /\ \A i \in 0 .. LogEnd - 1 : i # m => hl[i] = gl[i]
    BY <2>1, PutTyped
  <2> QED
    BY <2>2 DEF m, x
<1> HIDE DEF hl
<1>13. /\ TailErased(hl) /\ Replay(hl).slot = n + 2 /\ Replay(hl).buf = PutWord(s.buf, a, v)
  <2>1. Loop(hl)[n + 1] = t
    <3>1. n + 1 \in LogBase .. LogEnd /\ \A i \in 0 .. (n + 1) - 1 : hl[i] = gl[i]
      BY <1>0, <1>5, <1>12
    <3> QED
      BY <1>3, <1>12, <1>15, <3>1, LoopPrefix
  <2>2. Loop(hl)[n + 2] = ReplayHalfWord(t, Flip(v), n + 1)
    BY <1>0, <1>5, <1>12, <2>1, LoopSteps
  <2>3. Loop(hl)[n + 2] = NextValue(q, a, Flip(v))
    BY <1>7, <2>2, TurnValue
  <2> HIDE DEF q
  <2>4. Loop(hl)[n + 2] = Store(q, a, v)
    BY <1>11, <2>3 DEF NextValue
  <2> DEFINE u == Store(q, a, v)
  <2>5. u.slot = n + 2 /\ u.next = << >> /\ u.buf = PutWord(s.buf, a, v)
    <3>1. u.slot = q.slot /\ u.next = q.next /\ u.buf = PutWord(q.buf, a, v)
      BY <1>0, <1>9, StoreTyped
    <3> HIDE DEF u
    <3> QED
      BY <1>9, <3>1
  <2> HIDE DEF u
  <2>6. \A i \in n + 2 .. LogEnd - 1 : hl[i] = FEE_EMPTY_WORD
    BY <1>0, <1>3, <1>5, <1>8, <1>12, SMTT(20)
  <2>7. Replay(hl) = u
    <3>1. Loop(hl)[n + 2] = u
      BY <2>4 DEF u
    <3> QED
      BY <1>0, <1>5, <1>12, <2>5, <2>6, <3>1, LoopEnds
  <2> QED
    BY <2>5, <2>6, <2>7 DEF TailErased
<1>14. gl[n + 1] = FEE_EMPTY_WORD
  BY <1>0, <1>5, <1>8
<1> QED
  BY <1>3, <1>10, <1>12, <1>13, <1>14 DEF gl, hl, s, h, w

-----------------------------------------------------------------------------
(* Erasing, and writing the image *)

LEMMA BlankLog ==
    ASSUME NEW fl \in Flash, fl[LogBase] = FEE_EMPTY_WORD
    PROVE  /\ Replay(fl).buf = Compacted(fl) /\ Replay(fl).words = {}
           /\ Replay(fl).next = << >> /\ Replay(fl).slot = LogBase
<1>1. Loop(fl)[LogBase] = Base(fl)
  BY LoopSteps
<1>2. /\ Base(fl).buf = Compacted(fl) /\ Base(fl).words = {}
      /\ Base(fl).next = << >> /\ Base(fl).slot = LogBase
  BY BaseTyped
<1>3. LogBase \in LogBase .. LogEnd
  BY Sizes
<1>4. Replay(fl) = Base(fl)
  BY <1>1, <1>2, <1>3, LoopEnds
<1> QED
  BY <1>2, <1>4

\* With the whole image written, a restart finds the mirror.
LEMMA ImageRestores ==
    ASSUME NEW fl \in Flash, NEW buf \in Mirror, HoldsImage(fl, buf, DENSITY)
    PROVE  /\ Replay(fl).buf = buf /\ Replay(fl).words = {} /\ Replay(fl).slot = LogBase
           /\ TailErased(fl) /\ ZeroWords(fl)
<1>0. LogBase \in Nat /\ LogEnd \in Nat /\ LogBase < LogEnd /\ LogBase = DENSITY
  BY Sizes
<1>1. \A i \in LogBase .. LogEnd - 1 : fl[i] = FEE_EMPTY_WORD
  BY <1>0 DEF HoldsImage
<1>2. /\ Replay(fl).buf = Compacted(fl) /\ Replay(fl).words = {} /\ Replay(fl).slot = LogBase
  BY <1>0, <1>1, BlankLog
<1>3. ASSUME NEW w \in 0 .. DENSITY - 1
      PROVE  /\ Compacted(fl)[2 * w] = buf[2 * w] /\ Compacted(fl)[2 * w + 1] = buf[2 * w + 1]
             /\ fl[w] = FEE_EMPTY_WORD => buf[2 * w] = 0 /\ buf[2 * w + 1] = 0
  <2>1. fl[w] = Flip(WordAt(buf, 2 * w))
    BY <1>0 DEF HoldsImage
  <2>2. WordAt(buf, 2 * w) \in HalfWord
    BY WordTyped
  <2>3. Flip(fl[w]) = WordAt(buf, 2 * w)
    BY <2>1, <2>2, FlipOnce
  <2>4. Compacted(fl)[2 * w] = WordAt(buf, 2 * w) % 256
        /\ Compacted(fl)[2 * w + 1] = WordAt(buf, 2 * w) \div 256
    BY <2>3, CompactedTyped
  <2>5. WordAt(buf, 2 * w) % 256 = buf[2 * w] /\ WordAt(buf, 2 * w) \div 256 = buf[2 * w + 1]
    BY WordTyped
  <2>6. fl[w] = FEE_EMPTY_WORD => buf[2 * w] = 0 /\ buf[2 * w + 1] = 0
    BY <2>1, <2>2, FlipOnce, WordTyped
  <2> QED
    BY <2>4, <2>5, <2>6
<1>4. Compacted(fl) = buf
  <2>1. ASSUME NEW a \in Addr
        PROVE  Compacted(fl)[a] = buf[a]
    <3>1. a \div 2 \in 0 .. DENSITY - 1 /\ (a = 2 * (a \div 2) \/ a = 2 * (a \div 2) + 1)
      BY AddrWord
    <3> QED
      BY <1>3, <3>1
  <2> QED
    BY <2>1, CompactedTyped, SameMirror
<1>5. TailErased(fl)
  BY <1>1, <1>2 DEF TailErased
<1>6. ZeroWords(fl)
  BY <1>2, <1>3, <1>4 DEF ZeroWords
<1> QED
  BY <1>2, <1>4, <1>5, <1>6

LEMMA ZeroTyped == Zero \in Mirror
<1>1. 0 \in Octet
  BY OctetRange
<1> QED
  BY <1>1 DEF Zero, Mirror

\* With everything erased, it finds zeros.
LEMMA ErasedRestores ==
    ASSUME NEW fl \in Flash, \A i \in 0 .. LogEnd - 1 : fl[i] = FEE_EMPTY_WORD
    PROVE  /\ Replay(fl).buf = Zero /\ Replay(fl).words = {} /\ Replay(fl).slot = LogBase
           /\ TailErased(fl) /\ ZeroWords(fl)
<1>1. ASSUME NEW i \in 0 .. DENSITY - 1
      PROVE  Flip(WordAt(Zero, 2 * i)) = FEE_EMPTY_WORD
  <2>1. Zero[2 * i] = 0 /\ Zero[2 * i + 1] = 0
    BY AddrWord DEF Zero
  <2>2. WordAt(Zero, 2 * i) = 0
    BY <2>1, ZeroTyped, WordTyped
  <2>3. 0 \in HalfWord
    BY HalfWordRange
  <2> QED
    BY <2>2, <2>3, FlipOnce
<1>2. HoldsImage(fl, Zero, DENSITY)
  BY <1>1, Sizes DEF HoldsImage
<1> QED
  BY <1>2, ZeroTyped, ImageRestores

\* FLASH_ErasePage, one page after the other.
LEMMA ErasePage ==
    ASSUME NEW fl \in Flash, NEW k \in Nat, ErasedUpTo(fl, k)
    PROVE  /\ FLASH_ErasePage(fl, k) \in Flash
           /\ ErasedUpTo(FLASH_ErasePage(fl, k), k + 1)
<1> DEFINE gl == FLASH_ErasePage(fl, k)
<1>0. DOMAIN fl = 0 .. LogEnd - 1 /\ FEE_EMPTY_WORD \in HalfWord
  BY EmptyWord DEF Flash
<1>1. gl = [i \in 0 .. LogEnd - 1 |-> IF i \div PAGE = k THEN FEE_EMPTY_WORD ELSE fl[i]]
  BY <1>0 DEF FLASH_ErasePage
<1>2. gl \in Flash
  BY <1>0, <1>1 DEF Flash
<1>3. ASSUME NEW i \in 0 .. LogEnd - 1, i \div PAGE < k + 1
      PROVE  gl[i] = FEE_EMPTY_WORD
  <2>1. i \div PAGE \in Nat
    BY PageOf, Sizes
  <2>2. i \div PAGE = k \/ i \div PAGE < k
    BY <1>3, <2>1
  <2> QED
    BY <1>1, <2>2 DEF ErasedUpTo
<1> QED
  BY <1>2, <1>3 DEF ErasedUpTo

LEMMA AllErased ==
    ASSUME NEW fl, ErasedUpTo(fl, Pages)
    PROVE  \A i \in 0 .. LogEnd - 1 : fl[i] = FEE_EMPTY_WORD
<1>1. \A i \in 0 .. LogEnd - 1 : i \div PAGE < Pages
  BY PageOf, Sizes
<1> QED
  BY <1>1 DEF ErasedUpTo

\* eeprom_compact: the next word of the image.
LEMMA ImageWord ==
    ASSUME NEW fl \in Flash, NEW buf \in Mirror, NEW n \in 0 .. DENSITY - 1, HoldsImage(fl, buf, n)
    PROVE  LET v == Flip(WordAt(buf, 2 * n))
           IN  /\ v \in HalfWord /\ fl[n] = FEE_EMPTY_WORD
               /\ v = FEE_EMPTY_WORD => HoldsImage(fl, buf, n + 1)
               /\ FLASH_ProgramHalfWord(fl, n, v) \in Flash
               /\ HoldsImage(FLASH_ProgramHalfWord(fl, n, v), buf, n + 1)
<1> DEFINE v == Flip(WordAt(buf, 2 * n))
           gl == Put(fl, n, v)
<1>0. n \in Nat /\ n \in 0 .. LogEnd - 1
  BY Sizes
<1>1. WordAt(buf, 2 * n) \in HalfWord
  BY WordTyped
<1>2. v \in HalfWord
  BY <1>1, FlipOnce
<1>3. fl[n] = FEE_EMPTY_WORD
  BY <1>0 DEF HoldsImage
<1>4. FLASH_ProgramHalfWord(fl, n, v) = gl
  BY <1>3 DEF FLASH_ProgramHalfWord, Put
<1>5. gl \in Flash /\ gl[n] = v /\ \A j \in 0 .. LogEnd - 1 : j # n => gl[j] = fl[j]
  BY <1>0, <1>2, PutTyped
<1>6. ASSUME NEW i \in 0 .. LogEnd - 1
      PROVE  gl[i] = IF i < n + 1 THEN Flip(WordAt(buf, 2 * i)) ELSE FEE_EMPTY_WORD
  <2>1. CASE i = n
    BY <1>0, <1>5, <2>1
  <2>2. CASE i # n
    <3>1. gl[i] = fl[i] /\ (i < n + 1 <=> i < n)
      BY <1>0, <1>5, <2>2
    <3> QED
      BY <3>1 DEF HoldsImage
  <2> QED
    BY <2>1, <2>2
<1>7. HoldsImage(gl, buf, n + 1)
  BY <1>6 DEF HoldsImage
<1>8. v = FEE_EMPTY_WORD => HoldsImage(fl, buf, n + 1)
  <2>1. ASSUME v = FEE_EMPTY_WORD
        PROVE  fl = gl
    <3>1. \A i \in 0 .. LogEnd - 1 : fl[i] = gl[i]
      BY <1>3, <1>5, <2>1
    <3> HIDE DEF gl
    <3> QED
      BY <1>5, <3>1, SameFlash
  <2> QED
    BY <1>7, <2>1
<1> QED
  BY <1>2, <1>3, <1>4, <1>5, <1>7, <1>8

-----------------------------------------------------------------------------
(* The entries of one write *)

\* Only word w differs.
Off(old, new, w) == \A x \in Addr : x \div 2 # w => new[x] = old[x]

LEMMA PutWordOff ==
    ASSUME NEW buf \in Mirror, NEW a \in Addr, a % 2 = 0, NEW v \in HalfWord
    PROVE  Off(buf, PutWord(buf, a, v), a \div 2)
<1>1. \A x \in Addr : x \div 2 # a \div 2 => x # a /\ x # a + 1
  BY AddrWord
<1> QED
  BY <1>1, PutWordTyped DEF Off

\* Words the log is not about stay as they are.
LEMMA ZeroKept ==
    ASSUME NEW fl \in Flash, NEW gl \in Flash, NEW w,
           \A i \in 0 .. DENSITY - 1 : gl[i] = fl[i], ZeroWords(fl), fl[w] # FEE_EMPTY_WORD,
           Off(Replay(fl).buf, Replay(gl).buf, w)
    PROVE  ZeroWords(gl)
<1> SUFFICES ASSUME NEW i \in 0 .. DENSITY - 1, gl[i] = FEE_EMPTY_WORD
             PROVE  Replay(gl).buf[2 * i] = 0 /\ Replay(gl).buf[2 * i + 1] = 0
  BY DEF ZeroWords
<1>1. fl[i] = FEE_EMPTY_WORD /\ i # w
  OBVIOUS
<1>2. Replay(fl).buf[2 * i] = 0 /\ Replay(fl).buf[2 * i + 1] = 0
  BY <1>1 DEF ZeroWords
<1>3. 2 * i \in Addr /\ 2 * i + 1 \in Addr /\ (2 * i) \div 2 = i /\ (2 * i + 1) \div 2 = i
  BY AddrWord
<1> QED
  BY <1>1, <1>2, <1>3 DEF Off

\* Flash that is erased takes what is programmed.
LEMMA ProgramPuts ==
    ASSUME NEW fl, NEW i, NEW v, fl[i] = FEE_EMPTY_WORD
    PROVE  FLASH_ProgramHalfWord(fl, i, v) = Put(fl, i, v)
  BY DEF FLASH_ProgramHalfWord, Put

\* eeprom_write_direct_entry, eeprom_legacy_emulated_flash.c:347-365.
LEMMA DirectEntry ==
    ASSUME NEW fl \in Flash, NEW w \in 0 .. DENSITY - 1, fl[w] = FEE_EMPTY_WORD,
           NEW old \in Mirror, NEW new \in Mirror, Off(old, new, w)
    PROVE  LET gl == FLASH_ProgramHalfWord(fl, w, Flip(WordAt(new, 2 * w)))
           IN  /\ \A slot : Settled(fl, slot) => Settled(gl, slot)
               /\ Synced(fl, old) /\ w \notin Replay(fl).words => Synced(gl, new)
               /\ Synced(fl, old) /\ WordAt(new, 2 * w) = 0 => Synced(fl, new)
<1>0. LogBase \in Nat /\ LogEnd \in Nat /\ LogBase < LogEnd /\ LogBase = DENSITY /\ w \in Nat
  BY Sizes
<1> DEFINE d == WordAt(new, 2 * w)
           v == Flip(d)
           gl == Put(fl, w, v)
           s == Replay(fl)
           t == Replay(gl)
<1>1. /\ d \in HalfWord /\ d % 256 = new[2 * w] /\ d \div 256 = new[2 * w + 1]
      /\ (d = 0 <=> new[2 * w] = 0 /\ new[2 * w + 1] = 0)
  BY WordTyped
<1> HIDE DEF d
<1>2. v \in HalfWord /\ Flip(v) = d /\ (v = FEE_EMPTY_WORD <=> d = 0)
  BY <1>1, FlipOnce
<1> HIDE DEF v
<1>3. FLASH_ProgramHalfWord(fl, w, v) = gl
  BY ProgramPuts
<1>4. gl \in Flash /\ Over(s, t, w, new[2 * w], new[2 * w + 1])
  BY <1>1, <1>2, ImageShows
<1>5. gl[w] = v /\ \A j \in 0 .. LogEnd - 1 : j # w => gl[j] = fl[j]
  BY <1>0, <1>2, PutTyped
<1>6. s \in LoopState /\ t \in LoopState /\ s.slot \in LogBase .. LogEnd /\ t.slot = s.slot
  <2> HIDE DEF gl
  <2> QED
    BY <1>4, ReplayTyped DEF Over
<1>7. s.buf \in Mirror /\ t.buf \in Mirror
  BY <1>6 DEF LoopState
<1> HIDE DEF gl
<1>8. ASSUME NEW slot, Settled(fl, slot)
      PROVE  Settled(gl, slot)
  <2>1. \A i \in t.slot .. LogEnd - 1 : gl[i] = FEE_EMPTY_WORD
    <3>1. \A i \in s.slot .. LogEnd - 1 : fl[i] = FEE_EMPTY_WORD
      BY <1>8 DEF Settled, TailErased
    <3>2. \A i \in s.slot .. LogEnd - 1 : i \in 0 .. LogEnd - 1 /\ i # w
      BY <1>0, <1>6
    <3> QED
      BY <1>5, <1>6, <3>1, <3>2
  <2> QED
    BY <1>6, <1>8, <2>1 DEF Settled, TailErased
<1> HIDE DEF s, t
<1>9. ASSUME Synced(fl, old), w \notin s.words
      PROVE  Synced(gl, new)
  <2>1. s.buf = old /\ ZeroWords(fl)
    BY <1>9 DEF Synced, s
  <2>2. t.buf[2 * w] = new[2 * w] /\ t.buf[2 * w + 1] = new[2 * w + 1]
        /\ \A x \in Addr : x \div 2 # w => t.buf[x] = s.buf[x]
    BY <1>4, <1>9 DEF Over
  <2>3. t.buf = new
    <3>1. ASSUME NEW x \in Addr
          PROVE  t.buf[x] = new[x]
      <4>1. x \div 2 # w \/ x = 2 * w \/ x = 2 * w + 1
        BY AddrWord
      <4> QED
        BY <2>1, <2>2, <4>1 DEF Off
    <3> QED
      BY <1>7, <3>1, SameMirror
  <2>4. ASSUME NEW i \in 0 .. DENSITY - 1, gl[i] = FEE_EMPTY_WORD
        PROVE  t.buf[2 * i] = 0 /\ t.buf[2 * i + 1] = 0
    <3>1. CASE i = w
      BY <1>1, <1>2, <1>5, <2>2, <2>4, <3>1
    <3>2. CASE i # w
      <4>1. i \in 0 .. LogEnd - 1 /\ fl[i] = FEE_EMPTY_WORD
        BY <1>0, <1>5, <2>4, <3>2
      <4>2. s.buf[2 * i] = 0 /\ s.buf[2 * i + 1] = 0
        BY <2>1, <4>1 DEF ZeroWords, s
      <4>3. 2 * i \in Addr /\ 2 * i + 1 \in Addr /\ (2 * i) \div 2 = i /\ (2 * i + 1) \div 2 = i
        BY AddrWord
      <4> QED
        BY <2>2, <3>2, <4>2, <4>3
    <3> QED
      BY <3>1, <3>2
  <2> QED
    BY <2>3, <2>4 DEF Synced, ZeroWords, t
<1>10. ASSUME Synced(fl, old), d = 0
       PROVE  Synced(fl, new)
  <2>1. s.buf = old /\ s.buf[2 * w] = 0 /\ s.buf[2 * w + 1] = 0
    BY <1>10 DEF Synced, ZeroWords, s
  <2>2. ASSUME NEW x \in Addr
        PROVE  new[x] = old[x]
    <3>1. x \div 2 # w \/ x = 2 * w \/ x = 2 * w + 1
      BY AddrWord
    <3> QED
      BY <1>1, <1>10, <2>1, <3>1 DEF Off
  <2>3. new = old
    BY <2>2, SameMirror
  <2> QED
    BY <1>10, <2>3
<1> QED
  BY <1>3, <1>8, <1>9, <1>10 DEF v, d, s

\* eeprom_write_log_byte_entry, eeprom_legacy_emulated_flash.c:415-437.
LEMMA ByteLogged ==
    ASSUME NEW fl \in Flash, TailErased(fl), NEW n, n = Replay(fl).slot, n < LogEnd,
           NEW a \in Addr, a < FEE_BYTE_RANGE, NEW b \in Octet
    PROVE  LET gl == FLASH_ProgramHalfWord(fl, n, 256 * a + b)
           IN  /\ fl[n] = FEE_EMPTY_WORD /\ 256 * a + b \in HalfWord
               /\ gl \in Flash /\ TailErased(gl) /\ Replay(gl).slot = n + 1
               /\ Replay(gl).buf = [Replay(fl).buf EXCEPT ![a] = b]
               /\ \A i \in 0 .. LogEnd - 1 : i # n => gl[i] = fl[i]
               /\ ZeroWords(fl) /\ fl[a \div 2] # FEE_EMPTY_WORD => ZeroWords(gl)
<1>0. LogBase \in Nat /\ LogEnd \in Nat /\ LogBase < LogEnd /\ LogBase = DENSITY
      /\ a \in Nat /\ a < 128
  BY Sizes, AddrWord
<1> DEFINE h == 256 * a + b
           gl == Put(fl, n, h)
<1>1. n \in LogBase .. LogEnd - 1 /\ fl[n] = FEE_EMPTY_WORD /\ Replay(fl) \in LoopState
  BY <1>0, ReplayTyped
<1>2. h \in HalfWord
  BY <1>0, ByteEntry
<1>3. /\ gl \in Flash /\ TailErased(gl) /\ Replay(gl).slot = n + 1
      /\ Replay(gl).buf = [Replay(fl).buf EXCEPT ![a] = b]
  BY AppendByte
<1> HIDE DEF h
<1>4. FLASH_ProgramHalfWord(fl, n, h) = gl
  BY <1>1, ProgramPuts
<1>5. \A i \in 0 .. LogEnd - 1 : i # n => gl[i] = fl[i]
  <2>1. n \in 0 .. LogEnd - 1
    BY <1>0, <1>1
  <2> QED
    BY <1>2, <2>1, PutTyped
<1> HIDE DEF gl
<1>6. ASSUME ZeroWords(fl), fl[a \div 2] # FEE_EMPTY_WORD
      PROVE  ZeroWords(gl)
  <2>1. Off(Replay(fl).buf, Replay(gl).buf, a \div 2)
    <3>1. Replay(fl).buf \in Mirror
      BY <1>1 DEF LoopState
    <3> QED
      BY <1>3, <3>1 DEF Off, Mirror
  <2>2. \A i \in 0 .. DENSITY - 1 : gl[i] = fl[i]
    BY <1>0, <1>1, <1>5
  <2> QED
    BY <1>3, <1>6, <2>1, <2>2, ZeroKept
<1> QED
  BY <1>1, <1>2, <1>3, <1>4, <1>5, <1>6 DEF h

\* eeprom_write_log_word_entry, eeprom_legacy_emulated_flash.c:367-413: an
\* encoded value of 0 or 1.
LEMMA SmallLogged ==
    ASSUME NEW fl \in Flash, TailErased(fl), NEW n, n = Replay(fl).slot, n < LogEnd,
           NEW a \in Addr, a % 2 = 0, NEW v \in {0, 1}
    PROVE  LET gl == FLASH_ProgramHalfWord(fl, n, 32768 + 8192 * v + a \div 2)
           IN  /\ fl[n] = FEE_EMPTY_WORD /\ 32768 + 8192 * v + a \div 2 \in HalfWord
               /\ gl \in Flash /\ TailErased(gl) /\ Replay(gl).slot = n + 1
               /\ Replay(gl).buf = PutWord(Replay(fl).buf, a, v)
               /\ ZeroWords(fl) /\ fl[a \div 2] # FEE_EMPTY_WORD => ZeroWords(gl)
<1>0. LogBase \in Nat /\ LogEnd \in Nat /\ LogBase < LogEnd /\ LogBase = DENSITY
      /\ a \div 2 \in Nat /\ a \div 2 < 8192
  BY Sizes, AddrWord
<1> DEFINE w == a \div 2
           h == 32768 + 8192 * v + w
           gl == Put(fl, n, h)
<1>1. n \in LogBase .. LogEnd - 1 /\ fl[n] = FEE_EMPTY_WORD /\ Replay(fl) \in LoopState
  BY <1>0, ReplayTyped
<1>2. h \in HalfWord
  <2>1. w \in Nat /\ w < 8192
    BY <1>0
  <2> HIDE DEF w
  <2> QED
    BY <2>1, SmallEntry
<1>3. /\ gl \in Flash /\ TailErased(gl) /\ Replay(gl).slot = n + 1
      /\ Replay(gl).buf = PutWord(Replay(fl).buf, a, v)
  BY AppendSmall
<1> HIDE DEF h
<1>4. FLASH_ProgramHalfWord(fl, n, h) = gl
  BY <1>1, ProgramPuts
<1>5. \A i \in 0 .. LogEnd - 1 : i # n => gl[i] = fl[i]
  <2>1. n \in 0 .. LogEnd - 1
    BY <1>0, <1>1
  <2> QED
    BY <1>2, <2>1, PutTyped
<1> HIDE DEF gl
<1>6. ASSUME ZeroWords(fl), fl[w] # FEE_EMPTY_WORD
      PROVE  ZeroWords(gl)
  <2>1. Off(Replay(fl).buf, Replay(gl).buf, w)
    <3>1. Replay(fl).buf \in Mirror
      BY <1>1 DEF LoopState
    <3>2. v \in HalfWord
      BY HalfWordRange
    <3> QED
      BY <1>3, <3>1, <3>2, PutWordOff
  <2>2. \A i \in 0 .. DENSITY - 1 : gl[i] = fl[i]
    BY <1>0, <1>1, <1>5
  <2> HIDE DEF w
  <2> QED
    BY <1>3, <1>6, <2>1, <2>2, ZeroKept
<1> QED
  BY <1>1, <1>2, <1>3, <1>4, <1>6 DEF h

\* And an entry of two half-words, the second of which holds the value.
LEMMA NextLogged ==
    ASSUME NEW fl \in Flash, TailErased(fl), NEW n, n = Replay(fl).slot, n + 1 < LogEnd,
           NEW a \in Addr, a % 2 = 0, FEE_BYTE_RANGE <= a, NEW v \in HalfWord, v # 0
    PROVE  LET h == 57344 + (a - FEE_BYTE_RANGE) \div 2
               gl == FLASH_ProgramHalfWord(fl, n, h)
               hl == FLASH_ProgramHalfWord(gl, n + 1, Flip(v))
           IN  /\ fl[n] = FEE_EMPTY_WORD /\ fl[n + 1] = FEE_EMPTY_WORD
               /\ h \in HalfWord /\ Flip(v) \in HalfWord
               /\ gl \in Flash /\ TailErased(gl) /\ Replay(gl).buf = Replay(fl).buf
               /\ ZeroWords(fl) => ZeroWords(gl)
               /\ hl \in Flash /\ TailErased(hl) /\ Replay(hl).slot = n + 2
               /\ Replay(hl).buf = PutWord(Replay(fl).buf, a, v)
               /\ ZeroWords(fl) /\ fl[a \div 2] # FEE_EMPTY_WORD => ZeroWords(hl)
<1>0. LogBase \in Nat /\ LogEnd \in Nat /\ LogBase < LogEnd /\ LogBase = DENSITY
      /\ a \in Nat /\ a < 2 * DENSITY /\ FEE_BYTE_RANGE \in Nat /\ FEE_BYTE_RANGE > 0
      /\ FEE_BYTE_RANGE % 2 = 0 /\ DENSITY <= 8192 /\ DENSITY \in Nat
  BY Sizes, AddrWord
<1> DEFINE w == (a - FEE_BYTE_RANGE) \div 2
           h == 57344 + w
           x == Flip(v)
           gl == Put(fl, n, h)
           hl == Put(gl, n + 1, x)
<1>1. n \in LogBase .. LogEnd - 1 /\ fl[n] = FEE_EMPTY_WORD /\ fl[n + 1] = FEE_EMPTY_WORD
      /\ Replay(fl) \in LoopState /\ n \in 0 .. LogEnd - 1 /\ n + 1 \in 0 .. LogEnd - 1
  BY <1>0, ReplayTyped DEF TailErased
<1>2. h \in HalfWord
  <2>1. w \in Nat /\ w < 8191
    BY <1>0, SMT
  <2> HIDE DEF w
  <2> QED
    BY <2>1, NextEntry
<1>3. /\ gl \in Flash /\ TailErased(gl) /\ gl[n + 1] = FEE_EMPTY_WORD
      /\ Replay(gl).buf = Replay(fl).buf
      /\ hl \in Flash /\ TailErased(hl) /\ Replay(hl).slot = n + 2
      /\ Replay(hl).buf = PutWord(Replay(fl).buf, a, v)
  BY AppendNext
<1>9. x \in HalfWord
  BY FlipOnce
<1> HIDE DEF h, x
<1>4. FLASH_ProgramHalfWord(fl, n, h) = gl
  BY <1>1, ProgramPuts
<1>5. \A i \in 0 .. LogEnd - 1 : i # n => gl[i] = fl[i]
  <2>1. gl = Put(fl, n, h) /\ n \in 0 .. LogEnd - 1
    BY <1>1
  <2> HIDE DEF gl
  <2> QED
    BY <1>2, <2>1, PutTyped
<1> HIDE DEF gl
<1>6. FLASH_ProgramHalfWord(gl, n + 1, x) = hl
  BY <1>3, ProgramPuts
<1>7. \A i \in 0 .. LogEnd - 1 : i # n + 1 => hl[i] = gl[i]
  <2> DEFINE m == n + 1
  <2>1. m \in 0 .. LogEnd - 1 /\ hl = Put(gl, m, x)
    BY <1>1
  <2> HIDE DEF m, hl
  <2>2. \A i \in 0 .. LogEnd - 1 : i # m => hl[i] = gl[i]
    BY <1>3, <1>9, <2>1, PutTyped
  <2> QED
    BY <2>2 DEF m
<1> HIDE DEF hl
<1>8. (\A i \in 0 .. DENSITY - 1 : gl[i] = fl[i]) /\ (\A i \in 0 .. DENSITY - 1 : hl[i] = fl[i])
  <2>1. \A i \in 0 .. DENSITY - 1 : i \in 0 .. LogEnd - 1 /\ i # n /\ i # n + 1
    BY <1>0, <1>1
  <2> QED
    BY <1>5, <1>7, <2>1
<1>10. ZeroWords(fl) => ZeroWords(gl)
  BY <1>3, <1>8 DEF ZeroWords
<1> DEFINE q == a \div 2
<1>11. ASSUME ZeroWords(fl), fl[q] # FEE_EMPTY_WORD
       PROVE  ZeroWords(hl)
  <2>1. Off(Replay(fl).buf, Replay(hl).buf, q)
    <3>1. Replay(fl).buf \in Mirror
      BY <1>1 DEF LoopState
    <3> QED
      BY <1>3, <3>1, PutWordOff
  <2> HIDE DEF q
  <2> QED
    BY <1>3, <1>8, <1>11, <2>1, ZeroKept
<1> QED
  BY <1>1, <1>2, <1>3, <1>4, <1>6, <1>9, <1>10, <1>11 DEF h, x

-----------------------------------------------------------------------------
(* A call asks for operations *)

\* No operations are left only when none are planned.
LEMMA AtRest ==
    ASSUME FlashInv, on, todo = << >>
    PROVE  PlanNone
<1>0. Pages \in Nat /\ DENSITY \in Nat
  BY Sizes
<1>1. Len(todo) = 0
  OBVIOUS
<1>2. Plan
  BY DEF FlashInv
<1>3. ~PlanOne /\ ~PlanTwo
  BY <1>1 DEF PlanOne, PlanTwo
<1>4. ~PlanEntryCompact
  BY <1>0, <1>1 DEF PlanEntryCompact
<1>5. ASSUME NEW k \in 0 .. Pages + DENSITY, NEW m \in {0, 1}, NEW a \in Addr
      PROVE  ~PlanCompact(k, m, a)
  BY <1>0, <1>1 DEF PlanCompact, CompactRest
<1>6. ASSUME NEW k \in 0 .. Pages
      PROVE  ~PlanErase(k)
  BY <1>0, <1>1 DEF PlanErase
<1> QED
  BY <1>2, <1>3, <1>4, <1>5, <1>6 DEF Plan

\* What a call leaves to be shown is the plan.
LEMMA CarryPlan ==
    ASSUME FlashInv, on, NEW buf \in Mirror, NEW ops \in Seq(Op), NEW slot \in LogBase .. LogEnd,
           NEW rest \in Seq(Call), Carry(buf, Ask(ops, slot), rest), Plan'
    PROVE  FlashInv'
<1>1. /\ DataBuf' = buf /\ empty_slot' = slot /\ todo' = ops /\ calls' = rest
      /\ flash' = flash /\ boot' = boot /\ on' = on
      /\ wiping' = wiping /\ damaged' = damaged /\ stale' = stale /\ spoilt' = spoilt
  BY DEF Carry, Ask, pages, history
<1>2. Typed'
  BY <1>1 DEF FlashInv, Typed
<1>3. (~damaged /\ ~wiping => TailErased(flash))' /\ (Kept => ZeroWords(flash))'
  BY <1>1 DEF FlashInv, Kept
<1> QED
  BY <1>1, <1>2, <1>3 DEF FlashInv

LEMMA ProgramTyped ==
    ASSUME NEW i \in 0 .. LogEnd - 1, NEW v \in HalfWord
    PROVE  Program(i, v) \in Op /\ IsProgram(Program(i, v))
           /\ Program(i, v).at = i /\ Program(i, v).value = v
<1>1. i \in Nat /\ v \in Nat
  BY Sizes, HalfWordRange
<1> QED
  BY <1>1 DEF Program, Op, IsProgram

LEMMA CarryNone ==
    ASSUME FlashInv, on, todo = << >>, NEW buf \in Mirror,
           NEW rest \in Seq(Call), Carry(buf, Ask(<< >>, empty_slot), rest),
           Kept => Synced(flash, buf)
    PROVE  FlashInv'
<1>1. /\ DataBuf' = buf /\ empty_slot' = empty_slot /\ todo' = << >>
      /\ flash' = flash /\ wiping' = wiping /\ damaged' = damaged /\ stale' = stale
  BY DEF Carry, Ask, pages, history
<1>2. PlanNone
  BY AtRest
<1>3. PlanNone'
  BY <1>1, <1>2 DEF PlanNone, Kept
<1>4. << >> \in Seq(Op) /\ empty_slot \in LogBase .. LogEnd
  BY DEF FlashInv, Typed
<1> QED
  BY <1>3, <1>4, CarryPlan DEF Plan

LEMMA CarryOne ==
    ASSUME FlashInv, on, todo = << >>, NEW buf \in Mirror, NEW slot \in LogBase .. LogEnd,
           NEW i \in 0 .. LogEnd - 1, NEW v \in HalfWord,
           NEW rest \in Seq(Call), Carry(buf, Ask(<<Program(i, v)>>, slot), rest),
           ~damaged => flash[i] = FEE_EMPTY_WORD
                       /\ Settled(FLASH_ProgramHalfWord(flash, i, v), slot),
           Kept /\ ~Covered(i) => Synced(FLASH_ProgramHalfWord(flash, i, v), buf)
    PROVE  FlashInv'
<1> DEFINE o == Program(i, v)
           ops == <<o>>
<1>1. /\ DataBuf' = buf /\ empty_slot' = slot /\ todo' = ops /\ boot' = boot
      /\ flash' = flash /\ wiping' = wiping /\ damaged' = damaged /\ stale' = stale
  BY DEF Carry, Ask, pages, history
<1>2. ~wiping
  BY AtRest DEF PlanNone
<1>3. o \in Op /\ IsProgram(o) /\ o.at = i /\ o.value = v
  BY ProgramTyped
<1> HIDE DEF o
<1>4. ops \in Seq(Op) /\ Len(ops) = 1 /\ ops[1] = o
  BY <1>3
<1>5. Programmed(flash, o) = FLASH_ProgramHalfWord(flash, i, v)
  BY <1>3 DEF Programmed
<1> HIDE DEF ops
<1>6. PlanOne'
  BY <1>1, <1>2, <1>3, <1>4, <1>5 DEF PlanOne, Kept, Covered
<1> QED
  BY <1>4, <1>6, CarryPlan DEF Plan, ops, o

LEMMA CarryTwo ==
    ASSUME FlashInv, on, todo = << >>, NEW buf \in Mirror, NEW slot \in LogBase .. LogEnd,
           NEW i \in LogBase .. LogEnd - 1, NEW v \in HalfWord,
           NEW j \in LogBase .. LogEnd - 1, NEW u \in HalfWord, i < j,
           NEW rest \in Seq(Call), Carry(buf, Ask(<<Program(i, v), Program(j, u)>>, slot), rest),
           LET fl == FLASH_ProgramHalfWord(flash, i, v)
               gl == FLASH_ProgramHalfWord(fl, j, u)
           IN  /\ ~damaged => /\ flash[i] = FEE_EMPTY_WORD /\ flash[j] = FEE_EMPTY_WORD
                              /\ TailErased(fl) /\ Settled(gl, slot)
               /\ Kept => Between(flash, fl, buf) /\ Synced(gl, buf)
    PROVE  FlashInv'
<1> DEFINE o == Program(i, v)
           p == Program(j, u)
           ops == <<o, p>>
           fl == FLASH_ProgramHalfWord(flash, i, v)
           gl == FLASH_ProgramHalfWord(fl, j, u)
<1>1. /\ DataBuf' = buf /\ empty_slot' = slot /\ todo' = ops /\ boot' = boot
      /\ flash' = flash /\ wiping' = wiping /\ damaged' = damaged /\ stale' = stale
  BY DEF Carry, Ask, pages, history
<1>2. ~wiping
  BY AtRest DEF PlanNone
<1>0. i \in 0 .. LogEnd - 1 /\ j \in 0 .. LogEnd - 1 /\ LogBase <= i
  BY Sizes
<1>3. /\ o \in Op /\ IsProgram(o) /\ o.at = i /\ o.value = v
      /\ p \in Op /\ IsProgram(p) /\ p.at = j /\ p.value = u
  BY <1>0, ProgramTyped
<1> HIDE DEF o, p
<1>4. ops \in Seq(Op) /\ Len(ops) = 2 /\ ops[1] = o /\ ops[2] = p
  BY <1>3
<1>5. Programmed(flash, o) = fl /\ Programmed(fl, p) = gl
  BY <1>3 DEF Programmed
<1>6. /\ ~damaged => /\ flash[i] = FEE_EMPTY_WORD /\ flash[j] = FEE_EMPTY_WORD
                     /\ TailErased(fl) /\ Settled(gl, slot)
      /\ Kept => Between(flash, fl, buf) /\ Synced(gl, buf)
  OBVIOUS
<1> HIDE DEF ops, fl, gl
<1>7. PlanTwo'
  BY <1>0, <1>1, <1>2, <1>3, <1>4, <1>5, <1>6 DEF PlanTwo, Kept
<1> QED
  BY <1>4, <1>7, CarryPlan DEF Plan, ops, o, p

\* The operations of eeprom_compact, eeprom_legacy_emulated_flash.c:315-345.
LEMMA CompactOps ==
    ASSUME NEW buf \in Mirror
    PROVE  LET ops == eeprom_clear \o Image(buf)
           IN  /\ eeprom_compact(buf) = Ask(ops, LogBase)
               /\ ops \in Seq(Op) /\ Len(ops) = Pages + DENSITY
               /\ \A a : CompactRest(ops, buf, 0, 0, a)
<1>0. Pages \in Nat /\ DENSITY \in Nat
  BY Sizes
<1> DEFINE im == Image(buf)
           cl == eeprom_clear
           ops == cl \o im
<1>1. cl \in Seq(Op) /\ Len(cl) = Pages /\ \A j \in 1 .. Pages : cl[j] = Erase(j - 1)
  <2>1. \A j \in 1 .. Pages : Erase(j - 1) \in Op
    BY <1>0 DEF Erase, Op
  <2> QED
    BY <1>0, <2>1 DEF eeprom_clear
<1>2. im \in Seq(Op) /\ Len(im) = DENSITY
  <2>1. ASSUME NEW w \in 1 .. DENSITY
        PROVE  im[w] \in Op
    <3> DEFINE n == w - 1
               value == Flip(WordAt(buf, 2 * n))
    <3>1. n \in 0 .. DENSITY - 1 /\ n \in 0 .. LogEnd - 1
      BY <1>0, Sizes
    <3>2. value \in HalfWord
      BY <3>1, WordTyped, FlipOnce
    <3>3. im[w] = IF value = FEE_EMPTY_WORD THEN Pass ELSE Program(n, value)
      BY DEF Image
    <3> HIDE DEF n, value
    <3>4. Program(n, value) \in Op
      BY <3>1, <3>2, ProgramTyped
    <3>5. Pass \in Op
      BY DEF Pass, Op
    <3> QED
      BY <3>3, <3>4, <3>5
  <2>2. DOMAIN im = 1 .. DENSITY
    BY DEF Image
  <2>3. im = [w \in 1 .. DENSITY |-> im[w]]
    BY <2>2 DEF Image
  <2> HIDE DEF im
  <2> QED
    BY <1>0, <2>1, <2>3
<1> HIDE DEF im, cl
<1>3. ops \in Seq(Op) /\ Len(ops) = Pages + DENSITY
  BY <1>0, <1>1, <1>2
<1>4. ASSUME NEW j \in 1 .. Pages + DENSITY, NEW a
      PROVE  ops[j] = CompactOp(buf, 0 + j, a)
  <2>1. CASE j <= Pages
    BY <1>0, <1>1, <1>2, <2>1 DEF CompactOp
  <2>2. CASE j > Pages
    BY <1>0, <1>1, <1>2, <2>2 DEF CompactOp, im
  <2>3. j <= Pages \/ j > Pages
    BY <1>0
  <2> HIDE DEF ops
  <2> QED
    BY <2>1, <2>2, <2>3
<1> HIDE DEF ops
<1>5. \A a : CompactRest(ops, buf, 0, 0, a)
  BY <1>0, <1>3, <1>4 DEF CompactRest
<1>6. eeprom_compact(buf) = Ask(ops, LogBase)
  BY DEF eeprom_compact, ops, cl, im
<1> QED
  BY <1>3, <1>5, <1>6 DEF ops, cl, im

LEMMA CarryCompact ==
    ASSUME FlashInv, on, todo = << >>, NEW buf \in Mirror,
           NEW rest \in Seq(Call), Carry(buf, eeprom_compact(buf), rest)
    PROVE  FlashInv'
<1>0. Pages \in Nat /\ DENSITY \in Nat /\ DENSITY > 0 /\ LogBase \in LogBase .. LogEnd
      /\ LogBase \in Nat /\ LogEnd \in Nat /\ LogBase < LogEnd /\ 0 \in Addr
  BY Sizes, AddrWord
<1> DEFINE ops == eeprom_clear \o Image(buf)
<1>1. /\ eeprom_compact(buf) = Ask(ops, LogBase)
      /\ ops \in Seq(Op) /\ CompactRest(ops, buf, 0, 0, 0)
  BY CompactOps
<1> HIDE DEF ops
<1>2. Carry(buf, Ask(ops, LogBase), rest)
  BY <1>1
<1>3. /\ DataBuf' = buf /\ empty_slot' = LogBase /\ todo' = ops
      /\ flash' = flash /\ wiping' = wiping
  BY <1>2 DEF Carry, Ask, pages, history
<1>4. wiping = FALSE
  BY AtRest DEF PlanNone, FlashInv, Typed
<1>5. ErasedUpTo(flash, 0)
  <2>1. \A i \in 0 .. LogEnd - 1 : ~(i \div PAGE < 0)
    BY PageOf, Sizes
  <2> QED
    BY <2>1 DEF ErasedUpTo
<1>6. PlanCompact(0, 0, 0)'
  <2>1. (wiping' <=> 0 > 0) /\ ~wiping'
    <3>1. ~(0 > 0)
      OBVIOUS
    <3> QED
      BY <1>3, <1>4, <3>1
  <2> QED
    BY <1>0, <1>1, <1>3, <1>4, <1>5, <2>1 DEF PlanCompact
<1>7. Plan'
  BY <1>0, <1>6 DEF Plan
<1> QED
  BY <1>0, <1>1, <1>2, <1>7, CarryPlan

LEMMA AddedOne ==
    ASSUME NEW s \in Seq(Op), NEW o \in Op
    PROVE  /\ s \o <<o>> \in Seq(Op) /\ Len(s \o <<o>>) = Len(s) + 1
           /\ (s \o <<o>>)[Len(s) + 1] = o
           /\ \A j \in 1 .. Len(s) : (s \o <<o>>)[j] = s[j]
  OBVIOUS

\* The low byte of a word compacts, and an entry of the high byte follows.
LEMMA CarryCompactEntry ==
    ASSUME FlashInv, on, todo = << >>, NEW buf \in Mirror, NEW a \in Addr, a < FEE_BYTE_RANGE,
           NEW rest \in Seq(Call),
           Carry(buf, Ask((eeprom_clear \o Image(buf)) \o <<Program(LogBase, 256 * a + buf[a])>>,
                          LogBase + 1), rest)
    PROVE  FlashInv'
<1>0. Pages \in Nat /\ DENSITY \in Nat /\ DENSITY > 0 /\ LogBase + 1 \in LogBase .. LogEnd
      /\ LogBase \in Nat /\ LogEnd \in Nat /\ LogBase < LogEnd /\ LogBase \in 0 .. LogEnd - 1
      /\ a \in Nat /\ a < 128
  BY Sizes, AddrWord
<1> DEFINE ops == eeprom_clear \o Image(buf)
           e == Program(LogBase, 256 * a + buf[a])
           all == ops \o <<e>>
<1>1. ops \in Seq(Op) /\ Len(ops) = Pages + DENSITY /\ CompactRest(ops, buf, 0, 0, a)
  BY CompactOps
<1>2. e \in Op
  <2>1. buf[a] \in Octet
    BY DEF Mirror
  <2>2. 256 * a + buf[a] \in HalfWord
    BY <1>0, <2>1, ByteEntry
  <2> QED
    BY <1>0, <2>2, ProgramTyped
<1>3. /\ DataBuf' = buf /\ empty_slot' = LogBase + 1 /\ todo' = all
      /\ flash' = flash /\ wiping' = wiping
  BY DEF Carry, Ask, pages, history
<1>9. Carry(buf, Ask(all, LogBase + 1), rest)
  OBVIOUS
<1> HIDE DEF ops
<1>4. wiping = FALSE
  BY AtRest DEF PlanNone, FlashInv, Typed
<1>5. ErasedUpTo(flash, 0)
  <2>1. \A i \in 0 .. LogEnd - 1 : ~(i \div PAGE < 0)
    BY PageOf, Sizes
  <2> QED
    BY <2>1 DEF ErasedUpTo
<1>6. all \in Seq(Op) /\ CompactRest(all, buf, 0, 1, a)
  <2>1. CompactOp(buf, 0 + (Pages + DENSITY + 1), a) = e
    BY <1>0 DEF CompactOp
  <2> HIDE DEF e
  <2>2. all \in Seq(Op) /\ Len(all) = Pages + DENSITY + 1
        /\ all[Pages + DENSITY + 1] = e /\ \A j \in 1 .. Pages + DENSITY : all[j] = ops[j]
    <3>1. Len(ops) + 1 = Pages + DENSITY + 1
      BY <1>1
    <3> QED
      BY <1>1, <1>2, <3>1, AddedOne
  <2> HIDE DEF all
  <2>3. \A j \in 1 .. Pages + DENSITY : ops[j] = CompactOp(buf, 0 + j, a)
    BY <1>0, <1>1 DEF CompactRest
  <2>4. \A j \in 1 .. Len(all) : all[j] = CompactOp(buf, 0 + j, a)
    BY <1>0, <2>1, <2>2, <2>3
  <2> QED
    BY <1>0, <2>2, <2>4 DEF CompactRest
<1> HIDE DEF all
<1>7. PlanCompact(0, 1, a)'
  <2>1. (wiping' <=> 0 > 0) /\ ~wiping'
    <3>1. ~(0 > 0)
      OBVIOUS
    <3> QED
      BY <1>3, <1>4, <3>1
  <2> QED
    BY <1>0, <1>3, <1>4, <1>5, <1>6, <2>1 DEF PlanCompact
<1>8. Plan'
  BY <1>0, <1>7 DEF Plan
<1> QED
  BY <1>0, <1>6, <1>8, <1>9, CarryPlan

\* An entry of the low byte takes the last of the log, and the high byte compacts.
LEMMA CarryEntryCompact ==
    ASSUME FlashInv, on, todo = << >>, NEW buf \in Mirror,
           NEW i \in LogBase .. LogEnd - 1, NEW v \in HalfWord, NEW rest \in Seq(Call),
           Carry(buf, Ask(<<Program(i, v)>> \o (eeprom_clear \o Image(buf)), LogBase), rest),
           LET fl == FLASH_ProgramHalfWord(flash, i, v)
           IN  /\ ~damaged => flash[i] = FEE_EMPTY_WORD /\ TailErased(fl)
               /\ Kept => Between(flash, fl, buf)
    PROVE  FlashInv'
<1>0. Pages \in Nat /\ DENSITY \in Nat /\ DENSITY > 0 /\ LogBase \in LogBase .. LogEnd
      /\ i \in 0 .. LogEnd - 1 /\ LogBase <= i
  BY Sizes
<1> DEFINE ops == eeprom_clear \o Image(buf)
           o == Program(i, v)
           all == <<o>> \o ops
           fl == FLASH_ProgramHalfWord(flash, i, v)
<1>1. ops \in Seq(Op) /\ Len(ops) = Pages + DENSITY /\ CompactRest(ops, buf, 0, 0, 0)
  BY CompactOps
<1>2. o \in Op /\ IsProgram(o) /\ o.at = i /\ o.value = v
  BY <1>0, ProgramTyped
<1>3. /\ DataBuf' = buf /\ empty_slot' = LogBase /\ todo' = all
      /\ flash' = flash /\ wiping' = wiping /\ damaged' = damaged /\ stale' = stale
  BY DEF Carry, Ask, pages, history
<1>9. Carry(buf, Ask(all, LogBase), rest)
  OBVIOUS
<1>10. /\ ~damaged => flash[i] = FEE_EMPTY_WORD /\ TailErased(fl)
       /\ Kept => Between(flash, fl, buf)
  OBVIOUS
<1> HIDE DEF ops
<1>4. ~wiping
  BY AtRest DEF PlanNone
<1>5. Programmed(flash, o) = fl
  BY <1>2 DEF Programmed
<1> HIDE DEF o, fl
<1>6. all \in Seq(Op) /\ Len(all) = 1 + Pages + DENSITY /\ all[1] = o /\ Tail(all) = ops
  BY <1>0, <1>1, <1>2, SMTT(20)
<1> HIDE DEF all
<1>7. PlanEntryCompact'
  BY <1>0, <1>1, <1>2, <1>3, <1>4, <1>5, <1>6, <1>10 DEF PlanEntryCompact, Kept
<1>8. Plan'
  BY <1>7 DEF Plan
<1> QED
  BY <1>0, <1>6, <1>8, <1>9, CarryPlan

LEMMA SkipKeeps ==
    ASSUME FlashInv, on, todo = << >>, NEW rest \in Seq(Call), Skip(rest)
    PROVE  FlashInv'
<1>1. /\ calls' = rest /\ flash' = flash /\ boot' = boot /\ DataBuf' = DataBuf
      /\ empty_slot' = empty_slot /\ todo' = todo /\ on' = on
      /\ wiping' = wiping /\ damaged' = damaged /\ stale' = stale /\ spoilt' = spoilt
  BY DEF Skip, pages, history
<1>2. PlanNone
  BY AtRest
<1>3. PlanNone'
  BY <1>1, <1>2 DEF PlanNone, Kept
<1>4. Typed'
  BY <1>1 DEF FlashInv, Typed
<1>5. (~damaged /\ ~wiping => TailErased(flash))' /\ (Kept => ZeroWords(flash))'
  BY <1>1 DEF FlashInv, Kept
<1> QED
  BY <1>1, <1>3, <1>4, <1>5 DEF FlashInv, Plan

LEMMA CarryDirect ==
    ASSUME FlashInv, on, todo = << >>, NEW buf \in Mirror, NEW a \in Addr,
           Off(DataBuf, buf, a \div 2), Direct(a),
           NEW rest \in Seq(Call), Carry(buf, eeprom_write_direct_entry(buf, a), rest)
    PROVE  FlashInv'
<1> DEFINE w == a \div 2
           d == WordAt(buf, 2 * w)
           v == Flip(d)
           gl == FLASH_ProgramHalfWord(flash, w, v)
<1>1. w \in 0 .. DENSITY - 1 /\ w \in 0 .. LogEnd - 1 /\ w < LogBase
  BY AddrWord, Sizes
<1>2. d \in HalfWord
  BY <1>1, WordTyped
<1>3. flash[w] = FEE_EMPTY_WORD
  BY DEF Direct
<1>4. flash \in Flash /\ DataBuf \in Mirror /\ empty_slot \in LogBase .. LogEnd
      /\ boot = Replay(flash)
  BY DEF FlashInv, Typed
<1>5. eeprom_write_direct_entry(buf, a)
        = Ask(IF v = FEE_EMPTY_WORD THEN << >> ELSE <<Program(w, v)>>, empty_slot)
  BY DEF eeprom_write_direct_entry, Aligned
<1>6. v \in HalfWord /\ (v = FEE_EMPTY_WORD <=> d = 0)
  <2> HIDE DEF d
  <2> QED
    BY <1>2, FlipOnce
<1>12. Off(DataBuf, buf, w)
  OBVIOUS
<1> HIDE DEF w
<1>7. /\ \A slot : Settled(flash, slot) => Settled(gl, slot)
      /\ Synced(flash, DataBuf) /\ w \notin Replay(flash).words => Synced(gl, buf)
      /\ Synced(flash, DataBuf) /\ d = 0 => Synced(flash, buf)
  BY <1>1, <1>3, <1>4, <1>12, DirectEntry
<1> HIDE DEF d, v
<1>8. /\ ~damaged => Settled(flash, empty_slot)
      /\ Kept => Synced(flash, DataBuf)
  BY AtRest DEF PlanNone
<1>9. CASE v = FEE_EMPTY_WORD
  <2>1. Carry(buf, Ask(<< >>, empty_slot), rest)
    BY <1>5, <1>9
  <2> HIDE DEF gl
  <2>2. Kept => Synced(flash, buf)
    BY <1>6, <1>7, <1>8, <1>9
  <2> QED
    BY <2>1, <2>2, CarryNone
<1>10. CASE v # FEE_EMPTY_WORD
  <2>1. Carry(buf, Ask(<<Program(w, v)>>, empty_slot), rest)
    BY <1>5, <1>10
  <2>2. ~damaged => flash[w] = FEE_EMPTY_WORD /\ Settled(gl, empty_slot)
    <3> HIDE DEF gl
    <3> QED
      BY <1>3, <1>7, <1>8
  <2>3. Kept /\ ~Covered(w) => Synced(gl, buf)
    <3> HIDE DEF gl
    <3> QED
      BY <1>1, <1>4, <1>7, <1>8 DEF Covered
  <2> QED
    BY <1>1, <1>4, <1>6, <2>1, <2>2, <2>3, CarryOne
<1> QED
  BY <1>9, <1>10

\* With one byte changed, the mirror is the old one but for it.
LEMMA OneByte ==
    ASSUME NEW old \in Mirror, NEW new \in Mirror, NEW a \in Addr,
           \A x \in Addr : x # a => new[x] = old[x]
    PROVE  new = [old EXCEPT ![a] = new[a]]
<1>1. [old EXCEPT ![a] = new[a]] \in Mirror
  BY DEF Mirror
<1>2. \A x \in Addr : new[x] = [old EXCEPT ![a] = new[a]][x]
  BY DEF Mirror
<1> DEFINE y == [old EXCEPT ![a] = new[a]]
<1> HIDE DEF y
<1> QED
  BY <1>1, <1>2, SameMirror DEF y

LEMMA CarryByte ==
    ASSUME FlashInv, on, todo = << >>, NEW buf \in Mirror, NEW a \in Addr, a < FEE_BYTE_RANGE,
           \A x \in Addr : x # a => buf[x] = DataBuf[x], ~Direct(a),
           NEW rest \in Seq(Call), Carry(buf, eeprom_write_log_byte_entry(buf, empty_slot, a), rest)
    PROVE  FlashInv'
<1>0. LogBase \in Nat /\ LogEnd \in Nat /\ LogBase < LogEnd /\ a \in Nat /\ a < 128
  BY Sizes, AddrWord
<1>1. flash \in Flash /\ DataBuf \in Mirror /\ empty_slot \in LogBase .. LogEnd
      /\ boot = Replay(flash)
  BY DEF FlashInv, Typed
<1>2. /\ ~damaged => Settled(flash, empty_slot)
      /\ Kept => Synced(flash, DataBuf) /\ ~damaged
  BY AtRest DEF PlanNone, Kept
<1>3. CASE empty_slot >= LogEnd
  <2>1. Carry(buf, eeprom_compact(buf), rest)
    BY <1>3 DEF eeprom_write_log_byte_entry
  <2> QED
    BY <2>1, CarryCompact
<1>4. CASE ~(empty_slot >= LogEnd)
  <2> DEFINE b == buf[a]
             v == 256 * a + b
             gl == FLASH_ProgramHalfWord(flash, empty_slot, v)
  <2>1. Carry(buf, Ask(<<Program(empty_slot, v)>>, empty_slot + 1), rest)
    BY <1>4 DEF eeprom_write_log_byte_entry
  <2>2. /\ empty_slot + 1 \in LogBase .. LogEnd /\ empty_slot \in 0 .. LogEnd - 1
        /\ empty_slot < LogEnd
    BY <1>0, <1>1, <1>4
  <2>3. b \in Octet
    BY DEF Mirror
  <2>4. buf = [DataBuf EXCEPT ![a] = b]
    BY <1>1, OneByte
  <2> HIDE DEF b
  <2>5. v \in HalfWord
    <3>1. a \in Nat /\ a < 128
      BY <1>0
    <3>2. 256 * a + b \in HalfWord
      BY <2>3, <3>1, ByteEntry
    <3> QED
      BY <3>2
  <2>6. ASSUME Settled(flash, empty_slot)
        PROVE  /\ flash[empty_slot] = FEE_EMPTY_WORD /\ Settled(gl, empty_slot + 1)
               /\ Replay(gl).buf = [Replay(flash).buf EXCEPT ![a] = b]
               /\ ZeroWords(flash) => ZeroWords(gl)
    <3>1. TailErased(flash) /\ empty_slot = Replay(flash).slot
      BY <2>6 DEF Settled
    <3>2. flash[a \div 2] # FEE_EMPTY_WORD
      BY DEF Direct
    <3> QED
      BY <1>1, <2>2, <2>3, <3>1, <3>2, ByteLogged DEF Settled
  <2> HIDE DEF v
  <2>7. ~damaged => flash[empty_slot] = FEE_EMPTY_WORD /\ Settled(gl, empty_slot + 1)
    <3> HIDE DEF gl
    <3> QED
      BY <1>2, <2>6
  <2>8. Kept => Synced(gl, buf)
    <3> HIDE DEF gl
    <3> QED
      BY <1>2, <2>4, <2>6 DEF Synced
  <2> QED
    BY <2>1, <2>2, <2>5, <2>7, <2>8, CarryOne
<1> QED
  BY <1>3, <1>4

LEMMA SmallTyped ==
    ASSUME NEW a \in Addr, NEW v \in {0, 1}
    PROVE  32768 + 8192 * v + a \div 2 \in HalfWord
<1> DEFINE w == a \div 2
<1>1. w \in Nat /\ w < 8192
  BY AddrWord, Sizes
<1> HIDE DEF w
<1>2. 32768 + 8192 * v + w \in HalfWord
  BY <1>1, SmallEntry
<1> QED
  BY <1>2 DEF w

\* The halves of a Word-Next entry are half-words.
LEMMA NextTyped ==
    ASSUME NEW a \in Addr, FEE_BYTE_RANGE <= a
    PROVE  57344 + (a - FEE_BYTE_RANGE) \div 2 \in HalfWord
<1>0. a \in Nat /\ a < 2 * DENSITY /\ FEE_BYTE_RANGE \in Nat /\ FEE_BYTE_RANGE > 0
      /\ FEE_BYTE_RANGE % 2 = 0 /\ DENSITY <= 8192 /\ DENSITY \in Nat
  BY Sizes, AddrWord
<1> DEFINE w == (a - FEE_BYTE_RANGE) \div 2
<1>1. w \in Nat /\ w < 8191
  BY <1>0, SMT
<1> HIDE DEF w
<1>2. 57344 + w \in HalfWord
  BY <1>1, NextEntry
<1> QED
  BY <1>2 DEF w

\* With one word changed, the mirror is the old one but for it.
LEMMA OneWord ==
    ASSUME NEW old \in Mirror, NEW new \in Mirror, NEW a \in Addr, a % 2 = 0,
           Off(old, new, a \div 2)
    PROVE  WordAt(new, a) \in HalfWord /\ new = PutWord(old, a, WordAt(new, a))
<1> DEFINE w == a \div 2
           v == WordAt(new, a)
           y == PutWord(old, a, v)
<1>1. w \in 0 .. DENSITY - 1 /\ a = 2 * w
  BY AddrWord
<1>2. v \in HalfWord /\ v % 256 = new[a] /\ v \div 256 = new[a + 1]
  <2> HIDE DEF w
  <2> QED
    BY <1>1, WordTyped
<1> HIDE DEF v
<1>3. y \in Mirror /\ y[a] = new[a] /\ y[a + 1] = new[a + 1]
      /\ \A x \in Addr : x # a /\ x # a + 1 => y[x] = old[x]
  BY <1>2, PutWordTyped
<1> HIDE DEF y
<1>4. \A x \in Addr : x \div 2 # w \/ x = a \/ x = a + 1
  BY AddrWord
<1>5. \A x \in Addr : x # a /\ x # a + 1 => new[x] = old[x]
  BY <1>4 DEF Off
<1>6. \A x \in Addr : new[x] = y[x]
  BY <1>3, <1>5
<1>7. new = y
  BY <1>3, <1>6, SameMirror
<1> QED
  BY <1>2, <1>7 DEF y, v

LEMMA CarryWord ==
    ASSUME FlashInv, on, todo = << >>, NEW buf \in Mirror, NEW a \in Addr, a % 2 = 0,
           FEE_BYTE_RANGE <= a, Off(DataBuf, buf, a \div 2), ~Direct(a),
           NEW rest \in Seq(Call), Carry(buf, eeprom_write_log_word_entry(buf, empty_slot, a), rest)
    PROVE  FlashInv'
<1>0. LogBase \in Nat /\ LogEnd \in Nat /\ LogBase < LogEnd
  BY Sizes
<1>1. flash \in Flash /\ DataBuf \in Mirror /\ empty_slot \in LogBase .. LogEnd
      /\ boot = Replay(flash)
  BY DEF FlashInv, Typed
<1>2. /\ ~damaged => TailErased(flash) /\ empty_slot = Replay(flash).slot
      /\ Kept => Synced(flash, DataBuf) /\ ~damaged
  BY AtRest DEF PlanNone, Kept, Settled
<1> DEFINE v == WordAt(buf, a)
<1>3. v \in HalfWord /\ buf = PutWord(DataBuf, a, v)
  BY <1>1, OneWord
<1>4. v \in Nat
  BY <1>3, HalfWordRange
<1>5. flash[a \div 2] # FEE_EMPTY_WORD
  BY DEF Direct
<1>6. CASE empty_slot > LogEnd - (IF v <= 1 THEN 1 ELSE 2)
  <2>1. Carry(buf, eeprom_compact(buf), rest)
    BY <1>6 DEF eeprom_write_log_word_entry
  <2> QED
    BY <2>1, CarryCompact
<1>7. CASE ~(empty_slot > LogEnd - (IF v <= 1 THEN 1 ELSE 2)) /\ v <= 1
  <2> DEFINE h == 32768 + 8192 * v + a \div 2
             gl == FLASH_ProgramHalfWord(flash, empty_slot, h)
  <2>1. Carry(buf, Ask(<<Program(empty_slot, h)>>, empty_slot + 1), rest)
    BY <1>7 DEF eeprom_write_log_word_entry
  <2> HIDE DEF v
  <2>2. /\ empty_slot + 1 \in LogBase .. LogEnd /\ empty_slot \in 0 .. LogEnd - 1
        /\ empty_slot < LogEnd
    BY <1>0, <1>1, <1>7
  <2>3. v \in {0, 1}
    BY <1>4, <1>7
  <2>4. ASSUME TailErased(flash), empty_slot = Replay(flash).slot
        PROVE  /\ flash[empty_slot] = FEE_EMPTY_WORD /\ Settled(gl, empty_slot + 1)
               /\ Replay(gl).buf = PutWord(Replay(flash).buf, a, v)
               /\ ZeroWords(flash) => ZeroWords(gl)
    BY <1>1, <1>5, <2>2, <2>3, <2>4, SmallLogged DEF Settled
  <2>5. h \in HalfWord
    BY <2>3, SmallTyped
  <2> HIDE DEF h
  <2>6. ~damaged => flash[empty_slot] = FEE_EMPTY_WORD /\ Settled(gl, empty_slot + 1)
    <3> HIDE DEF gl
    <3> QED
      BY <1>2, <2>4
  <2>7. Kept => Synced(gl, buf)
    <3> HIDE DEF gl
    <3> QED
      BY <1>2, <1>3, <2>4 DEF Synced
  <2> QED
    BY <2>1, <2>2, <2>5, <2>6, <2>7, CarryOne
<1>8. CASE ~(empty_slot > LogEnd - (IF v <= 1 THEN 1 ELSE 2)) /\ ~(v <= 1)
  <2> DEFINE h == 57344 + (a - FEE_BYTE_RANGE) \div 2
             u == Flip(v)
             n == empty_slot
             m == empty_slot + 1
             k == empty_slot + 2
             fl == FLASH_ProgramHalfWord(flash, n, h)
             gl == FLASH_ProgramHalfWord(fl, m, u)
  <2>1. Carry(buf, Ask(<<Program(n, h), Program(m, u)>>, k), rest)
    BY <1>8 DEF eeprom_write_log_word_entry
  <2> HIDE DEF v
  <2>2. /\ k \in LogBase .. LogEnd /\ n \in LogBase .. LogEnd - 1
        /\ m \in LogBase .. LogEnd - 1 /\ m < LogEnd /\ n < m
    BY <1>0, <1>1, <1>8
  <2>3. v # 0
    BY <1>8
  <2>4. ASSUME TailErased(flash), n = Replay(flash).slot
        PROVE  /\ flash[n] = FEE_EMPTY_WORD /\ flash[m] = FEE_EMPTY_WORD
               /\ TailErased(fl) /\ Replay(fl).buf = Replay(flash).buf
               /\ ZeroWords(flash) => ZeroWords(fl)
               /\ Settled(gl, k) /\ Replay(gl).buf = PutWord(Replay(flash).buf, a, v)
               /\ ZeroWords(flash) => ZeroWords(gl)
    BY <1>1, <1>3, <1>5, <2>2, <2>3, <2>4, NextLogged DEF Settled
  <2>5. h \in HalfWord /\ u \in HalfWord
    BY <1>3, NextTyped, FlipOnce
  <2> HIDE DEF h, u, n, m, k
  <2>6. ~damaged => /\ flash[n] = FEE_EMPTY_WORD /\ flash[m] = FEE_EMPTY_WORD
                    /\ TailErased(fl) /\ Settled(gl, k)
    <3> HIDE DEF fl, gl
    <3> QED
      BY <1>2, <2>4 DEF n
  <2>7. Kept => Between(flash, fl, buf) /\ Synced(gl, buf)
    <3> HIDE DEF fl, gl
    <3> QED
      BY <1>2, <1>3, <2>4 DEF Between, Synced, n
  <2> QED
    BY <2>1, <2>2, <2>5, <2>6, <2>7, CarryTwo
<1> QED
  BY <1>6, <1>7, <1>8

LEMMA TwoOps ==
    ASSUME NEW o \in Op, NEW p \in Op
    PROVE  <<o>> \o <<p>> = <<o, p>>
<1> DEFINE s == <<o>> \o <<p>>
           t == <<o, p>>
<1>1. s \in Seq(Op) /\ t \in Seq(Op) /\ Len(s) = 2 /\ Len(t) = 2
      /\ s[1] = o /\ s[2] = p /\ t[1] = o /\ t[2] = p
  OBVIOUS
<1> HIDE DEF s, t
<1>2. \A i \in 1 .. 2 : s[i] = t[i]
  BY <1>1
<1>3. s = t
  BY <1>1, <1>2
<1> QED
  BY <1>3 DEF s, t

\* EEPROM_WriteDataWord below FEE_BYTE_RANGE, when both bytes change.
LEMMA CarryTwoBytes ==
    ASSUME FlashInv, on, todo = << >>, NEW buf \in Mirror, NEW a \in Addr, a % 2 = 0,
           a < FEE_BYTE_RANGE, Off(DataBuf, buf, a \div 2), ~Direct(a),
           buf[a] # DataBuf[a], buf[a + 1] # DataBuf[a + 1],
           NEW rest \in Seq(Call), Carry(buf, LogWord(buf, a), rest)
    PROVE  FlashInv'
<1> DEFINE c == a + 1
           n == empty_slot
           m == empty_slot + 1
           v == 256 * a + buf[a]
           u == 256 * c + buf[c]
           ops == eeprom_clear \o Image(buf)
           fl == FLASH_ProgramHalfWord(flash, n, v)
           gl == FLASH_ProgramHalfWord(fl, m, u)
<1>0. LogBase \in Nat /\ LogEnd \in Nat /\ LogBase < LogEnd /\ LogBase = DENSITY
      /\ a \in Nat /\ a < 128 /\ FEE_BYTE_RANGE \in Nat /\ FEE_BYTE_RANGE <= 128
      /\ FEE_BYTE_RANGE % 2 = 0
  BY Sizes, AddrWord
<1>1. flash \in Flash /\ DataBuf \in Mirror /\ n \in LogBase .. LogEnd /\ boot = Replay(flash)
  BY DEF FlashInv, Typed
<1>2. /\ ~damaged => TailErased(flash) /\ n = Replay(flash).slot
      /\ Kept => Synced(flash, DataBuf) /\ ~damaged
  BY AtRest DEF PlanNone, Kept, Settled
<1>3. c \in Addr /\ c < FEE_BYTE_RANGE /\ c \in Nat /\ c < 128 /\ c \div 2 = a \div 2 /\ c # a
  <2>1. c \in Addr /\ c \div 2 = a \div 2
    BY AddrWord
  <2>2. c < FEE_BYTE_RANGE /\ c \in Nat /\ c < 128 /\ c # a
    BY <1>0
  <2> QED
    BY <2>1, <2>2
<1>4. flash[a \div 2] # FEE_EMPTY_WORD /\ a \div 2 \in 0 .. DENSITY - 1
  BY AddrWord DEF Direct
<1>5. buf[a] \in Octet /\ buf[c] \in Octet
  BY <1>3 DEF Mirror
<1>6. v \in HalfWord /\ u \in HalfWord
  <2>1. v \in HalfWord
    <3> DEFINE b == buf[a]
    <3>1. b \in Octet /\ v = 256 * a + b
      BY <1>5
    <3> HIDE DEF b, v
    <3>2. 256 * a + b \in HalfWord
      BY <1>0, <3>1, ByteEntry
    <3> QED
      BY <3>1, <3>2
  <2> HIDE DEF c
  <2>2. u \in HalfWord
    <3> DEFINE b == buf[c]
    <3>1. b \in Octet /\ u = 256 * c + b
      BY <1>5
    <3> HIDE DEF b, u
    <3>2. 256 * c + b \in HalfWord
      BY <1>3, <3>1, ByteEntry
    <3> QED
      BY <3>1, <3>2
  <2> QED
    BY <2>1, <2>2
<1>7. eeprom_compact(buf).ops = ops /\ eeprom_compact(buf).slot = LogBase
  BY DEF eeprom_compact, Ask
<1> DEFINE Entry(slot, x) == eeprom_write_log_byte_entry(buf, slot, x)
<1>13. LogWord(buf, a) = Ask(Entry(n, a).ops \o Entry(Entry(n, a).slot, c).ops,
                             Entry(Entry(n, a).slot, c).slot)
  BY DEF LogWord
<1>14. \A slot, x : slot >= LogEnd => Entry(slot, x).ops = ops /\ Entry(slot, x).slot = LogBase
  BY <1>7 DEF eeprom_write_log_byte_entry
<1>15. \A slot, x : ~(slot >= LogEnd) =>
         /\ Entry(slot, x).ops = <<Program(slot, 256 * x + buf[x])>>
         /\ Entry(slot, x).slot = slot + 1
  BY DEF eeprom_write_log_byte_entry, Ask
<1> HIDE DEF Entry
<1>8. CASE n >= LogEnd
  <2>1. Carry(buf, Ask(ops \o <<Program(LogBase, u)>>, LogBase + 1), rest)
    <3>1. LogWord(buf, a) = Ask(ops \o <<Program(LogBase, u)>>, LogBase + 1)
      <4> HIDE DEF ops, c, n
      <4>1. Entry(n, a).ops = ops /\ Entry(n, a).slot = LogBase
        BY <1>8, <1>14
      <4>2. ~(LogBase >= LogEnd)
        BY <1>0
      <4>3. Entry(LogBase, c).ops = <<Program(LogBase, u)>> /\ Entry(LogBase, c).slot = LogBase + 1
        BY <1>15, <4>2
      <4> HIDE DEF u
      <4> QED
        BY <1>13, <4>1, <4>3
    <3> HIDE DEF ops, u
    <3> QED
      BY <3>1
  <2> QED
    BY <1>3, <2>1, CarryCompactEntry
<1>9. ASSUME n < LogEnd, TailErased(flash), n = Replay(flash).slot
      PROVE  /\ flash[n] = FEE_EMPTY_WORD /\ fl \in Flash /\ TailErased(fl) /\ Replay(fl).slot = m
             /\ Replay(fl).buf = [Replay(flash).buf EXCEPT ![a] = buf[a]]
             /\ fl[a \div 2] # FEE_EMPTY_WORD
             /\ \A i \in 0 .. LogEnd - 1 : i # n => fl[i] = flash[i]
             /\ ZeroWords(flash) => ZeroWords(fl)
  <2>1. /\ flash[n] = FEE_EMPTY_WORD /\ fl \in Flash /\ TailErased(fl) /\ Replay(fl).slot = m
        /\ Replay(fl).buf = [Replay(flash).buf EXCEPT ![a] = buf[a]]
        /\ \A i \in 0 .. LogEnd - 1 : i # n => fl[i] = flash[i]
        /\ ZeroWords(flash) /\ flash[a \div 2] # FEE_EMPTY_WORD => ZeroWords(fl)
    BY <1>1, <1>5, <1>9, ByteLogged
  <2>2. a \div 2 \in 0 .. LogEnd - 1 /\ a \div 2 # n
    BY <1>0, <1>1, <1>4
  <2> HIDE DEF fl, n, m
  <2> QED
    BY <1>4, <2>1, <2>2
<1>10. Kept /\ n < LogEnd => Between(flash, fl, buf)
  <2> SUFFICES ASSUME Kept, n < LogEnd
               PROVE  Between(flash, fl, buf)
    OBVIOUS
  <2>1. Replay(fl).buf = [DataBuf EXCEPT ![a] = buf[a]] /\ ZeroWords(fl)
        /\ Replay(flash).buf = DataBuf
    <3> HIDE DEF fl, n, m
    <3> QED
      BY <1>2, <1>9 DEF Synced
  <2> HIDE DEF fl, n, m, v
  <2>2. \A x \in Addr : Replay(fl).buf[x] \in {DataBuf[x], buf[x]}
    BY <1>1, <2>1 DEF Mirror
  <2> QED
    BY <2>1, <2>2 DEF Between
<1>11. CASE n < LogEnd /\ m >= LogEnd
  <2>1. Carry(buf, Ask(<<Program(n, v)>> \o ops, LogBase), rest)
    <3>1. LogWord(buf, a) = Ask(<<Program(n, v)>> \o ops, LogBase)
      <4>1. ~(n >= LogEnd) /\ m >= LogEnd
        BY <1>0, <1>1, <1>11
      <4>2. Entry(n, a).ops = <<Program(n, v)>> /\ Entry(n, a).slot = m
        BY <1>15, <4>1
      <4> HIDE DEF ops, c, n, m, v
      <4>3. Entry(m, c).ops = ops /\ Entry(m, c).slot = LogBase
        BY <1>14, <4>1
      <4> QED
        BY <1>13, <4>2, <4>3
    <3> HIDE DEF ops, v
    <3> QED
      BY <3>1
  <2>2. n \in LogBase .. LogEnd - 1
    BY <1>0, <1>1, <1>11
  <2>3. /\ ~damaged => flash[n] = FEE_EMPTY_WORD /\ TailErased(fl)
        /\ Kept => Between(flash, fl, buf)
    <3> HIDE DEF fl, n, m
    <3> QED
      BY <1>2, <1>9, <1>10, <1>11
  <2> HIDE DEF v, n
  <2> QED
    BY <1>6, <2>1, <2>2, <2>3, CarryEntryCompact
<1>12. CASE n < LogEnd /\ ~(m >= LogEnd)
  <2> DEFINE k == m + 1
  <2>1. Carry(buf, Ask(<<Program(n, v), Program(m, u)>>, k), rest)
    <3>1. LogWord(buf, a) = Ask(<<Program(n, v)>> \o <<Program(m, u)>>, k)
      <4>1. ~(n >= LogEnd) /\ ~(m >= LogEnd)
        BY <1>0, <1>1, <1>12
      <4>2. Entry(n, a).ops = <<Program(n, v)>> /\ Entry(n, a).slot = m
        BY <1>15, <4>1
      <4> HIDE DEF c, n, m, v
      <4>3. Entry(m, c).ops = <<Program(m, u)>> /\ Entry(m, c).slot = k
        BY <1>15, <4>1
      <4> HIDE DEF k, u
      <4> QED
        BY <1>13, <4>2, <4>3
    <3>3. n \in 0 .. LogEnd - 1 /\ m \in 0 .. LogEnd - 1
      BY <1>0, <1>1, <1>12
    <3> HIDE DEF v, u, n, m, k
    <3>2. <<Program(n, v)>> \o <<Program(m, u)>> = <<Program(n, v), Program(m, u)>>
      BY <1>6, <3>3, ProgramTyped, TwoOps
    <3> QED
      BY <3>1, <3>2
  <2>2. /\ n \in LogBase .. LogEnd - 1 /\ m \in LogBase .. LogEnd - 1 /\ n < m
        /\ k \in LogBase .. LogEnd /\ m < LogEnd /\ m \in 0 .. LogEnd - 1 /\ m # n
    BY <1>0, <1>1, <1>12
  <2>3. ASSUME TailErased(flash), n = Replay(flash).slot
        PROVE  /\ flash[m] = FEE_EMPTY_WORD
               /\ TailErased(gl) /\ Replay(gl).slot = k
               /\ Replay(gl).buf = [Replay(fl).buf EXCEPT ![c] = buf[c]]
               /\ ZeroWords(flash) => ZeroWords(gl)
    <3>1. /\ fl \in Flash /\ TailErased(fl) /\ m = Replay(fl).slot
          /\ fl[a \div 2] # FEE_EMPTY_WORD /\ (ZeroWords(flash) => ZeroWords(fl))
          /\ \A i \in 0 .. LogEnd - 1 : i # n => fl[i] = flash[i]
      <4> HIDE DEF fl, n, m
      <4> QED
        BY <1>9, <1>12, <2>3
    <3> HIDE DEF fl, n, m, c
    <3>2. /\ fl[m] = FEE_EMPTY_WORD /\ TailErased(gl) /\ Replay(gl).slot = m + 1
          /\ Replay(gl).buf = [Replay(fl).buf EXCEPT ![c] = buf[c]]
          /\ ZeroWords(fl) /\ fl[c \div 2] # FEE_EMPTY_WORD => ZeroWords(gl)
      <4> DEFINE b == buf[c]
      <4>1. b \in Octet /\ gl = FLASH_ProgramHalfWord(fl, m, 256 * c + b)
        BY <1>5
      <4>2. m < LogEnd /\ c \in Addr /\ c < FEE_BYTE_RANGE
        BY <1>3, <2>2
      <4>3. /\ fl[m] = FEE_EMPTY_WORD /\ TailErased(gl) /\ Replay(gl).slot = m + 1
            /\ Replay(gl).buf = [Replay(fl).buf EXCEPT ![c] = b]
            /\ ZeroWords(fl) /\ fl[c \div 2] # FEE_EMPTY_WORD => ZeroWords(gl)
        <5> HIDE DEF gl, b
        <5> QED
          BY <3>1, <4>1, <4>2, ByteLogged
      <4> QED
        BY <4>3
    <3> HIDE DEF gl
    <3> QED
      BY <1>3, <2>2, <3>1, <3>2
  <2>4. ~damaged => /\ flash[n] = FEE_EMPTY_WORD /\ flash[m] = FEE_EMPTY_WORD
                    /\ TailErased(fl) /\ Settled(gl, k)
    <3> HIDE DEF fl, gl, n, m, k
    <3> QED
      BY <1>2, <1>9, <1>12, <2>3 DEF Settled
  <2>5. Kept => Between(flash, fl, buf) /\ Synced(gl, buf)
    <3> HIDE DEF fl, gl, n, m, k, c
    <3> SUFFICES ASSUME Kept
                 PROVE  Between(flash, fl, buf) /\ Synced(gl, buf)
      OBVIOUS
    <3>1. /\ Replay(flash).buf = DataBuf
          /\ Replay(fl).buf = [DataBuf EXCEPT ![a] = buf[a]]
          /\ Replay(gl).buf = [Replay(fl).buf EXCEPT ![c] = buf[c]] /\ ZeroWords(gl)
      BY <1>2, <1>9, <1>12, <2>3 DEF Synced
    <3>2. Replay(gl).buf \in Mirror
      BY <1>1, <1>3, <1>5, <3>1 DEF Mirror
    <3>3. ASSUME NEW x \in Addr
          PROVE  Replay(gl).buf[x] = buf[x]
      <4>1. x \div 2 # a \div 2 \/ x = a \/ x = c
        BY AddrWord DEF c
      <4>2. (x = a \/ x = c) => Replay(gl).buf[x] = buf[x]
        BY <1>1, <1>3, <3>1 DEF Mirror
      <4>3. x # a /\ x # c => Replay(gl).buf[x] = DataBuf[x]
        BY <1>1, <1>3, <3>1 DEF Mirror
      <4> QED
        BY <4>1, <4>2, <4>3 DEF Off
    <3>4. Replay(gl).buf = buf
      BY <3>2, <3>3, SameMirror
    <3> QED
      BY <1>10, <1>12, <3>1, <3>4 DEF Synced
  <2> HIDE DEF v, u, n, m, k
  <2> QED
    BY <1>6, <2>1, <2>2, <2>4, <2>5, CarryTwo
<1> QED
  BY <1>0, <1>1, <1>8, <1>11, <1>12

\* With nothing added, what an entry asks for stays what it is.
LEMMA EntryShape ==
    ASSUME NEW buf \in Mirror, NEW slot, NEW a
    PROVE  LET e == eeprom_write_log_byte_entry(buf, slot, a)
           IN  e = Ask(e.ops \o << >>, e.slot) /\ e = Ask(<< >> \o e.ops, e.slot)
<1>1. ASSUME NEW s \in Seq(Op)
      PROVE  s \o << >> = s /\ << >> \o s = s
  OBVIOUS
<1>2. ASSUME NEW o
      PROVE  <<o>> \o << >> = <<o>> /\ << >> \o <<o>> = <<o>>
  OBVIOUS
<1>3. eeprom_clear \o Image(buf) \in Seq(Op)
  BY CompactOps
<1>4. CASE slot >= LogEnd
  BY <1>1, <1>3, <1>4 DEF eeprom_write_log_byte_entry, eeprom_compact, Ask
<1>5. CASE ~(slot >= LogEnd)
  BY <1>2, <1>5 DEF eeprom_write_log_byte_entry, Ask
<1> QED
  BY <1>4, <1>5

LEMMA WriteByteKeeps ==
    ASSUME FlashInv, on, todo = << >>, NEW a \in Nat, NEW b \in Octet, NEW rest \in Seq(Call),
           EEPROM_WriteDataByte(a, b, rest)
    PROVE  FlashInv'
<1> DEFINE buf == [DataBuf EXCEPT ![a] = b]
<1>1. CASE Skip(rest)
  BY <1>1, SkipKeeps
<1>2. CASE /\ a \in Addr
           /\ Carry(buf, IF Direct(a) THEN eeprom_write_direct_entry(buf, a)
                         ELSE LogByte(buf, a), rest)
  <2>0. DataBuf \in Mirror /\ a \in Addr
    BY <1>2 DEF FlashInv, Typed
  <2>1. buf \in Mirror /\ \A x \in Addr : x # a => buf[x] = DataBuf[x]
    BY <2>0 DEF Mirror
  <2>2. Off(DataBuf, buf, a \div 2)
    BY <2>1 DEF Off
  <2>9. Carry(buf, IF Direct(a) THEN eeprom_write_direct_entry(buf, a) ELSE LogByte(buf, a), rest)
    BY <1>2
  <2> HIDE DEF buf
  <2>3. CASE Direct(a)
    BY <2>0, <2>1, <2>2, <2>3, <2>9, CarryDirect
  <2>4. CASE ~Direct(a) /\ a < FEE_BYTE_RANGE
    <3>1. Carry(buf, eeprom_write_log_byte_entry(buf, empty_slot, a), rest)
      BY <2>4, <2>9 DEF LogByte
    <3> QED
      BY <2>0, <2>1, <2>4, <3>1, CarryByte
  <2>5. CASE ~Direct(a) /\ ~(a < FEE_BYTE_RANGE)
    <3> DEFINE c == Aligned(a)
    <3>1. Carry(buf, eeprom_write_log_word_entry(buf, empty_slot, c), rest)
      BY <2>5, <2>9 DEF LogByte
    <3>2. c \in Addr /\ c % 2 = 0 /\ c \div 2 = a \div 2
      BY <2>0, AddrWord DEF Aligned
    <3>3. FEE_BYTE_RANGE <= c
      BY <2>5, Sizes DEF Aligned
    <3> HIDE DEF c
    <3>4. ~Direct(c) /\ Off(DataBuf, buf, c \div 2)
      BY <2>2, <2>5, <3>2 DEF Direct
    <3> QED
      BY <2>1, <3>1, <3>2, <3>3, <3>4, CarryWord
  <2> QED
    BY <2>3, <2>4, <2>5
<1> QED
  BY <1>1, <1>2 DEF EEPROM_WriteDataByte

LEMMA WriteWordKeeps ==
    ASSUME FlashInv, on, todo = << >>, NEW a \in Nat, NEW v \in HalfWord, NEW rest \in Seq(Call),
           EEPROM_WriteDataWord(a, v, rest)
    PROVE  FlashInv'
<1> DEFINE buf == PutWord(DataBuf, a, v)
           two == <<ByteCall(a, v % 256), ByteCall(a + 1, v \div 256)>> \o rest
<1>1. CASE Skip(rest)
  BY <1>1, SkipKeeps
<1>2. CASE Skip(two)
  <2>1. ByteCall(a, v % 256) \in Call /\ ByteCall(a + 1, v \div 256) \in Call
    BY BytesOfWord DEF ByteCall, Call
  <2>2. two \in Seq(Call)
    <3> DEFINE x == ByteCall(a, v % 256)
               y == ByteCall(a + 1, v \div 256)
    <3>1. x \in Call /\ y \in Call
      BY <2>1
    <3> HIDE DEF x, y
    <3>2. <<x, y>> \o rest \in Seq(Call)
      BY <3>1
    <3> QED
      BY <3>2 DEF x, y
  <2> HIDE DEF two
  <2> QED
    BY <1>2, <2>2, SkipKeeps
<1>3. CASE /\ a % 2 = 0 /\ a \in Addr
           /\ Carry(buf, IF Direct(a) THEN eeprom_write_direct_entry(buf, a)
                         ELSE LogWord(buf, a), rest)
  <2>0. DataBuf \in Mirror /\ a \in Addr /\ a % 2 = 0
    BY <1>3 DEF FlashInv, Typed
  <2>1. buf \in Mirror /\ \A x \in Addr : x # a /\ x # a + 1 => buf[x] = DataBuf[x]
    BY <2>0, PutWordTyped
  <2>2. Off(DataBuf, buf, a \div 2)
    BY <2>0, PutWordOff
  <2>9. Carry(buf, IF Direct(a) THEN eeprom_write_direct_entry(buf, a) ELSE LogWord(buf, a), rest)
    BY <1>3
  <2>10. empty_slot \in LogBase .. LogEnd /\ LogBase \in Nat /\ LogEnd \in Nat
    BY Sizes DEF FlashInv, Typed
  <2> HIDE DEF buf
  <2>3. CASE Direct(a)
    BY <2>0, <2>1, <2>2, <2>3, <2>9, CarryDirect
  <2>4. CASE ~Direct(a) /\ ~(a < FEE_BYTE_RANGE)
    <3>1. Carry(buf, eeprom_write_log_word_entry(buf, empty_slot, a), rest)
      BY <2>4, <2>9 DEF LogWord
    <3>2. FEE_BYTE_RANGE <= a
      BY <2>4, Sizes
    <3> QED
      BY <2>0, <2>1, <2>2, <2>4, <3>1, <3>2, CarryWord
  <2>5. CASE ~Direct(a) /\ a < FEE_BYTE_RANGE
    <3> DEFINE c == a + 1
    <3>0. c \in Addr /\ c \div 2 = a \div 2 /\ c < FEE_BYTE_RANGE /\ c # a
      <4>1. c \in Addr /\ c \div 2 = a \div 2
        BY <2>0, AddrWord
      <4>2. c < FEE_BYTE_RANGE /\ c # a
        BY <2>0, <2>5, Sizes
      <4> QED
        BY <4>1, <4>2
    <3>1. Carry(buf, LogWord(buf, a), rest)
      BY <2>5, <2>9
    <3>2. CASE buf[a] # DataBuf[a] /\ buf[c] # DataBuf[c]
      BY <2>0, <2>1, <2>2, <2>5, <3>1, <3>2, CarryTwoBytes
    <3>3. CASE buf[a] # DataBuf[a] /\ buf[c] = DataBuf[c]
      <4> DEFINE e == eeprom_write_log_byte_entry(buf, empty_slot, a)
      <4>1. LogWord(buf, a) = Ask(e.ops \o << >>, e.slot)
        BY <2>5, <3>3 DEF LogWord, Ask
      <4>2. e = Ask(e.ops \o << >>, e.slot)
        BY <2>1, EntryShape
      <4>3. Carry(buf, e, rest)
        BY <3>1, <4>1, <4>2
      <4>4. \A x \in Addr : x # a => buf[x] = DataBuf[x]
        BY <2>1, <3>3
      <4> QED
        BY <2>0, <2>1, <2>5, <4>3, <4>4, CarryByte
    <3>4. CASE buf[a] = DataBuf[a] /\ buf[c] # DataBuf[c]
      <4> DEFINE e == eeprom_write_log_byte_entry(buf, empty_slot, c)
      <4>1. LogWord(buf, a) = Ask(<< >> \o e.ops, e.slot)
        BY <2>5, <3>4 DEF LogWord, Ask
      <4>2. e = Ask(<< >> \o e.ops, e.slot)
        BY <2>1, EntryShape
      <4>3. Carry(buf, e, rest)
        BY <3>1, <4>1, <4>2
      <4>4. (\A x \in Addr : x # c => buf[x] = DataBuf[x]) /\ ~Direct(c)
        BY <2>1, <2>5, <3>0, <3>4 DEF Direct
      <4> HIDE DEF c
      <4> QED
        BY <2>1, <3>0, <4>3, <4>4, CarryByte
    <3>5. CASE buf[a] = DataBuf[a] /\ buf[c] = DataBuf[c]
      <4>1. buf = DataBuf
        BY <2>0, <2>1, <3>5, SameMirror
      <4>2. LogWord(buf, a) = Ask(<< >> \o << >>, empty_slot)
        BY <2>5, <3>5 DEF LogWord, Ask
      <4>3. << >> \o << >> = << >>
        OBVIOUS
      <4>4. Carry(buf, Ask(<< >>, empty_slot), rest)
        BY <3>1, <4>2, <4>3
      <4>5. Kept => Synced(flash, buf)
        BY <4>1, AtRest DEF PlanNone
      <4> QED
        BY <2>1, <4>4, <4>5, CarryNone
    <3> QED
      BY <3>2, <3>3, <3>4, <3>5
  <2> QED
    BY <2>3, <2>4, <2>5
<1> QED
  BY <1>1, <1>2, <1>3 DEF EEPROM_WriteDataWord

LEMMA NextCallKeeps ==
    ASSUME FlashInv, NextCall
    PROVE  FlashInv'
<1> DEFINE c == Head(calls)
           rest == Tail(calls)
<1>1. on /\ todo = << >> /\ calls # << >> /\ calls \in Seq(Call)
  BY DEF NextCall, FlashInv, Typed
<1>2. c \in Call /\ rest \in Seq(Call)
  BY <1>1
<1>3. \/ c.op = "byte" /\ EEPROM_WriteDataByte(c.at, c.value, rest)
      \/ c.op = "word" /\ EEPROM_WriteDataWord(c.at, c.value, rest)
  BY DEF NextCall
<1> HIDE DEF c, rest
<1>4. CASE c.op = "byte" /\ EEPROM_WriteDataByte(c.at, c.value, rest)
  <2>1. c.at \in Nat /\ c.value \in Octet
    BY <1>2, <1>4 DEF Call
  <2> QED
    BY <1>1, <1>2, <1>4, <2>1, WriteByteKeeps
<1>5. CASE c.op = "word" /\ EEPROM_WriteDataWord(c.at, c.value, rest)
  <2>1. c.at \in Nat /\ c.value \in HalfWord
    BY <1>2, <1>5 DEF Call
  <2> QED
    BY <1>1, <1>2, <1>5, <2>1, WriteWordKeeps
<1> QED
  BY <1>3, <1>4, <1>5

-----------------------------------------------------------------------------
(* The operations are carried out *)

\* The memory takes bytes of the write under way, may lose anything in a wipe,
\* or holds all of the mirror when the wipe ends.
Persisted ==
    /\ Kept /\ Kept' /\ DataBuf' = DataBuf
    /\ \A a \in Addr : boot'.buf[a] \in {boot.buf[a], DataBuf[a]}

Wiped == ~Kept' /\ DataBuf' = DataBuf

WipeEnds ==
    /\ ~Kept /\ Kept'
    /\ boot'.buf = DataBuf' /\ DataBuf' \in {DataBuf, Zero}

MemoryStep == Persisted \/ Wiped \/ WipeEnds

\* What a flash operation does, by its kind.
LEMMA StepEffect ==
    ASSUME FlashStep
    PROVE  LET o == Head(todo)
               last == Tail(todo) = << >>
           IN  /\ on /\ todo # << >> /\ on' = on /\ calls' = calls /\ todo' = Tail(todo)
               /\ boot' = Replay(flash')
               /\ o.op = "erase" => flash' = FLASH_ErasePage(flash, o.at)
               /\ o.op = "program" => flash' = Programmed(flash, o)
               /\ o.op = "pass" \/ o.op = "init" => flash' = flash
               /\ o.op = "init" => DataBuf' = boot.buf /\ empty_slot' = boot.slot
               /\ o.op # "init" => DataBuf' = DataBuf /\ empty_slot' = empty_slot
               /\ wiping' = ((wiping \/ o.op = "erase") /\ ~last)
               /\ damaged' = (damaged /\ ~(wiping /\ last))
               /\ stale' = ((stale /\ o.op # "erase") \/ (o.op = "program" /\ Covered(o.at)))
               /\ spoilt' = spoilt \/ spoilt' = 0
<1> DEFINE o == Head(todo)
           last == Tail(todo) = << >>
<1>1. /\ on /\ todo # << >> /\ on' = on /\ calls' = calls /\ todo' = Tail(todo)
      /\ boot' = Replay(flash')
      /\ flash' = CASE o.op = "erase" -> FLASH_ErasePage(flash, o.at)
                    [] o.op = "program" -> FLASH_ProgramHalfWord(flash, o.at, o.value)
                    [] OTHER -> flash
      /\ DataBuf' = IF o.op = "init" THEN boot.buf ELSE DataBuf
      /\ empty_slot' = IF o.op = "init" THEN boot.slot ELSE empty_slot
      /\ wiping' = ((wiping \/ o.op = "erase") /\ ~last)
      /\ damaged' = (damaged /\ ~(wiping /\ last))
      /\ stale' = ((stale /\ o.op # "erase") \/ (o.op = "program" /\ Covered(o.at)))
      /\ spoilt' = IF damaged' THEN spoilt ELSE 0
  BY DEF FlashStep
<1> HIDE DEF o, last
<1>2. /\ o.op = "erase" => flash' = FLASH_ErasePage(flash, o.at)
      /\ o.op = "program" => flash' = Programmed(flash, o)
      /\ o.op = "pass" \/ o.op = "init" => flash' = flash
  BY <1>1 DEF Programmed
<1>3. /\ o.op = "init" => DataBuf' = boot.buf /\ empty_slot' = boot.slot
      /\ o.op # "init" => DataBuf' = DataBuf /\ empty_slot' = empty_slot
      /\ spoilt' = spoilt \/ spoilt' = 0
  BY <1>1
<1> QED
  BY <1>1, <1>2, <1>3 DEF o, last

\* With flash that is well-formed, so is the rest.
LEMMA StepTyped ==
    ASSUME FlashInv, FlashStep, flash' \in Flash
    PROVE  Typed' /\ on' /\ boot'.buf \in Mirror
<1> DEFINE o == Head(todo)
           last == Tail(todo) = << >>
<1>1. /\ on /\ todo # << >> /\ on' = on /\ calls' = calls /\ todo' = Tail(todo)
      /\ boot' = Replay(flash')
      /\ o.op = "init" => DataBuf' = boot.buf /\ empty_slot' = boot.slot
      /\ o.op # "init" => DataBuf' = DataBuf /\ empty_slot' = empty_slot
      /\ wiping' = ((wiping \/ o.op = "erase") /\ ~last)
      /\ damaged' = (damaged /\ ~(wiping /\ last))
      /\ stale' = ((stale /\ o.op # "erase") \/ (o.op = "program" /\ Covered(o.at)))
      /\ spoilt' = spoilt \/ spoilt' = 0
  BY StepEffect
<1> HIDE DEF o, last
<1>2. Typed
  BY DEF FlashInv
<1>3. \A fl \in Flash : Replay(fl).buf \in Mirror /\ Replay(fl).slot \in LogBase .. LogEnd
  BY ReplayTyped DEF LoopState
<1>4. boot.buf \in Mirror /\ boot.slot \in LogBase .. LogEnd /\ boot'.buf \in Mirror
  BY <1>1, <1>2, <1>3 DEF Typed
<1>5. DataBuf' \in Mirror /\ empty_slot' \in LogBase .. LogEnd
  BY <1>1, <1>2, <1>4 DEF Typed
<1>6. wiping' \in BOOLEAN /\ damaged' \in BOOLEAN /\ stale' \in BOOLEAN
  BY <1>1
<1>7. todo' \in Seq(Op) /\ calls' \in Seq(Call)
  BY <1>1, <1>2 DEF Typed
<1>8. spoilt' \in 0 .. MaxSpoilt
  BY <1>1, <1>2, FlashAssumption DEF Typed
<1> QED
  BY <1>1, <1>2, <1>4, <1>5, <1>6, <1>7, <1>8 DEF Typed

LEMMA ProgramsTyped ==
    ASSUME NEW fl \in Flash, NEW o, IsProgram(o)
    PROVE  /\ Programmed(fl, o) \in Flash
           /\ \A i \in 0 .. LogEnd - 1 : i # o.at => Programmed(fl, o)[i] = fl[i]
<1> DEFINE i == o.at
           v == o.value
<1>1. i \in 0 .. LogEnd - 1 /\ v \in HalfWord
      /\ (Programmed(fl, o) = Put(fl, i, v) \/ Programmed(fl, o) = fl)
  BY DEF IsProgram, Programmed, FLASH_ProgramHalfWord, Put
<1> HIDE DEF v
<1> QED
  BY <1>1, PutTyped

LEMMA FirstOp ==
    ASSUME NEW s \in Seq(Op), Len(s) > 0
    PROVE  /\ Head(s) = s[1] /\ Tail(s) \in Seq(Op) /\ Len(Tail(s)) = Len(s) - 1
           /\ \A j \in 1 .. Len(s) - 1 : Tail(s)[j] = s[j + 1]
           /\ Tail(s) = << >> <=> Len(s) = 1
<1>1. s # << >> /\ Len(s) \in Nat
  OBVIOUS
<1>2. /\ Head(s) = s[1] /\ Tail(s) \in Seq(Op) /\ Len(Tail(s)) = Len(s) - 1
      /\ \A j \in 1 .. Len(s) - 1 : Tail(s)[j] = s[j + 1]
  BY <1>1
<1> DEFINE t == Tail(s)
<1>3. t \in Seq(Op) /\ Len(t) = Len(s) - 1
  BY <1>2
<1> HIDE DEF t
<1>4. t = << >> <=> Len(t) = 0
  BY <1>3
<1>5. t = << >> <=> Len(s) = 1
  BY <1>1, <1>3, <1>4
<1> QED
  BY <1>2, <1>5 DEF t

LEMMA StepOne ==
    ASSUME FlashInv, FlashStep, PlanOne
    PROVE  FlashInv' /\ MemoryStep
<1> DEFINE o == todo[1]
           fl == Programmed(flash, o)
<1>0. Typed
  BY DEF FlashInv
<1>1. /\ todo \in Seq(Op) /\ Len(todo) = 1 /\ IsProgram(o) /\ ~wiping
      /\ ~damaged => flash[o.at] = FEE_EMPTY_WORD /\ Settled(fl, empty_slot)
      /\ Kept /\ ~Covered(o.at) => Synced(fl, DataBuf)
  BY <1>0 DEF PlanOne, Typed
<1>2. Head(todo) = o /\ Tail(todo) = << >> /\ o.op = "program"
  BY <1>1, FirstOp DEF IsProgram
<1> HIDE DEF o
<1>3. /\ flash' = fl /\ todo' = << >> /\ on' = on /\ boot' = Replay(fl)
      /\ DataBuf' = DataBuf /\ empty_slot' = empty_slot
      /\ ~wiping' /\ (damaged' <=> damaged) /\ (stale' <=> stale \/ Covered(o.at))
  BY <1>1, <1>2, StepEffect
<1>4. fl \in Flash
  BY <1>0, <1>1, ProgramsTyped DEF Typed
<1> HIDE DEF fl
<1>5. Typed' /\ on' /\ boot'.buf \in Mirror
  BY <1>3, <1>4, StepTyped
<1>6. Kept' => Kept /\ ~Covered(o.at)
  BY <1>1, <1>3 DEF Kept
<1>7. PlanNone'
  BY <1>1, <1>3, <1>6 DEF PlanNone
<1>8. (~damaged /\ ~wiping => TailErased(flash))' /\ (Kept => ZeroWords(flash))'
  BY <1>1, <1>3, <1>6 DEF Settled, Synced
<1>9. FlashInv'
  BY <1>5, <1>7, <1>8 DEF FlashInv, Plan
<1>10. Kept' => boot'.buf = DataBuf
  BY <1>1, <1>3, <1>6 DEF Synced
<1>11. MemoryStep
  BY <1>3, <1>6, <1>10 DEF MemoryStep, Persisted, Wiped
<1> QED
  BY <1>9, <1>11

LEMMA StepTwo ==
    ASSUME FlashInv, FlashStep, PlanTwo
    PROVE  FlashInv' /\ MemoryStep
<1> DEFINE o == todo[1]
           p == todo[2]
           fl == Programmed(flash, o)
           gl == Programmed(fl, p)
<1>0. Typed
  BY DEF FlashInv
<1>1. /\ todo \in Seq(Op) /\ Len(todo) = 2 /\ IsProgram(o) /\ IsProgram(p) /\ ~wiping
      /\ LogBase <= o.at /\ o.at < p.at
      /\ ~damaged => /\ flash[o.at] = FEE_EMPTY_WORD /\ flash[p.at] = FEE_EMPTY_WORD
                     /\ TailErased(fl) /\ Settled(gl, empty_slot)
      /\ Kept => Between(flash, fl, DataBuf) /\ Synced(gl, DataBuf)
  BY <1>0 DEF PlanTwo, Typed
<1>2. Head(todo) = o /\ Tail(todo) # << >> /\ o.op = "program"
      /\ Len(Tail(todo)) = 1 /\ Tail(todo)[1] = p
  <2>1. Len(todo) > 0 /\ 1 \in 1 .. Len(todo) - 1 /\ Len(todo) - 1 = 1 /\ Len(todo) # 1
    BY <1>1
  <2>2. /\ Head(todo) = o /\ Len(Tail(todo)) = Len(todo) - 1 /\ Tail(todo)[1] = todo[1 + 1]
        /\ Tail(todo) # << >>
    BY <1>1, <2>1, FirstOp
  <2>3. o.op = "program"
    BY <1>1 DEF IsProgram
  <2> QED
    BY <2>1, <2>2, <2>3
<1>12. o.at \in 0 .. LogEnd - 1 /\ p.at \in 0 .. LogEnd - 1 /\ ~Covered(o.at) /\ p.at # o.at
  BY <1>1, Sizes DEF IsProgram, Covered
<1> HIDE DEF o, p
<1>3. /\ flash' = fl /\ todo' = Tail(todo) /\ on' = on /\ boot' = Replay(fl)
      /\ DataBuf' = DataBuf /\ empty_slot' = empty_slot
      /\ ~wiping' /\ (damaged' <=> damaged) /\ (stale' <=> stale)
  BY <1>1, <1>2, <1>12, StepEffect
<1>4. fl \in Flash /\ fl[p.at] = flash[p.at] /\ flash \in Flash /\ boot = Replay(flash)
  BY <1>0, <1>1, <1>12, ProgramsTyped DEF Typed
<1> HIDE DEF fl
<1>5. Typed' /\ on' /\ boot'.buf \in Mirror
  BY <1>3, <1>4, StepTyped
<1>6. Kept' <=> Kept
  BY <1>1, <1>3 DEF Kept
<1>7. PlanOne'
  <2>1. todo'[1] = p /\ Len(todo') = 1
    BY <1>2, <1>3
  <2>2. ~damaged => fl[p.at] = FEE_EMPTY_WORD /\ Settled(gl, empty_slot)
    BY <1>1, <1>4
  <2>3. Kept => Synced(gl, DataBuf)
    BY <1>1
  <2> QED
    BY <1>1, <1>3, <1>6, <2>1, <2>2, <2>3 DEF PlanOne
<1> HIDE DEF gl
<1>8. (~damaged /\ ~wiping => TailErased(flash))' /\ (Kept => ZeroWords(flash))'
  BY <1>1, <1>3, <1>6 DEF Between
<1>9. FlashInv'
  BY <1>5, <1>7, <1>8 DEF FlashInv, Plan
<1>10. Kept => \A a \in Addr : boot'.buf[a] \in {boot.buf[a], DataBuf[a]}
  BY <1>1, <1>3, <1>4 DEF Between
<1>11. MemoryStep
  BY <1>3, <1>6, <1>10 DEF MemoryStep, Persisted, Wiped
<1> QED
  BY <1>9, <1>11

\* Nothing needs to be erased before the first page.
LEMMA NoneErased == ASSUME NEW fl PROVE ErasedUpTo(fl, 0)
<1>1. \A i \in 0 .. LogEnd - 1 : ~(i \div PAGE < 0)
  BY PageOf, Sizes
<1> QED
  BY <1>1 DEF ErasedUpTo

LEMMA StepEntryCompact ==
    ASSUME FlashInv, FlashStep, PlanEntryCompact
    PROVE  FlashInv' /\ MemoryStep
<1> DEFINE o == todo[1]
           fl == Programmed(flash, o)
<1>0. Typed /\ Pages \in Nat /\ DENSITY \in Nat /\ DENSITY > 0 /\ 0 \in Addr
  BY Sizes, AddrWord DEF FlashInv
<1>1. /\ todo \in Seq(Op) /\ Len(todo) = 1 + Pages + DENSITY /\ IsProgram(o) /\ ~wiping
      /\ CompactRest(Tail(todo), DataBuf, 0, 0, 0)
      /\ empty_slot = LogBase
      /\ LogBase <= o.at
      /\ ~damaged => flash[o.at] = FEE_EMPTY_WORD /\ TailErased(fl)
      /\ Kept => Between(flash, fl, DataBuf)
  BY <1>0 DEF PlanEntryCompact, Typed
<1>2. Head(todo) = o /\ Tail(todo) # << >> /\ o.op = "program"
  <2>1. Len(todo) > 0 /\ Len(todo) # 1
    BY <1>0, <1>1
  <2> QED
    BY <1>1, <2>1, FirstOp DEF IsProgram
<1>12. ~Covered(o.at)
  BY <1>1, Sizes DEF IsProgram, Covered
<1> HIDE DEF o
<1>3. /\ flash' = fl /\ todo' = Tail(todo) /\ on' = on /\ boot' = Replay(fl)
      /\ DataBuf' = DataBuf /\ empty_slot' = empty_slot
      /\ ~wiping' /\ (damaged' <=> damaged) /\ (stale' <=> stale)
  BY <1>1, <1>2, <1>12, StepEffect
<1>4. fl \in Flash /\ flash \in Flash /\ boot = Replay(flash)
  BY <1>0, <1>1, ProgramsTyped DEF Typed
<1> HIDE DEF fl
<1>5. Typed' /\ on' /\ boot'.buf \in Mirror
  BY <1>3, <1>4, StepTyped
<1>6. Kept' <=> Kept
  BY <1>1, <1>3 DEF Kept
<1>7. PlanCompact(0, 0, 0)'
  <2>1. 0 < Pages + DENSITY + 0 /\ ~(0 > 0) /\ 0 <= Pages /\ ~(0 > Pages) /\ LogBase = LogBase + 0
    BY <1>0, Sizes
  <2>2. ErasedUpTo(flash', 0)
    BY NoneErased
  <2> QED
    BY <1>1, <1>3, <2>1, <2>2 DEF PlanCompact
<1>8. (~damaged /\ ~wiping => TailErased(flash))' /\ (Kept => ZeroWords(flash))'
  BY <1>1, <1>3, <1>6 DEF Between
<1>9. FlashInv'
  <2>1. Plan'
    BY <1>0, <1>7 DEF Plan
  <2> QED
    BY <1>5, <1>8, <2>1 DEF FlashInv
<1>10. Kept => \A a \in Addr : boot'.buf[a] \in {boot.buf[a], DataBuf[a]}
  BY <1>1, <1>3, <1>4 DEF Between
<1>11. MemoryStep
  BY <1>3, <1>6, <1>10 DEF MemoryStep, Persisted, Wiped
<1> QED
  BY <1>9, <1>11

\* One operation of a compaction, and what is left of it then.
LEMMA CompactFirst ==
    ASSUME NEW ops \in Seq(Op), NEW buf, NEW k \in Nat, NEW m \in {0, 1}, NEW a,
           k < Pages + DENSITY + m, CompactRest(ops, buf, k, m, a)
    PROVE  /\ Head(ops) = CompactOp(buf, k + 1, a)
           /\ CompactRest(Tail(ops), buf, k + 1, m, a)
           /\ Tail(ops) = << >> <=> k + 1 = Pages + DENSITY + m
<1>0. Pages \in Nat /\ DENSITY \in Nat /\ m \in Nat
  BY Sizes
<1>1. /\ Len(ops) = Pages + DENSITY + m - k
      /\ \A j \in 1 .. Len(ops) : ops[j] = CompactOp(buf, k + j, a)
  BY DEF CompactRest
<1>2. Len(ops) > 0 /\ Len(ops) \in Nat /\ (Len(ops) = 1 <=> k + 1 = Pages + DENSITY + m)
  BY <1>0, <1>1
<1> DEFINE t == Tail(ops)
<1>3. /\ Head(ops) = ops[1] /\ Len(t) = Len(ops) - 1
      /\ \A j \in 1 .. Len(ops) - 1 : t[j] = ops[j + 1]
      /\ t = << >> <=> Len(ops) = 1
  BY <1>2, FirstOp
<1> HIDE DEF t
<1>4. Head(ops) = CompactOp(buf, k + 1, a)
  BY <1>1, <1>2, <1>3
<1>5. ASSUME NEW j \in 1 .. Len(t)
      PROVE  t[j] = CompactOp(buf, (k + 1) + j, a)
  <2>1. j \in 1 .. Len(ops) - 1 /\ j + 1 \in 1 .. Len(ops) /\ k + (j + 1) = (k + 1) + j
    BY <1>2, <1>3
  <2>2. ops[j + 1] = CompactOp(buf, k + (j + 1), a)
    BY <1>1, <2>1
  <2> QED
    BY <1>3, <2>1, <2>2
<1>6. Len(t) = Pages + DENSITY + m - (k + 1)
  BY <1>0, <1>1, <1>3
<1>7. CompactRest(t, buf, k + 1, m, a)
  BY <1>5, <1>6 DEF CompactRest
<1> QED
  BY <1>2, <1>3, <1>4, <1>7 DEF t

\* With every page erased, the image is about to be written.
LEMMA ImageStarts ==
    ASSUME NEW fl \in Flash, NEW buf, ErasedUpTo(fl, Pages)
    PROVE  HoldsImage(fl, buf, 0)
<1>1. \A i \in 0 .. LogEnd - 1 : fl[i] = FEE_EMPTY_WORD /\ ~(i < 0)
  BY AllErased, Sizes
<1> QED
  BY <1>1 DEF HoldsImage

\* eeprom_clear, eeprom_legacy_emulated_flash.c:291-304.
LEMMA StepCompactErase ==
    ASSUME FlashInv, FlashStep, NEW k \in 0 .. Pages + DENSITY, NEW m \in {0, 1}, NEW a \in Addr,
           PlanCompact(k, m, a), k < Pages
    PROVE  FlashInv' /\ MemoryStep
<1>0. Typed /\ Pages \in Nat /\ DENSITY \in Nat /\ DENSITY > 0 /\ m \in Nat /\ k \in Nat
  BY Sizes DEF FlashInv
<1> DEFINE o == Head(todo)
           n == k + 1
<1>1. /\ todo \in Seq(Op) /\ CompactRest(todo, DataBuf, k, m, a) /\ ErasedUpTo(flash, k)
      /\ k < Pages + DENSITY + m /\ (m = 1 => a < FEE_BYTE_RANGE) /\ empty_slot = LogBase + m
      /\ flash \in Flash
  BY <1>0 DEF PlanCompact, Typed
<1>2. /\ o = CompactOp(DataBuf, n, a) /\ CompactRest(Tail(todo), DataBuf, n, m, a)
      /\ Tail(todo) # << >>
  <2>1. k + 1 # Pages + DENSITY + m
    BY <1>0
  <2>2. /\ Head(todo) = CompactOp(DataBuf, k + 1, a)
        /\ CompactRest(Tail(todo), DataBuf, k + 1, m, a)
        /\ (Tail(todo) = << >> <=> k + 1 = Pages + DENSITY + m)
    BY <1>0, <1>1, CompactFirst
  <2> QED
    BY <2>1, <2>2
<1>3. o.op = "erase" /\ o.at = k
  <2>1. n <= Pages /\ n - 1 = k
    BY <1>0
  <2> HIDE DEF o, n
  <2>2. o = Erase(k)
    BY <1>2, <2>1 DEF CompactOp
  <2> QED
    BY <2>2 DEF Erase
<1>4. /\ flash' = FLASH_ErasePage(flash, k) /\ todo' = Tail(todo)
      /\ DataBuf' = DataBuf /\ empty_slot' = empty_slot /\ wiping' /\ ~stale'
  BY <1>2, <1>3, StepEffect
<1>5. flash' \in Flash /\ ErasedUpTo(flash', n)
  BY <1>0, <1>1, <1>4, ErasePage
<1>6. Typed' /\ on' /\ boot'.buf \in Mirror
  BY <1>5, StepTyped
<1>7. PlanCompact(n, m, a)'
  <2>1. n < Pages + DENSITY + m /\ n > 0 /\ ~(n > Pages)
    BY <1>0
  <2> HIDE DEF n
  <2> QED
    BY <1>1, <1>2, <1>4, <1>5, <2>1 DEF PlanCompact
<1>8. n \in 0 .. Pages + DENSITY
  BY <1>0
<1> HIDE DEF n
<1>9. Plan'
  BY <1>7, <1>8 DEF Plan
<1> QED
  BY <1>4, <1>6, <1>9 DEF FlashInv, Kept, MemoryStep, Wiped

\* What is left once the flash holds all of the mirror again.
LEMMA Restored ==
    ASSUME Typed', on', todo' = << >>, ~wiping', ~damaged', ~stale', wiping,
           Settled(flash', empty_slot'), Synced(flash', DataBuf'), DataBuf' \in {DataBuf, Zero}
    PROVE  FlashInv' /\ MemoryStep
<1>1. PlanNone'
  BY DEF PlanNone
<1>2. TailErased(flash') /\ ZeroWords(flash') /\ Replay(flash').buf = DataBuf'
  BY DEF Settled, Synced
<1>3. FlashInv'
  BY <1>1, <1>2 DEF FlashInv, Plan
<1>4. boot' = Replay(flash')
  BY DEF Typed
<1>5. WipeEnds
  BY <1>2, <1>4 DEF WipeEnds, Kept
<1> QED
  BY <1>3, <1>5 DEF MemoryStep

\* The words of the image in turn, eeprom_legacy_emulated_flash.c:324-335.
LEMMA StepCompactImage ==
    ASSUME FlashInv, FlashStep, NEW k \in 0 .. Pages + DENSITY, NEW m \in {0, 1}, NEW a \in Addr,
           PlanCompact(k, m, a), ~(k < Pages), k < Pages + DENSITY
    PROVE  FlashInv' /\ MemoryStep
<1>0. Typed /\ Pages \in Nat /\ Pages > 0 /\ DENSITY \in Nat /\ DENSITY > 0 /\ m \in Nat /\ k \in Nat
      /\ LogBase \in Nat /\ LogEnd \in Nat /\ LogBase = DENSITY /\ LogBase < LogEnd
  BY Sizes DEF FlashInv
<1> DEFINE o == Head(todo)
           n == k + 1
           w == k - Pages
           v == Flip(WordAt(DataBuf, 2 * w))
<1>1. /\ todo \in Seq(Op) /\ CompactRest(todo, DataBuf, k, m, a)
      /\ k < Pages + DENSITY + m /\ (m = 1 => a < FEE_BYTE_RANGE) /\ empty_slot = LogBase + m
      /\ flash \in Flash /\ DataBuf \in Mirror /\ boot = Replay(flash) /\ wiping /\ ~stale
      /\ (k <= Pages => ErasedUpTo(flash, k)) /\ (k > Pages => HoldsImage(flash, DataBuf, k - Pages))
  <2>1. k > 0 /\ k < Pages + DENSITY + m
    BY <1>0
  <2> QED
    BY <1>0, <2>1 DEF PlanCompact, Typed
<1>2. w \in 0 .. DENSITY - 1 /\ n - Pages = w + 1 /\ w \in Nat /\ w < LogBase
  BY <1>0
<1>3. HoldsImage(flash, DataBuf, w)
  <2>1. CASE k = Pages
    <3>1. w = 0 /\ k <= Pages
      BY <1>0, <2>1
    <3> QED
      BY <1>1, <2>1, <3>1, ImageStarts
  <2>2. CASE k # Pages
    <3>1. k > Pages
      BY <1>0, <2>2
    <3> QED
      BY <1>1, <3>1
  <2> QED
    BY <2>1, <2>2
<1>4. /\ o = CompactOp(DataBuf, n, a) /\ CompactRest(Tail(todo), DataBuf, n, m, a)
      /\ (Tail(todo) = << >> <=> n = Pages + DENSITY + m)
  BY <1>0, <1>1, CompactFirst
<1>5. o = IF v = FEE_EMPTY_WORD THEN Pass ELSE Program(w, v)
  <2>1. ~(n <= Pages) /\ n <= Pages + DENSITY /\ w + 1 \in 1 .. DENSITY /\ (w + 1) - 1 = w
    BY <1>0
  <2> HIDE DEF n, o, w
  <2>2. o = Image(DataBuf)[w + 1]
    BY <1>2, <1>4, <2>1 DEF CompactOp
  <2>3. Image(DataBuf)[w + 1]
          = LET value == Flip(WordAt(DataBuf, 2 * ((w + 1) - 1)))
            IN  IF value = FEE_EMPTY_WORD THEN Pass ELSE Program((w + 1) - 1, value)
    BY <2>1 DEF Image
  <2> QED
    BY <2>1, <2>2, <2>3
<1> HIDE DEF w, n
<1>6. /\ v \in HalfWord
      /\ v = FEE_EMPTY_WORD => HoldsImage(flash, DataBuf, w + 1)
      /\ FLASH_ProgramHalfWord(flash, w, v) \in Flash
      /\ HoldsImage(FLASH_ProgramHalfWord(flash, w, v), DataBuf, w + 1)
  BY <1>1, <1>2, <1>3, ImageWord
<1> HIDE DEF v
<1>7. ~Covered(w)
  <2>1. LogBase \in 0 .. LogEnd - 1 /\ ~(LogBase < w)
    BY <1>0, <1>2
  <2>2. flash[LogBase] = FEE_EMPTY_WORD
    BY <1>3, <2>1 DEF HoldsImage
  <2>3. boot.words = {}
    BY <1>1, <2>2, BlankLog
  <2> QED
    BY <2>3 DEF Covered
<1>8. /\ flash' \in Flash /\ HoldsImage(flash', DataBuf, w + 1) /\ todo' = Tail(todo)
      /\ DataBuf' = DataBuf /\ empty_slot' = empty_slot /\ ~stale'
      /\ (wiping' <=> Tail(todo) # << >>) /\ (Tail(todo) = << >> => ~damaged')
  <2>1. CASE v = FEE_EMPTY_WORD
    <3>1. o.op = "pass"
      BY <1>5, <2>1 DEF Pass
    <3> QED
      BY <1>1, <1>6, <2>1, <3>1, StepEffect
  <2>2. CASE v # FEE_EMPTY_WORD
    <3>1. o.op = "program" /\ o.at = w /\ o.value = v
      BY <1>5, <2>2 DEF Program
    <3>2. Programmed(flash, o) = FLASH_ProgramHalfWord(flash, w, v)
      BY <3>1 DEF Programmed
    <3> QED
      BY <1>1, <1>6, <1>7, <3>1, <3>2, StepEffect
  <2> QED
    BY <2>1, <2>2
<1>9. Typed' /\ on' /\ boot'.buf \in Mirror
  BY <1>8, StepTyped
<1>10. CASE n = Pages + DENSITY + m
  <2>1. m = 0 /\ w + 1 = DENSITY /\ empty_slot = LogBase
    BY <1>0, <1>1, <1>10 DEF n, w
  <2>2. todo' = << >> /\ ~wiping' /\ ~damaged'
    BY <1>4, <1>8, <1>10
  <2>3. HoldsImage(flash', DataBuf', DENSITY) /\ DataBuf' \in Mirror
    BY <1>1, <1>8, <2>1
  <2>4. /\ Replay(flash').buf = DataBuf' /\ Replay(flash').slot = LogBase
        /\ TailErased(flash') /\ ZeroWords(flash')
    BY <1>8, <2>3, ImageRestores
  <2>5. Settled(flash', empty_slot') /\ Synced(flash', DataBuf')
    BY <1>8, <2>1, <2>4 DEF Settled, Synced
  <2> QED
    BY <1>1, <1>8, <1>9, <2>2, <2>5, Restored
<1>11. CASE n # Pages + DENSITY + m
  <2>1. n < Pages + DENSITY + m /\ n > 0 /\ n > Pages /\ ~(n <= Pages) /\ n \in 0 .. Pages + DENSITY
    BY <1>0, <1>11 DEF n
  <2>2. wiping'
    BY <1>4, <1>8, <1>11
  <2>3. PlanCompact(n, m, a)'
    BY <1>1, <1>2, <1>4, <1>8, <2>1, <2>2 DEF PlanCompact
  <2>4. Plan'
    BY <2>1, <2>3 DEF Plan
  <2> QED
    BY <1>8, <1>9, <2>2, <2>4 DEF FlashInv, Kept, MemoryStep, Wiped
<1> QED
  BY <1>10, <1>11

\* The entry of the high byte that follows a compaction says what the image says.
LEMMA StepCompactEntry ==
    ASSUME FlashInv, FlashStep, NEW k \in 0 .. Pages + DENSITY, NEW m \in {0, 1}, NEW a \in Addr,
           PlanCompact(k, m, a), ~(k < Pages + DENSITY)
    PROVE  FlashInv' /\ MemoryStep
<1>0. Typed /\ Pages \in Nat /\ Pages > 0 /\ DENSITY \in Nat /\ DENSITY > 0 /\ m \in Nat /\ k \in Nat
      /\ LogBase \in Nat /\ LogEnd \in Nat /\ LogBase = DENSITY /\ LogBase < LogEnd
  BY Sizes DEF FlashInv
<1>1. m = 1 /\ k > 0 /\ k > Pages /\ k - Pages = DENSITY /\ k + 1 = Pages + DENSITY + m
      /\ k = Pages + DENSITY
  BY <1>0 DEF PlanCompact
<1> DEFINE b == DataBuf[a]
           v == 256 * a + b
           gl == FLASH_ProgramHalfWord(flash, LogBase, v)
           o == Head(todo)
<1>2. /\ todo \in Seq(Op) /\ CompactRest(todo, DataBuf, k, m, a)
      /\ a < FEE_BYTE_RANGE /\ empty_slot = LogBase + 1
      /\ flash \in Flash /\ DataBuf \in Mirror /\ wiping /\ ~stale
      /\ HoldsImage(flash, DataBuf, DENSITY) /\ k < Pages + DENSITY + m
  BY <1>0, <1>1 DEF PlanCompact, Typed
<1>3. Head(todo) = CompactOp(DataBuf, k + 1, a) /\ Tail(todo) = << >>
  <2>1. /\ Head(todo) = CompactOp(DataBuf, k + 1, a)
        /\ CompactRest(Tail(todo), DataBuf, k + 1, m, a)
        /\ (Tail(todo) = << >> <=> k + 1 = Pages + DENSITY + m)
    <3>1. todo \in Seq(Op) /\ CompactRest(todo, DataBuf, k, m, a) /\ k < Pages + DENSITY + m
      BY <1>2
    <3>2. k \in Nat
      BY <1>0
    <3> QED
      BY <3>1, <3>2, CompactFirst
  <2> QED
    BY <1>1, <2>1
<1>4. o.op = "program" /\ o.at = LogBase /\ o.value = v
  <2>1. ~(k + 1 <= Pages) /\ ~(k + 1 <= Pages + DENSITY)
    BY <1>0, <1>1
  <2>2. o = Program(LogBase, v)
    BY <1>3, <2>1 DEF CompactOp
  <2> HIDE DEF o, v
  <2> QED
    BY <2>2 DEF Program
<1>5. b \in Octet
  BY <1>2 DEF Mirror
<1>6. /\ Replay(flash).buf = DataBuf /\ LogBase = Replay(flash).slot
      /\ TailErased(flash) /\ ZeroWords(flash)
  BY <1>2, ImageRestores
<1> HIDE DEF b
<1>7. /\ gl \in Flash /\ TailErased(gl) /\ Replay(gl).slot = LogBase + 1
      /\ Replay(gl).buf = [Replay(flash).buf EXCEPT ![a] = b]
      /\ \A i \in 0 .. LogEnd - 1 : i # LogBase => gl[i] = flash[i]
  BY <1>0, <1>2, <1>5, <1>6, ByteLogged
<1> HIDE DEF v
<1>8. /\ flash' = gl /\ todo' = << >> /\ DataBuf' = DataBuf /\ empty_slot' = empty_slot
      /\ ~wiping' /\ ~damaged' /\ ~stale'
  <2>1. Programmed(flash, o) = gl
    BY <1>4 DEF Programmed
  <2>2. ~Covered(LogBase)
    BY <1>0 DEF Covered
  <2> HIDE DEF gl
  <2> QED
    BY <1>2, <1>3, <1>4, <2>1, <2>2, StepEffect
<1> HIDE DEF gl
<1>9. Typed' /\ on'
  BY <1>7, <1>8, StepTyped
<1>10. Replay(gl).buf = DataBuf
  BY <1>2, <1>6, <1>7 DEF Mirror, b
<1>11. ZeroWords(gl)
  <2>1. \A i \in 0 .. DENSITY - 1 : gl[i] = flash[i]
    BY <1>0, <1>7
  <2> QED
    BY <1>6, <1>10, <2>1 DEF ZeroWords
<1>12. Settled(flash', empty_slot') /\ Synced(flash', DataBuf')
  BY <1>2, <1>7, <1>8, <1>10, <1>11 DEF Settled, Synced
<1> QED
  BY <1>2, <1>8, <1>9, <1>12, Restored

\* EEPROM_Erase, eeprom_legacy_emulated_flash.c:306-313, and the EEPROM_Init in it.
LEMMA StepErase ==
    ASSUME FlashInv, FlashStep, NEW k \in 0 .. Pages, PlanErase(k)
    PROVE  FlashInv' /\ MemoryStep
<1>0. Typed /\ Pages \in Nat /\ Pages > 0 /\ k \in Nat
  BY Sizes DEF FlashInv
<1> DEFINE o == Head(todo)
<1>1. /\ todo \in Seq(Op) /\ Len(todo) = Pages - k + 1
      /\ \A j \in 1 .. Len(todo) : todo[j] = IF k + j <= Pages THEN Erase(k + j - 1) ELSE ReInit
      /\ empty_slot = LogBase /\ (wiping <=> k > 0) /\ (wiping => ~stale)
      /\ ErasedUpTo(flash, k) /\ flash \in Flash /\ boot = Replay(flash)
  BY <1>0 DEF PlanErase, Typed
<1>2. /\ Len(todo) > 0 /\ 1 \in 1 .. Len(todo) /\ (Len(todo) = 1 <=> k = Pages)
  BY <1>0, <1>1
<1>3. /\ o = todo[1] /\ Len(Tail(todo)) = Len(todo) - 1
      /\ \A j \in 1 .. Len(todo) - 1 : Tail(todo)[j] = todo[j + 1]
      /\ (Tail(todo) = << >> <=> k = Pages)
  BY <1>1, <1>2, FirstOp
<1>4. o = IF k + 1 <= Pages THEN Erase(k + 1 - 1) ELSE ReInit
  BY <1>1, <1>2, <1>3
<1> HIDE DEF o
<1>5. CASE k < Pages
  <2> DEFINE n == k + 1
             t == Tail(todo)
             F(x) == IF x <= Pages THEN Erase(x - 1) ELSE ReInit
  <2>1. o.op = "erase" /\ o.at = k
    <3>1. k + 1 <= Pages /\ k + 1 - 1 = k
      BY <1>0, <1>5
    <3>2. o = Erase(k)
      BY <1>4, <3>1
    <3> QED
      BY <3>2 DEF Erase
  <2>2. t # << >>
    BY <1>0, <1>3, <1>5
  <2>3. /\ flash' = FLASH_ErasePage(flash, k) /\ todo' = t
        /\ DataBuf' = DataBuf /\ empty_slot' = empty_slot /\ wiping' /\ ~stale'
    BY <2>1, <2>2, StepEffect DEF o
  <2>4. flash' \in Flash /\ ErasedUpTo(flash', n)
    BY <1>0, <1>1, <2>3, ErasePage
  <2>5. Typed' /\ on'
    BY <2>4, StepTyped
  <2>6. Len(t) = Pages - n + 1 /\ n > 0 /\ n \in 0 .. Pages
    BY <1>0, <1>1, <1>3, <1>5
  <2>7. ASSUME NEW j \in 1 .. Len(t)
        PROVE  t[j] = F(n + j)
    <3>0. Len(t) = Len(todo) - 1 /\ \A i \in 1 .. Len(todo) - 1 : t[i] = todo[i + 1]
      BY <1>3
    <3> HIDE DEF t
    <3>1. j \in 1 .. Len(todo) - 1 /\ j + 1 \in 1 .. Len(todo) /\ k + (j + 1) = n + j
      BY <1>0, <1>1, <3>0
    <3>2. todo[j + 1] = F(k + (j + 1))
      BY <1>1, <3>1
    <3> HIDE DEF F, n
    <3> QED
      BY <3>0, <3>1, <3>2
  <2> HIDE DEF n, t
  <2>8. PlanErase(n)'
    BY <1>1, <2>3, <2>4, <2>6, <2>7 DEF PlanErase
  <2>9. Plan'
    BY <2>6, <2>8 DEF Plan
  <2> QED
    BY <2>3, <2>5, <2>9 DEF FlashInv, Kept, MemoryStep, Wiped
<1>6. CASE k = Pages
  <2>1. o.op = "init"
    <3>1. ~(k + 1 <= Pages)
      BY <1>0, <1>6
    <3> QED
      BY <1>4, <3>1 DEF ReInit
  <2>2. wiping /\ ~stale /\ Tail(todo) = << >>
    BY <1>0, <1>1, <1>3, <1>6
  <2>3. /\ flash' = flash /\ todo' = << >> /\ DataBuf' = boot.buf /\ empty_slot' = boot.slot
        /\ ~wiping' /\ ~damaged' /\ ~stale'
    BY <2>1, <2>2, StepEffect DEF o
  <2>4. /\ Replay(flash).buf = Zero /\ Replay(flash).slot = LogBase
        /\ TailErased(flash) /\ ZeroWords(flash)
    BY <1>1, <1>6, AllErased, ErasedRestores
  <2>5. Typed' /\ on'
    BY <1>1, <2>3, StepTyped
  <2>6. Settled(flash', empty_slot') /\ Synced(flash', DataBuf') /\ DataBuf' = Zero
    BY <1>1, <2>3, <2>4 DEF Settled, Synced
  <2> QED
    BY <2>2, <2>3, <2>5, <2>6, Restored
<1> QED
  BY <1>0, <1>5, <1>6

LEMMA FlashStepKeeps ==
    ASSUME FlashInv, FlashStep
    PROVE  FlashInv' /\ MemoryStep
<1>1. Plan /\ ~PlanNone
  BY StepEffect DEF FlashInv, PlanNone
<1>2. ASSUME NEW k \in 0 .. Pages + DENSITY, NEW m \in {0, 1}, NEW a \in Addr, PlanCompact(k, m, a)
      PROVE  FlashInv' /\ MemoryStep
  <2> QED
    BY <1>2, StepCompactErase, StepCompactImage, StepCompactEntry
<1> QED
  BY <1>1, <1>2, StepOne, StepTwo, StepEntryCompact, StepErase DEF Plan

-----------------------------------------------------------------------------
(* The other actions *)

LEMMA InitHolds == Init => FlashInv
<1> SUFFICES ASSUME Init
             PROVE  FlashInv
  OBVIOUS
<1>1. /\ flash = [i \in 0 .. LogEnd - 1 |-> FEE_EMPTY_WORD] /\ boot = Replay(flash)
      /\ DataBuf = Zero /\ empty_slot = LogBase /\ calls = << >> /\ todo = << >>
      /\ on = FALSE /\ wiping = FALSE /\ damaged = FALSE /\ stale = FALSE /\ spoilt = 0
  BY DEF Init
<1>2. flash \in Flash /\ \A i \in 0 .. LogEnd - 1 : flash[i] = FEE_EMPTY_WORD
  BY <1>1, EmptyWord DEF Flash
<1>3. TailErased(flash) /\ ZeroWords(flash)
  BY <1>2, ErasedRestores
<1>4. LogBase \in LogBase .. LogEnd /\ 0 \in 0 .. MaxSpoilt
  BY Sizes, FlashAssumption
<1>5. << >> \in Seq(Op) /\ << >> \in Seq(Call)
  OBVIOUS
<1>6. Typed
  BY <1>1, <1>2, <1>4, <1>5, ZeroTyped DEF Typed
<1> QED
  BY <1>1, <1>3, <1>6 DEF FlashInv

LEMMA BootKeeps ==
    ASSUME FlashInv, EEPROM_Init
    PROVE  FlashInv' /\ DataBuf' = boot.buf
<1>1. /\ ~on /\ on' = TRUE /\ DataBuf' = boot.buf /\ empty_slot' = boot.slot
      /\ flash' = flash /\ boot' = boot /\ calls' = calls /\ todo' = todo
      /\ wiping' = wiping /\ damaged' = damaged /\ stale' = stale /\ spoilt' = spoilt
  BY DEF EEPROM_Init, pages, history
<1>2. Typed /\ todo = << >> /\ ~wiping
  BY <1>1 DEF FlashInv
<1>3. boot.buf \in Mirror /\ boot.slot \in LogBase .. LogEnd /\ boot = Replay(flash)
  BY <1>2, ReplayTyped DEF Typed, LoopState
<1>4. Typed'
  BY <1>1, <1>2, <1>3 DEF Typed
<1>5. (~damaged => TailErased(flash)) /\ (Kept => ZeroWords(flash))
  BY <1>2 DEF FlashInv
<1>6. PlanNone'
  BY <1>1, <1>2, <1>3, <1>5 DEF PlanNone, Settled, Synced, Kept
<1>7. (~damaged /\ ~wiping => TailErased(flash))' /\ (Kept => ZeroWords(flash))'
  BY <1>1, <1>5 DEF Kept
<1> QED
  BY <1>1, <1>4, <1>6, <1>7 DEF FlashInv, Plan

LEMMA PowerLossKeeps ==
    ASSUME FlashInv, PowerLoss
    PROVE  FlashInv'
<1>1. /\ on' = FALSE /\ DataBuf' = Zero /\ empty_slot' = LogBase /\ calls' = << >> /\ todo' = << >>
      /\ wiping' = FALSE /\ damaged' = (damaged \/ wiping)
      /\ flash' = flash /\ boot' = boot /\ stale' = stale /\ spoilt' = spoilt
  BY DEF PowerLoss, pages
<1>2. LogBase \in LogBase .. LogEnd /\ << >> \in Seq(Op) /\ << >> \in Seq(Call)
  BY Sizes
<1>3. Typed'
  BY <1>1, <1>2, ZeroTyped DEF FlashInv, Typed
<1>4. (~damaged /\ ~wiping => TailErased(flash))' /\ (Kept => ZeroWords(flash))'
  BY <1>1 DEF FlashInv, Kept
<1> QED
  BY <1>1, <1>3, <1>4 DEF FlashInv

LEMMA EnterKeeps ==
    ASSUME FlashInv, NEW new \in Seq(Call), Enter(new)
    PROVE  FlashInv'
<1>1. /\ on /\ todo = << >> /\ (damaged => spoilt < MaxSpoilt) /\ calls' = new
      /\ spoilt' = IF damaged THEN spoilt + 1 ELSE 0
      /\ flash' = flash /\ boot' = boot /\ DataBuf' = DataBuf /\ empty_slot' = empty_slot
      /\ todo' = todo /\ on' = on /\ wiping' = wiping /\ damaged' = damaged /\ stale' = stale
  BY DEF Enter, Free, pages
<1>2. PlanNone
  BY <1>1, AtRest
<1>3. PlanNone'
  BY <1>1, <1>2 DEF PlanNone, Kept
<1>4. spoilt' \in 0 .. MaxSpoilt
  <2>1. spoilt \in 0 .. MaxSpoilt /\ damaged \in BOOLEAN
    BY DEF FlashInv, Typed
  <2> QED
    BY <1>1, <2>1, FlashAssumption
<1>5. Typed'
  BY <1>1, <1>4 DEF FlashInv, Typed
<1>6. (~damaged /\ ~wiping => TailErased(flash))' /\ (Kept => ZeroWords(flash))'
  BY <1>1 DEF FlashInv, Kept
<1> QED
  BY <1>1, <1>3, <1>5, <1>6 DEF FlashInv, Plan

LEMMA EraseKeeps ==
    ASSUME FlashInv, EEPROM_Erase
    PROVE  FlashInv'
<1>0. Pages \in Nat /\ Pages > 0 /\ LogBase \in LogBase .. LogEnd
  BY Sizes
<1> DEFINE cl == eeprom_clear
           ops == cl \o <<ReInit>>
<1>1. /\ on /\ todo = << >> /\ todo' = ops /\ empty_slot' = LogBase
      /\ flash' = flash /\ boot' = boot /\ DataBuf' = DataBuf /\ calls' = calls
      /\ on' = on /\ wiping' = wiping /\ damaged' = damaged /\ stale' = stale /\ spoilt' = spoilt
  BY DEF EEPROM_Erase, Free, pages, history
<1>2. cl \in Seq(Op) /\ Len(cl) = Pages /\ \A j \in 1 .. Pages : cl[j] = Erase(j - 1)
  <2>1. \A j \in 1 .. Pages : Erase(j - 1) \in Op
    BY <1>0 DEF Erase, Op
  <2> QED
    BY <1>0, <2>1 DEF eeprom_clear
<1>3. ReInit \in Op
  BY DEF ReInit, Op
<1> HIDE DEF cl
<1>4. /\ ops \in Seq(Op) /\ Len(ops) = Len(cl) + 1 /\ ops[Len(cl) + 1] = ReInit
      /\ \A j \in 1 .. Len(cl) : ops[j] = cl[j]
  BY <1>2, <1>3, AddedOne
<1> HIDE DEF ops
<1>5. ~wiping
  BY <1>1, AtRest DEF PlanNone
<1>6. PlanErase(0)'
  <2>1. Len(ops) = Pages - 0 + 1 /\ ~(0 > 0)
    BY <1>0, <1>2, <1>4
  <2>2. ASSUME NEW j \in 1 .. Len(ops)
        PROVE  ops[j] = IF 0 + j <= Pages THEN Erase(0 + j - 1) ELSE ReInit
    <3>1. CASE j \in 1 .. Pages
      <4>1. ops[j] = Erase(j - 1) /\ 0 + j <= Pages /\ 0 + j = j
        BY <1>0, <1>2, <1>4, <3>1
      <4> QED
        BY <4>1
    <3>2. CASE j = Pages + 1
      <4>1. ops[j] = ReInit /\ ~(0 + j <= Pages)
        BY <1>0, <1>2, <1>4, <3>2
      <4> QED
        BY <4>1
    <3> QED
      BY <1>0, <2>1, <3>1, <3>2
  <2> QED
    BY <1>1, <1>5, <2>1, <2>2, NoneErased DEF PlanErase
<1>7. 0 \in 0 .. Pages
  BY <1>0
<1>8. Plan'
  BY <1>6, <1>7 DEF Plan
<1>9. Typed'
  BY <1>0, <1>1, <1>4 DEF FlashInv, Typed
<1>10. (~damaged /\ ~wiping => TailErased(flash))' /\ (Kept => ZeroWords(flash))'
  BY <1>1 DEF FlashInv, Kept
<1> QED
  BY <1>1, <1>8, <1>9, <1>10 DEF FlashInv

\* A value of the model is a byte, and two make a half-word.
LEMMA ByteTyped ==
    /\ \A b \in Byte : b \in Octet
    /\ \A x, y \in Byte : x + 256 * y \in HalfWord
<1>1. \A b \in Byte : b \in Octet
  BY FlashAssumption
<1>2. ASSUME NEW x \in Byte, NEW y \in Byte
      PROVE  x + 256 * y \in HalfWord
  BY <1>1, WordOfBytes
<1> QED
  BY <1>1, <1>2

LEMMA CallTyped ==
    /\ \A a \in Nat, b \in Octet : ByteCall(a, b) \in Call
    /\ \A a \in Nat, v \in HalfWord : WordCall(a, v) \in Call
  BY DEF ByteCall, WordCall, Call

\* eeprom_write_block, eeprom_legacy_emulated_flash.c:601-629, asks for calls only.
LEMMA BlockCalls ==
    ASSUME NEW a \in Nat, NEW n \in Nat, n > 0, NEW data \in [1 .. n -> Byte]
    PROVE  eeprom_write_block(a, data) \in Seq(Call)
<1> DEFINE front == a % 2
           words == (n - front) \div 2
           pos == [i \in 1 .. words |-> front + 2 * i - 1]
           F == IF front = 1 THEN <<ByteCall(a, data[1])>> ELSE << >>
           M == [i \in 1 .. words |->
                   WordCall(a + pos[i] - 1, data[pos[i]] + 256 * data[pos[i] + 1])]
           L == IF front + 2 * words < n THEN <<ByteCall(a + n - 1, data[n])>> ELSE << >>
<1>1. Len(data) = n
  OBVIOUS
<1>2. front \in Nat /\ front <= 1 /\ words \in Nat /\ front + 2 * words <= n
  OBVIOUS
<1>3. eeprom_write_block(a, data) = F \o M \o L
  BY <1>1 DEF eeprom_write_block
<1> HIDE DEF front, words
<1>4. F \in Seq(Call)
  <2>1. 1 \in 1 .. n
    OBVIOUS
  <2>2. ByteCall(a, data[1]) \in Call
    BY <2>1, ByteTyped, CallTyped
  <2> QED
    BY <2>2
<1>5. L \in Seq(Call)
  <2>1. n \in 1 .. n /\ a + n - 1 \in Nat
    OBVIOUS
  <2>2. ByteCall(a + n - 1, data[n]) \in Call
    BY <2>1, ByteTyped, CallTyped
  <2> QED
    BY <2>2
<1>6. M \in Seq(Call)
  <2>1. ASSUME NEW i \in 1 .. words
        PROVE  M[i] \in Call
    <3> DEFINE p == pos[i]
    <3>1. p = front + 2 * i - 1
      OBVIOUS
    <3>2. p \in 1 .. n /\ p + 1 \in 1 .. n /\ a + p - 1 \in Nat
      <4> HIDE DEF p
      <4> QED
        BY <1>2, <3>1
    <3>3. M[i] = WordCall(a + p - 1, data[p] + 256 * data[p + 1])
      OBVIOUS
    <3> HIDE DEF p
    <3>4. data[p] \in Byte /\ data[p + 1] \in Byte
      BY <3>2
    <3>5. data[p] + 256 * data[p + 1] \in HalfWord
      BY <3>4, ByteTyped
    <3> HIDE DEF M
    <3> QED
      BY <3>2, <3>3, <3>5, CallTyped
  <2>2. M \in [1 .. words -> Call]
    BY <2>1
  <2> HIDE DEF M
  <2>3. \A k \in Nat : [1 .. k -> Call] \subseteq Seq(Call)
    OBVIOUS
  <2> QED
    BY <1>2, <2>2, <2>3
<1> HIDE DEF F, M, L
<1> QED
  BY <1>3, <1>4, <1>5, <1>6

LEMMA StutterKeeps ==
    ASSUME FlashInv, UNCHANGED vars
    PROVE  FlashInv'
<1>1. /\ flash' = flash /\ boot' = boot /\ DataBuf' = DataBuf /\ empty_slot' = empty_slot
      /\ calls' = calls /\ todo' = todo /\ on' = on
      /\ wiping' = wiping /\ damaged' = damaged /\ stale' = stale /\ spoilt' = spoilt
  BY DEF vars, pages, ram, history
<1>2. Plan => Plan'
  <2>1. PlanNone => PlanNone'
    BY <1>1 DEF PlanNone, Kept
  <2>2. PlanOne => PlanOne'
    BY <1>1 DEF PlanOne, Kept, Covered
  <2>3. PlanTwo => PlanTwo'
    BY <1>1 DEF PlanTwo, Kept
  <2>4. PlanEntryCompact => PlanEntryCompact'
    BY <1>1 DEF PlanEntryCompact, Kept
  <2>5. \A k, m, a : PlanCompact(k, m, a) => PlanCompact(k, m, a)'
    BY <1>1 DEF PlanCompact
  <2>6. \A k : PlanErase(k) => PlanErase(k)'
    BY <1>1 DEF PlanErase
  <2> QED
    BY <2>1, <2>2, <2>3, <2>4, <2>5, <2>6 DEF Plan
<1>3. Typed'
  BY <1>1 DEF FlashInv, Typed
<1>4. (~damaged /\ ~wiping => TailErased(flash))' /\ (Kept => ZeroWords(flash))'
  BY <1>1 DEF FlashInv, Kept
<1> QED
  BY <1>1, <1>2, <1>3, <1>4 DEF FlashInv

LEMMA NextKeeps == FlashInv /\ [Next]_vars => FlashInv'
<1> SUFFICES ASSUME FlashInv, [Next]_vars
             PROVE  FlashInv'
  OBVIOUS
<1>1. CASE EEPROM_Init
  BY <1>1, BootKeeps
<1>2. ASSUME NEW a \in Addr, NEW data \in Blocks, eeprom_update_block(a, data)
      PROVE  FlashInv'
  <2>1. PICK n \in 1 .. MaxBlock : data \in [1 .. n -> Byte]
    BY DEF Blocks
  <2>2. n \in Nat /\ n > 0 /\ a \in Nat
    BY FlashAssumption, AddrWord
  <2>3. eeprom_write_block(a, data) \in Seq(Call)
    BY <2>1, <2>2, BlockCalls
  <2>4. Enter(eeprom_write_block(a, data))
    BY <1>2 DEF eeprom_update_block
  <2> QED
    BY <2>3, <2>4, EnterKeeps
<1>3. ASSUME NEW a \in Addr, NEW lo \in Byte, NEW hi \in Byte, WriteWordUnaligned(a, lo + 256 * hi)
      PROVE  FlashInv'
  <2>1. a \in Nat /\ lo + 256 * hi \in HalfWord
    BY AddrWord, ByteTyped
  <2> DEFINE v == lo + 256 * hi
             c == WordCall(a, v)
  <2>2. c \in Call
    BY <2>1, CallTyped
  <2>3. Enter(<<c>>)
    BY <1>3 DEF WriteWordUnaligned
  <2> HIDE DEF c
  <2>4. <<c>> \in Seq(Call)
    BY <2>2
  <2> QED
    BY <2>3, <2>4, EnterKeeps
<1>4. CASE EEPROM_Erase
  BY <1>4, EraseKeeps
<1>5. CASE NextCall
  BY <1>5, NextCallKeeps
<1>6. CASE FlashStep
  BY <1>6, FlashStepKeeps
<1>7. CASE PowerLoss
  BY <1>7, PowerLossKeeps
<1>8. CASE UNCHANGED vars
  BY <1>8, StutterKeeps
<1> QED
  BY <1>1, <1>2, <1>3, <1>4, <1>5, <1>6, <1>7, <1>8 DEF Next

-----------------------------------------------------------------------------
(* What is programmed is erased *)

\* The operations of a compaction by their places.
LEMMA CompactOpKinds ==
    ASSUME NEW buf \in Mirror, NEW x \in 1 .. Pages + DENSITY + 1, NEW a
    PROVE  LET o == CompactOp(buf, x, a)
           IN  /\ x <= Pages => o = Erase(x - 1)
               /\ o.op = "erase" => x <= Pages /\ o.at = x - 1
               /\ o.op = "program" => x > Pages /\ o.at = x - Pages - 1
<1>0. Pages \in Nat /\ DENSITY \in Nat /\ LogBase = DENSITY
  BY Sizes
<1> DEFINE o == CompactOp(buf, x, a)
<1>1. CASE x <= Pages
  <2>1. o = Erase(x - 1)
    BY <1>1 DEF CompactOp
  <2> QED
    BY <1>1, <2>1 DEF Erase
<1>2. CASE x > Pages /\ x <= Pages + DENSITY
  <2> DEFINE w == x - Pages
             value == Flip(WordAt(buf, 2 * (w - 1)))
  <2>1. w \in 1 .. DENSITY /\ w - 1 = x - Pages - 1 /\ ~(x <= Pages)
    BY <1>0, <1>2
  <2>2. o = Image(buf)[w]
    BY <1>2, <2>1 DEF CompactOp
  <2> HIDE DEF w, o
  <2>3. o = IF value = FEE_EMPTY_WORD THEN Pass ELSE Program(w - 1, value)
    BY <2>1, <2>2 DEF Image
  <2> HIDE DEF value
  <2>4. o.op # "erase" /\ (o.op = "program" => o.at = w - 1)
    BY <2>3 DEF Pass, Program
  <2> QED
    BY <1>2, <2>1, <2>4 DEF o
<1>3. CASE x = Pages + DENSITY + 1
  <2>1. ~(x <= Pages) /\ ~(x <= Pages + DENSITY) /\ x > Pages /\ LogBase = x - Pages - 1
    BY <1>0, <1>3
  <2>2. o = Program(LogBase, 256 * a + buf[a])
    BY <2>1 DEF CompactOp
  <2> HIDE DEF o
  <2>3. o.op = "program" /\ o.at = LogBase
    BY <2>2 DEF Program
  <2> QED
    BY <2>1, <2>3 DEF o
<1> QED
  BY <1>0, <1>1, <1>2, <1>3

\* In a compaction, too, what is programmed is erased by then.
LEMMA CompactSafe ==
    ASSUME NEW fl, NEW ops, NEW buf \in Mirror, NEW k \in Nat, NEW m \in {0, 1}, NEW a,
           k < Pages + DENSITY + m, CompactRest(ops, buf, k, m, a),
           k <= Pages => ErasedUpTo(fl, k), k > Pages => HoldsImage(fl, buf, k - Pages),
           NEW j \in 1 .. Len(ops)
    PROVE  /\ ops[j].op = "erase" => ops[j].at \in 0 .. Pages - 1
           /\ ops[j].op = "program" =>
                /\ ops[j].at \in 0 .. LogEnd - 1
                /\ \/ fl[ops[j].at] = FEE_EMPTY_WORD
                   \/ \E i \in 1 .. j - 1 : ops[i] = Erase(ops[j].at \div PAGE)
<1>0. /\ Pages \in Nat /\ DENSITY \in Nat /\ DENSITY > 0 /\ LogEnd \in Nat /\ DENSITY < LogEnd
      /\ m \in Nat /\ m <= 1
  BY Sizes
<1>1. /\ Len(ops) = Pages + DENSITY + m - k
      /\ \A i \in 1 .. Len(ops) : ops[i] = CompactOp(buf, k + i, a)
  BY DEF CompactRest
<1> DEFINE x == k + j
           o == ops[j]
<1>2. x \in 1 .. Pages + DENSITY + 1 /\ x > k /\ x \in Nat
  BY <1>0, <1>1
<1>3. o = CompactOp(buf, x, a)
  BY <1>1
<1> HIDE DEF x, o
<1>4. /\ o.op = "erase" => x <= Pages /\ o.at = x - 1
      /\ o.op = "program" => x > Pages /\ o.at = x - Pages - 1
  BY <1>2, <1>3, CompactOpKinds
<1>5. o.op = "erase" => o.at \in 0 .. Pages - 1
  BY <1>0, <1>2, <1>4
<1>6. ASSUME o.op = "program"
      PROVE  /\ o.at \in 0 .. LogEnd - 1
             /\ \/ fl[o.at] = FEE_EMPTY_WORD
                \/ \E i \in 1 .. j - 1 : ops[i] = Erase(o.at \div PAGE)
  <2> DEFINE w == o.at
             p == w \div PAGE
  <2>1. w = x - Pages - 1 /\ x > Pages
    BY <1>4, <1>6
  <2> HIDE DEF w
  <2>2. w \in 0 .. LogEnd - 1
    BY <1>0, <1>2, <2>1
  <2>3. p \in 0 .. Pages - 1
    BY <2>2, PageOf
  <2> HIDE DEF p
  <2>4. CASE k > Pages
    <3>1. ~(w < k - Pages)
      BY <1>0, <1>2, <2>1, <2>4
    <3>2. fl[w] = FEE_EMPTY_WORD
      BY <2>2, <2>4, <3>1 DEF HoldsImage
    <3> QED
      BY <2>2, <3>2 DEF w
  <2>5. CASE k <= Pages /\ p < k
    <3>1. fl[w] = FEE_EMPTY_WORD
      BY <2>2, <2>5 DEF ErasedUpTo, p
    <3> QED
      BY <2>2, <3>1 DEF w
  <2>6. CASE k <= Pages /\ ~(p < k)
    <3> DEFINE i == p - k + 1
    <3>1. i \in 1 .. j - 1 /\ i \in 1 .. Len(ops) /\ k + i = p + 1 /\ p + 1 <= Pages
          /\ p + 1 \in 1 .. Pages + DENSITY + 1 /\ p + 1 - 1 = p
      BY <1>0, <1>1, <1>2, <2>1, <2>3, <2>6 DEF x
    <3> HIDE DEF i
    <3>2. ops[i] = CompactOp(buf, p + 1, a)
      BY <1>1, <3>1
    <3>3. CompactOp(buf, p + 1, a) = Erase(p)
      <4> DEFINE y == p + 1
      <4>1. y \in 1 .. Pages + DENSITY + 1 /\ y <= Pages /\ y - 1 = p
        BY <1>0, <2>3
      <4> HIDE DEF y
      <4>2. CompactOp(buf, y, a) = Erase(y - 1)
        BY <4>1, CompactOpKinds
      <4> QED
        BY <4>1, <4>2 DEF y
    <3> QED
      BY <2>2, <3>1, <3>2, <3>3 DEF w, p
  <2> QED
    BY <1>0, <2>3, <2>4, <2>5, <2>6
<1> QED
  BY <1>5, <1>6 DEF o

\* The operations of every plan are inside the pages, and find the flash erased.
OpSafe(i) ==
    /\ todo[i].op = "erase" => todo[i].at \in 0 .. Pages - 1
    /\ todo[i].op = "program" =>
         /\ todo[i].at \in 0 .. LogEnd - 1
         /\ ~damaged => \/ flash[todo[i].at] = FEE_EMPTY_WORD
                        \/ \E j \in 1 .. i - 1 : todo[j] = Erase(todo[i].at \div PAGE)

LEMMA PlanSafe ==
    ASSUME FlashInv, NEW i \in DOMAIN todo
    PROVE  OpSafe(i)
<1>0. /\ Typed /\ Pages \in Nat /\ DENSITY \in Nat /\ DENSITY > 0
  BY Sizes DEF FlashInv
<1>1. todo \in Seq(Op) /\ i \in 1 .. Len(todo) /\ todo # << >> /\ DataBuf \in Mirror
  BY <1>0 DEF Typed
<1>2. Plan /\ ~PlanNone
  BY <1>1 DEF FlashInv, PlanNone
<1>3. CASE PlanOne
  <2>1. i = 1
    BY <1>1, <1>3 DEF PlanOne
  <2> QED
    BY <1>3, <2>1 DEF PlanOne, IsProgram, OpSafe
<1>4. CASE PlanTwo
  <2>1. i = 1 \/ i = 2
    BY <1>1, <1>4 DEF PlanTwo
  <2> QED
    BY <1>4, <2>1 DEF PlanTwo, IsProgram, OpSafe
<1>5. CASE PlanEntryCompact
  <2> DEFINE t == Tail(todo)
  <2>1. /\ Len(todo) = 1 + Pages + DENSITY /\ IsProgram(todo[1])
        /\ CompactRest(t, DataBuf, 0, 0, 0)
        /\ ~damaged => flash[todo[1].at] = FEE_EMPTY_WORD
    BY <1>5 DEF PlanEntryCompact
  <2>2. CASE i = 1
    BY <2>1, <2>2 DEF IsProgram, OpSafe
  <2>3. CASE i # 1
    <3> DEFINE j == i - 1
    <3>1. /\ Len(t) = Len(todo) - 1 /\ \A n \in 1 .. Len(todo) - 1 : t[n] = todo[n + 1]
      BY <1>0, <1>1, <2>1, FirstOp
    <3> HIDE DEF t
    <3>2. j \in 1 .. Len(t) /\ todo[i] = t[j] /\ j + 1 = i
      <4>1. j \in 1 .. Len(todo) - 1 /\ j + 1 = i
        BY <1>0, <1>1, <2>1, <2>3
      <4> HIDE DEF j
      <4> QED
        BY <3>1, <4>1
    <3>3. 0 < Pages + DENSITY + 0 /\ ~(0 > Pages) /\ ErasedUpTo(flash, 0)
      BY <1>0, NoneErased
    <3> HIDE DEF j
    <3>4. /\ t[j].op = "erase" => t[j].at \in 0 .. Pages - 1
          /\ t[j].op = "program" =>
               /\ t[j].at \in 0 .. LogEnd - 1
               /\ \/ flash[t[j].at] = FEE_EMPTY_WORD
                  \/ \E n \in 1 .. j - 1 : t[n] = Erase(t[j].at \div PAGE)
      BY <1>1, <2>1, <3>2, <3>3, CompactSafe
    <3>5. ASSUME NEW e, NEW n \in 1 .. j - 1, t[n] = e
          PROVE  \E l \in 1 .. i - 1 : todo[l] = e
      <4>1. n \in 1 .. Len(todo) - 1 /\ n + 1 \in 1 .. i - 1
        BY <1>0, <2>1, <3>1, <3>2
      <4> QED
        BY <3>1, <3>5, <4>1
    <3> QED
      BY <3>2, <3>4, <3>5 DEF OpSafe
  <2> QED
    BY <2>2, <2>3
<1>6. ASSUME NEW k \in 0 .. Pages + DENSITY, NEW m \in {0, 1}, NEW a \in Addr, PlanCompact(k, m, a)
      PROVE  OpSafe(i)
  <2>1. k \in Nat
    BY <1>0
  <2>2. /\ k < Pages + DENSITY + m /\ CompactRest(todo, DataBuf, k, m, a)
        /\ k <= Pages => ErasedUpTo(flash, k)
        /\ k > Pages => HoldsImage(flash, DataBuf, k - Pages)
    BY <1>6 DEF PlanCompact
  <2>3. /\ todo[i].op = "erase" => todo[i].at \in 0 .. Pages - 1
        /\ todo[i].op = "program" =>
             /\ todo[i].at \in 0 .. LogEnd - 1
             /\ \/ flash[todo[i].at] = FEE_EMPTY_WORD
                \/ \E j \in 1 .. i - 1 : todo[j] = Erase(todo[i].at \div PAGE)
    BY <1>1, <2>1, <2>2, CompactSafe
  <2> QED
    BY <2>3 DEF OpSafe
<1>7. ASSUME NEW k \in 0 .. Pages, PlanErase(k)
      PROVE  OpSafe(i)
  <2>1. /\ Len(todo) = Pages - k + 1
        /\ todo[i] = IF k + i <= Pages THEN Erase(k + i - 1) ELSE ReInit
    BY <1>1, <1>7 DEF PlanErase
  <2>2. CASE k + i <= Pages
    <3>1. todo[i] = Erase(k + i - 1) /\ k + i - 1 \in 0 .. Pages - 1
      BY <1>0, <1>1, <2>1, <2>2, SMTT(20)
    <3> QED
      BY <3>1 DEF Erase, OpSafe
  <2>3. CASE ~(k + i <= Pages)
    BY <2>1, <2>3 DEF ReInit, OpSafe
  <2> QED
    BY <2>2, <2>3
<1> QED
  BY <1>2, <1>3, <1>4, <1>5, <1>6, <1>7 DEF Plan
-----------------------------------------------------------------------------
(* Theorems *)

\* What a call under way has yet to do is always what makes the flash hold the
\* mirror again (eeprom_legacy_emulated_flash.c:216-629).
THEOREM Invariance == Spec => []FlashInv
  BY InitHolds, NextKeeps, PTL DEF Spec

\* Half-words, bytes, the end of the log and the addresses of the operations
\* asked for stay in range (eeprom_legacy_emulated_flash.c:216-629).
THEOREM TypeCorrect == Spec => []TypeOK
<1>1. FlashInv => TypeOK
  <2> SUFFICES ASSUME FlashInv
               PROVE  TypeOK
    OBVIOUS
  <2>1. Typed
    BY DEF FlashInv
  <2>2. \A i \in DOMAIN todo : /\ todo[i].op = "erase" => todo[i].at \in 0 .. Pages - 1
                               /\ todo[i].op = "program" => todo[i].at \in 0 .. LogEnd - 1
    BY PlanSafe DEF OpSafe
  <2> QED
    BY <2>1, <2>2 DEF TypeOK, Typed, Flash, Mirror
<1> QED
  BY <1>1, Invariance, PTL

\* eeprom_legacy_emulated_flash.c:315-471: for any sizes, whatever is programmed
\* is erased at that time, in the image, in the log and after a compaction.
THEOREM AlwaysProgramsErased == Spec => []ProgramsErased
<1>1. FlashInv => ProgramsErased
  BY PlanSafe DEF ProgramsErased, OpSafe
<1> QED
  BY <1>1, Invariance, PTL

-----------------------------------------------------------------------------
(* The memory that is implemented *)

\* A call changes the mirror in one word at most, once the memory holds it.
LEMMA CallWrites ==
    ASSUME FlashInv, NextCall
    PROVE  /\ on /\ boot' = boot /\ on' = on
           /\ wiping' = wiping /\ damaged' = damaged /\ stale' = stale
           /\ Kept => boot.buf = DataBuf
           /\ \/ DataBuf' = DataBuf
              \/ \E a \in Addr : Off(DataBuf, DataBuf', a \div 2)
<1> DEFINE c == Head(calls)
           rest == Tail(calls)
<1>1. on /\ todo = << >> /\ calls # << >> /\ calls \in Seq(Call)
  BY DEF NextCall, FlashInv, Typed
<1>2. c \in Call
  BY <1>1
<1>3. \/ c.op = "byte" /\ EEPROM_WriteDataByte(c.at, c.value, rest)
      \/ c.op = "word" /\ EEPROM_WriteDataWord(c.at, c.value, rest)
  BY DEF NextCall
<1> HIDE DEF c, rest
<1>4. Kept => boot.buf = DataBuf
  BY <1>1, AtRest DEF PlanNone, Synced, FlashInv, Typed
<1>5. DataBuf \in Mirror
  BY DEF FlashInv, Typed
<1>6. ASSUME NEW r, Skip(r)
      PROVE  DataBuf' = DataBuf /\ boot' = boot /\ on' = on
             /\ wiping' = wiping /\ damaged' = damaged /\ stale' = stale
  BY <1>6 DEF Skip, pages, history
<1>7. ASSUME NEW buf, NEW ask, NEW r, Carry(buf, ask, r)
      PROVE  DataBuf' = buf /\ boot' = boot /\ on' = on
             /\ wiping' = wiping /\ damaged' = damaged /\ stale' = stale
  BY <1>7 DEF Carry, pages, history
<1>8. CASE c.op = "byte" /\ EEPROM_WriteDataByte(c.at, c.value, rest)
  <2> DEFINE a == c.at
             buf == [DataBuf EXCEPT ![a] = c.value]
  <2>1. CASE Skip(rest)
    BY <1>1, <1>4, <1>6, <2>1
  <2>2. ASSUME a \in Addr, NEW ask, Carry(buf, ask, rest)
        PROVE  /\ boot' = boot /\ on' = on
               /\ wiping' = wiping /\ damaged' = damaged /\ stale' = stale
               /\ \E x \in Addr : Off(DataBuf, DataBuf', x \div 2)
    <3>1. Off(DataBuf, buf, a \div 2)
      BY <1>5 DEF Off, Mirror
    <3> QED
      BY <1>7, <2>2, <3>1
  <2>3. Skip(rest) \/ (a \in Addr /\ \E ask : Carry(buf, ask, rest))
    BY <1>8 DEF EEPROM_WriteDataByte
  <2> QED
    BY <1>1, <1>4, <2>1, <2>2, <2>3
<1>9. CASE c.op = "word" /\ EEPROM_WriteDataWord(c.at, c.value, rest)
  <2> DEFINE a == c.at
             buf == PutWord(DataBuf, a, c.value)
  <2>1. ASSUME NEW r, Skip(r)
        PROVE  /\ boot' = boot /\ on' = on
               /\ wiping' = wiping /\ damaged' = damaged /\ stale' = stale
               /\ DataBuf' = DataBuf
    BY <1>6, <2>1
  <2>2. ASSUME a \in Addr, a % 2 = 0, NEW ask, Carry(buf, ask, rest)
        PROVE  /\ boot' = boot /\ on' = on
               /\ wiping' = wiping /\ damaged' = damaged /\ stale' = stale
               /\ \E x \in Addr : Off(DataBuf, DataBuf', x \div 2)
    <3>1. c.value \in HalfWord
      BY <1>2, <1>9 DEF Call
    <3>2. Off(DataBuf, buf, a \div 2)
      BY <1>5, <2>2, <3>1, PutWordOff
    <3> QED
      BY <1>7, <2>2, <3>2
  <2>3. (\E r : Skip(r)) \/ (a \in Addr /\ a % 2 = 0 /\ \E ask : Carry(buf, ask, rest))
    BY <1>9 DEF EEPROM_WriteDataWord
  <2> QED
    BY <1>1, <1>4, <2>1, <2>2, <2>3
<1> QED
  BY <1>3, <1>8, <1>9

LEMMA InitStores == Init => Store_!Init
<1> SUFFICES ASSUME Init
             PROVE  Store_!Init
  OBVIOUS
<1>1. FlashInv /\ DataBuf = Zero /\ on = FALSE /\ wiping = FALSE /\ damaged = FALSE /\ stale = FALSE
      /\ \A i \in 0 .. LogEnd - 1 : flash[i] = FEE_EMPTY_WORD
  BY InitHolds DEF Init
<1>2. boot.buf = Zero
  <2>1. flash \in Flash /\ boot = Replay(flash)
    BY <1>1 DEF FlashInv, Typed
  <2> QED
    BY <1>1, <2>1, ErasedRestores
<1>3. Store_!Zero = Zero
  BY DEF Store_!Zero, Zero
<1> QED
  BY <1>1, <1>2, <1>3 DEF Store_!Init

LEMMA NextStores ==
    ASSUME FlashInv, [Next]_vars
    PROVE  Store_!Next \/ UNCHANGED Store_!vars
<1> DEFINE safe == ~(wiping \/ damaged \/ stale)
<1>0. FlashInv' /\ safe = Kept /\ safe' = Kept'
  <2>1. FlashInv'
    BY NextKeeps
  <2>2. safe = Kept
    BY DEF Kept, FlashInv, Typed
  <2>3. safe' = Kept'
    BY <2>1 DEF Kept, FlashInv, Typed
  <2> QED
    BY <2>1, <2>2, <2>3
<1>10. Mirror = [Addr -> Octet] /\ Store_!Zero = Zero
  BY DEF Mirror, Store_!Zero, Zero
<1>9. ASSUME boot' = boot, DataBuf' = DataBuf, on' = on,
             wiping' = wiping, damaged' = damaged, stale' = stale
      PROVE  UNCHANGED Store_!vars
  BY <1>9 DEF Store_!vars
<1>1. CASE EEPROM_Init
  <2>1. DataBuf' = boot.buf /\ ~on /\ on' = TRUE /\ boot' = boot
        /\ wiping' = wiping /\ damaged' = damaged /\ stale' = stale
    BY <1>1, BootKeeps DEF EEPROM_Init, pages, history
  <2>2. Store_!Boot
    BY <2>1 DEF Store_!Boot
  <2> QED
    BY <2>2 DEF Store_!Next
<1>2. ASSUME NEW new, Enter(new)
      PROVE  UNCHANGED Store_!vars
  BY <1>2, <1>9 DEF Enter, Free, pages
<1>3. CASE EEPROM_Erase
  BY <1>3, <1>9 DEF EEPROM_Erase, pages, history
<1>4. CASE NextCall
  <2>1. /\ on /\ boot' = boot /\ on' = on
        /\ wiping' = wiping /\ damaged' = damaged /\ stale' = stale
        /\ Kept => boot.buf = DataBuf
        /\ \/ DataBuf' = DataBuf
           \/ \E a \in Addr : Off(DataBuf, DataBuf', a \div 2)
    BY <1>4, CallWrites
  <2>2. CASE DataBuf' = DataBuf
    BY <1>9, <2>1, <2>2
  <2>3. ASSUME NEW a \in Addr, Off(DataBuf, DataBuf', a \div 2)
        PROVE  Store_!Next
    <3>1. DataBuf' \in Mirror
      BY <1>0 DEF FlashInv, Typed
    <3>2. safe => boot.buf = DataBuf
      BY <1>0, <2>1
    <3>3. Store_!Write(a \div 2)
      BY <1>10, <2>1, <2>3, <3>1, <3>2 DEF Store_!Write, Off
    <3> QED
      BY <3>3 DEF Store_!Next
  <2> QED
    BY <2>1, <2>2, <2>3
<1>5. CASE FlashStep
  <2>1. MemoryStep /\ on /\ on' = on
    BY <1>5, FlashStepKeeps, StepEffect
  <2>2. boot'.buf \in Mirror
    <3>1. flash' \in Flash /\ boot' = Replay(flash')
      BY <1>0 DEF FlashInv, Typed
    <3> QED
      BY <3>1, ReplayTyped DEF LoopState
  <2>3. CASE Persisted
    <3>1. safe' = safe
      BY <1>0, <2>3 DEF Persisted
    <3> HIDE DEF safe
    <3>2. DataBuf' = DataBuf /\ \A a \in Addr : boot'.buf[a] \in {boot.buf[a], DataBuf[a]}
      BY <2>3 DEF Persisted
    <3>3. Store_!Persist
      BY <2>1, <3>1, <3>2 DEF Store_!Persist, safe
    <3> QED
      BY <3>3 DEF Store_!Next
  <2>4. CASE Wiped
    <3>1. safe' = FALSE
      BY <1>0, <2>4 DEF Wiped
    <3>2. Store_!Wipe
      BY <1>10, <2>1, <2>2, <2>4, <3>1 DEF Store_!Wipe, Wiped
    <3> QED
      BY <3>2 DEF Store_!Next
  <2>5. CASE WipeEnds
    <3>1. ~safe /\ safe' = TRUE
      BY <1>0, <2>5 DEF WipeEnds
    <3>2. Store_!WipeDone
      BY <1>10, <2>1, <2>5, <3>1 DEF Store_!WipeDone, WipeEnds
    <3> QED
      BY <3>2 DEF Store_!Next
  <2> QED
    BY <2>1, <2>3, <2>4, <2>5 DEF MemoryStep
<1>6. CASE PowerLoss
  <2>1. /\ on /\ on' = FALSE /\ DataBuf' = Zero /\ boot' = boot
        /\ wiping' = FALSE /\ damaged' = (damaged \/ wiping) /\ stale' = stale
    BY <1>6 DEF PowerLoss, pages
  <2>2. safe' = safe
    BY <2>1
  <2>3. Store_!PowerLoss
    BY <1>10, <2>1, <2>2 DEF Store_!PowerLoss
  <2> QED
    BY <2>3 DEF Store_!Next
<1>7. CASE UNCHANGED vars
  BY <1>7, <1>9 DEF vars, pages, ram, history
<1>8. CASE Next
  <2>1. CASE \E a \in Addr, data \in Blocks : eeprom_update_block(a, data)
    BY <1>2, <2>1 DEF eeprom_update_block
  <2>2. CASE \E a \in Addr, lo, hi \in Byte : WriteWordUnaligned(a, lo + 256 * hi)
    BY <1>2, <2>2 DEF WriteWordUnaligned
  <2> QED
    BY <1>1, <1>3, <1>4, <1>5, <1>6, <1>8, <2>1, <2>2 DEF Next
<1> QED
  BY <1>7, <1>8

\* eeprom_legacy_emulated_flash.c:216-629: for any size of image, log and page,
\* image and log implement the memory of EepromStore.  A write is durable when
\* it returns, a power failure leaves each byte old or new, and a completed
\* compaction or erasure makes good whatever was spoilt before.
THEOREM Implements == Spec => ImplementsStore
<1>1. Init => Store_!Init
  BY InitStores
<1>2. FlashInv /\ [Next]_vars => [Store_!Next]_(Store_!vars)
  BY NextStores
<1> QED
  BY <1>1, <1>2, Invariance, PTL DEF Spec, ImplementsStore, Store_!Spec

-----------------------------------------------------------------------------
(* The order in which a block is saved *)

CallsAscend ==
    \A i, j \in DOMAIN calls : i < j => LastWord(calls[i]) < FirstWord(calls[j])

OrderInv == FlashInv /\ CallsAscend /\ SavedInOrder

LEMMA WordsOfCall ==
    ASSUME NEW c \in Call
    PROVE  c.at \in Nat /\ FirstWord(c) \in Nat /\ LastWord(c) \in Nat /\ FirstWord(c) <= LastWord(c)
<1>1. c.at \in Nat
  BY DEF Call
<1> QED
  BY <1>1 DEF FirstWord, LastWord

\* The calls of eeprom_write_block are about one word each, and these follow
\* one another.
LEMMA BlockAscends ==
    ASSUME NEW a \in Nat, NEW n \in Nat, n > 0, NEW data \in [1 .. n -> Byte]
    PROVE  LET new == eeprom_write_block(a, data)
           IN  \A i, j \in DOMAIN new : i < j => LastWord(new[i]) < FirstWord(new[j])
<1> DEFINE front == a % 2
           words == (n - front) \div 2
           pos == [i \in 1 .. words |-> front + 2 * i - 1]
           F == IF front = 1 THEN <<ByteCall(a, data[1])>> ELSE << >>
           M == [i \in 1 .. words |->
                   WordCall(a + pos[i] - 1, data[pos[i]] + 256 * data[pos[i] + 1])]
           L == IF front + 2 * words < n THEN <<ByteCall(a + n - 1, data[n])>> ELSE << >>
           base == a \div 2
           AtWord(c, w) == FirstWord(c) = w /\ LastWord(c) = w
<1>1. Len(data) = n
  OBVIOUS
<1>2. /\ front \in Nat /\ front <= 1 /\ words \in Nat /\ front + 2 * words <= n
      /\ n <= front + 2 * words + 1
      /\ base \in Nat /\ a = 2 * base + front
  OBVIOUS
<1>3. eeprom_write_block(a, data) = F \o M \o L
  BY <1>1 DEF eeprom_write_block
<1> HIDE DEF front, words, base
<1>4. \A x \in Nat : (2 * x) \div 2 = x /\ (2 * x + 1) \div 2 = x
  OBVIOUS
<1>5. /\ F \in Seq(Call) /\ Len(F) = front
      /\ \A i \in 1 .. front : AtWord(F[i], base)
  <2>1. CASE front = 1
    <3> DEFINE c == ByteCall(a, data[1])
    <3>1. c.op = "byte" /\ c.at = a
      BY DEF ByteCall
    <3>2. c \in Call
      <4>1. 1 \in 1 .. n
        OBVIOUS
      <4> QED
        BY <4>1, ByteTyped, CallTyped
    <3>3. a \div 2 = base
      BY <1>2, <1>4, <2>1
    <3> HIDE DEF c
    <3>4. AtWord(c, base)
      BY <3>1, <3>3 DEF FirstWord, LastWord
    <3>5. F = <<c>>
      BY <2>1 DEF c
    <3> HIDE DEF F, AtWord
    <3>6. \A i \in 1 .. front : i = 1
      BY <2>1
    <3> QED
      BY <2>1, <3>2, <3>4, <3>5, <3>6
  <2>2. CASE front # 1
    <3>1. F = << >> /\ front = 0
      BY <1>2, <2>2
    <3> HIDE DEF F, AtWord
    <3> QED
      BY <3>1
  <2> QED
    BY <2>1, <2>2
<1>6. /\ M \in Seq(Call) /\ Len(M) = words
      /\ \A i \in 1 .. words : AtWord(M[i], base + front + i - 1)
  <2>1. ASSUME NEW i \in 1 .. words
        PROVE  M[i] \in Call /\ AtWord(M[i], base + front + i - 1)
    <3> DEFINE p == pos[i]
               v == data[p] + 256 * data[p + 1]
               at == a + p - 1
               w == base + front + i - 1
    <3>1. p = front + 2 * i - 1
      OBVIOUS
    <3>2. p \in 1 .. n /\ p + 1 \in 1 .. n /\ at \in Nat
      <4> HIDE DEF p
      <4> QED
        BY <1>2, <3>1
    <3>3. M[i] = WordCall(at, v)
      OBVIOUS
    <3>4. at = 2 * w /\ w \in Nat
      <4> HIDE DEF p
      <4> QED
        BY <1>2, <3>1
    <3>5. v \in HalfWord
      <4> HIDE DEF p
      <4>1. data[p] \in Byte /\ data[p + 1] \in Byte
        BY <3>2
      <4> QED
        BY <4>1, ByteTyped
    <3> DEFINE c == WordCall(at, v)
    <3> HIDE DEF p, v, at, w
    <3>6. c \in Call
      BY <3>2, <3>5, CallTyped
    <3>7. c.op = "word" /\ c.at = at
      BY DEF WordCall
    <3> HIDE DEF c
    <3>8. FirstWord(c) = w /\ LastWord(c) = w
      <4>1. at \div 2 = w /\ (at + 1) \div 2 = w
        BY <1>4, <3>4
      <4> QED
        BY <3>7, <4>1 DEF FirstWord, LastWord
    <3> QED
      BY <3>3, <3>6, <3>8 DEF c, w
  <2>2. M \in [1 .. words -> Call]
    BY <2>1
  <2> HIDE DEF M, AtWord
  <2>3. \A k \in Nat : \A f \in [1 .. k -> Call] : f \in Seq(Call) /\ Len(f) = k
    OBVIOUS
  <2> QED
    BY <1>2, <2>1, <2>2, <2>3
<1>7. /\ L \in Seq(Call) /\ Len(L) \in {0, 1}
      /\ \A i \in 1 .. Len(L) : AtWord(L[i], base + front + words)
  <2>1. CASE front + 2 * words < n
    <3> DEFINE c == ByteCall(a + n - 1, data[n])
               w == base + front + words
    <3>1. c.op = "byte" /\ c.at = a + n - 1
      BY DEF ByteCall
    <3>2. c \in Call
      <4>1. n \in 1 .. n /\ a + n - 1 \in Nat
        OBVIOUS
      <4> QED
        BY <4>1, ByteTyped, CallTyped
    <3>3. a + n - 1 = 2 * w /\ w \in Nat
      BY <1>2, <2>1
    <3> HIDE DEF c, w
    <3>4. AtWord(c, w)
      <4>1. (a + n - 1) \div 2 = w
        BY <1>4, <3>3
      <4> QED
        BY <3>1, <4>1 DEF FirstWord, LastWord
    <3>5. L = <<c>>
      BY <2>1 DEF c
    <3> HIDE DEF L, AtWord
    <3> QED
      BY <3>2, <3>4, <3>5 DEF w
  <2>2. CASE ~(front + 2 * words < n)
    <3>1. L = << >>
      BY <2>2
    <3> HIDE DEF L, AtWord
    <3> QED
      BY <3>1
  <2> QED
    BY <2>1, <2>2
<1> HIDE DEF F, M, L, AtWord
<1> DEFINE FM == F \o M
           new == FM \o L
<1>8. /\ FM \in Seq(Call) /\ Len(FM) = front + words
      /\ \A i \in 1 .. front + words : FM[i] = IF i <= front THEN F[i] ELSE M[i - front]
  BY <1>5, <1>6, ConcatProperties
<1> HIDE DEF FM
<1>9. /\ new \in Seq(Call) /\ Len(new) = front + words + Len(L)
      /\ \A i \in 1 .. Len(new) : new[i] = IF i <= front + words THEN FM[i]
                                           ELSE L[i - (front + words)]
  <2>1. /\ FM \o L \in Seq(Call) /\ Len(FM \o L) = Len(FM) + Len(L)
        /\ \A i \in 1 .. Len(FM) + Len(L) :
              (FM \o L)[i] = IF i <= Len(FM) THEN FM[i] ELSE L[i - Len(FM)]
    BY <1>7, <1>8, ConcatProperties
  <2> QED
    BY <1>8, <2>1
<1> HIDE DEF new
\* The k-th call is about the k-th word.
<1>10. ASSUME NEW k \in 1 .. Len(new)
       PROVE  AtWord(new[k], base + k - 1)
  <2>1. CASE k <= front
    <3>1. k \in 1 .. front /\ k \in 1 .. front + words /\ base + k - 1 = base
      BY <1>2, <2>1
    <3>2. new[k] = F[k]
      BY <1>2, <1>8, <1>9, <2>1, <3>1
    <3> QED
      BY <1>5, <3>1, <3>2
  <2>2. CASE k > front /\ k <= front + words
    <3> DEFINE i == k - front
    <3>1. i \in 1 .. words /\ k \in 1 .. front + words /\ ~(k <= front)
          /\ base + front + i - 1 = base + k - 1
      BY <1>2, <2>2
    <3>2. new[k] = M[i]
      BY <1>8, <1>9, <2>2, <3>1
    <3> HIDE DEF i
    <3>3. AtWord(M[i], base + front + i - 1)
      BY <1>6, <3>1
    <3> QED
      BY <3>1, <3>2, <3>3
  <2>3. CASE k > front + words
    <3> DEFINE i == k - (front + words)
    <3>1. i \in 1 .. Len(L) /\ i = 1 /\ ~(k <= front + words)
      BY <1>2, <1>7, <1>9, <2>3
    <3>2. base + front + words = base + k - 1
      BY <1>2, <3>1
    <3>3. new[k] = L[i]
      BY <1>9, <3>1
    <3> HIDE DEF i
    <3>4. AtWord(L[i], base + front + words)
      BY <1>7, <3>1
    <3> QED
      BY <3>2, <3>3, <3>4
  <2> QED
    BY <1>2, <2>1, <2>2, <2>3
<1>11. \A i, j \in 1 .. Len(new) : i < j => LastWord(new[i]) < FirstWord(new[j])
  <2> TAKE i, j \in 1 .. Len(new)
  <2>1. LastWord(new[i]) = base + i - 1 /\ FirstWord(new[j]) = base + j - 1
    BY <1>10 DEF AtWord
  <2> QED
    BY <1>2, <2>1
<1>12. DOMAIN new = 1 .. Len(new)
  BY <1>9
<1> QED
  BY <1>3, <1>11, <1>12 DEF new, FM

\* What a call leaves to be made, and which word it changes.
LEMMA CallShape ==
    ASSUME FlashInv, NextCall
    PROVE  LET c == Head(calls)
               rest == Tail(calls)
           IN  /\ calls \in Seq(Call) /\ calls # << >> /\ c \in Call
               /\ \/ /\ calls' = rest
                     /\ \/ DataBuf' = DataBuf
                        \/ /\ c.at \in Addr /\ LastWord(c) = c.at \div 2
                           /\ Off(DataBuf, DataBuf', c.at \div 2)
                  \/ /\ c.op = "word" /\ c.at % 2 = 1 /\ DataBuf' = DataBuf
                     /\ \E lo, hi \in Octet :
                          calls' = <<ByteCall(c.at, lo), ByteCall(c.at + 1, hi)>> \o rest
<1> DEFINE c == Head(calls)
           rest == Tail(calls)
<1>1. calls # << >> /\ calls \in Seq(Call)
  BY DEF NextCall, FlashInv, Typed
<1>2. c \in Call
  BY <1>1
<1>3. \/ c.op = "byte" /\ EEPROM_WriteDataByte(c.at, c.value, rest)
      \/ c.op = "word" /\ EEPROM_WriteDataWord(c.at, c.value, rest)
  BY DEF NextCall
<1> HIDE DEF c, rest
<1>4. DataBuf \in Mirror
  BY DEF FlashInv, Typed
<1>5. CASE c.op = "byte" /\ EEPROM_WriteDataByte(c.at, c.value, rest)
  <2> DEFINE a == c.at
             buf == [DataBuf EXCEPT ![a] = c.value]
  <2>1. CASE Skip(rest)
    BY <1>1, <1>2, <2>1 DEF Skip, c, rest
  <2>2. ASSUME a \in Addr, NEW ask, Carry(buf, ask, rest)
        PROVE  calls' = rest /\ Off(DataBuf, DataBuf', a \div 2) /\ LastWord(c) = a \div 2
    <3>1. calls' = rest /\ DataBuf' = buf
      BY <2>2 DEF Carry
    <3>2. Off(DataBuf, buf, a \div 2)
      BY <1>4 DEF Off, Mirror
    <3>3. LastWord(c) = a \div 2
      BY <1>5 DEF LastWord
    <3> QED
      BY <3>1, <3>2, <3>3
  <2>3. Skip(rest) \/ (a \in Addr /\ \E ask : Carry(buf, ask, rest))
    BY <1>5 DEF EEPROM_WriteDataByte
  <2> QED
    BY <1>1, <1>2, <2>1, <2>2, <2>3 DEF c, rest
<1>6. CASE c.op = "word" /\ EEPROM_WriteDataWord(c.at, c.value, rest)
  <2> DEFINE a == c.at
             v == c.value
             buf == PutWord(DataBuf, a, v)
             split == <<ByteCall(a, v % 256), ByteCall(a + 1, v \div 256)>> \o rest
  <2>0. v \in HalfWord
    BY <1>2, <1>6 DEF Call
  <2>1. CASE Skip(rest)
    BY <1>1, <1>2, <2>1 DEF Skip, c, rest
  <2>2. ASSUME a \in Addr, a % 2 = 0, NEW ask, Carry(buf, ask, rest)
        PROVE  calls' = rest /\ Off(DataBuf, DataBuf', a \div 2) /\ LastWord(c) = a \div 2
    <3>1. calls' = rest /\ DataBuf' = buf
      BY <2>2 DEF Carry
    <3>2. Off(DataBuf, buf, a \div 2)
      BY <1>4, <2>0, <2>2, PutWordOff
    <3>3. LastWord(c) = (a + 1) \div 2
      BY <1>6 DEF LastWord
    <3>4. (a + 1) \div 2 = a \div 2
      BY <2>2, AddrWord
    <3> QED
      BY <3>1, <3>2, <3>3, <3>4
  <2>3. ASSUME a % 2 = 1, Skip(split)
        PROVE  /\ DataBuf' = DataBuf
               /\ \E lo, hi \in Octet : calls' = <<ByteCall(a, lo), ByteCall(a + 1, hi)>> \o rest
    <3>1. calls' = split /\ DataBuf' = DataBuf
      BY <2>3 DEF Skip
    <3>2. v % 256 \in Octet /\ v \div 256 \in Octet
      BY <2>0, BytesOfWord
    <3> QED
      BY <3>1, <3>2
  <2>4. \/ Skip(rest) \/ (a % 2 = 1 /\ Skip(split))
        \/ (a \in Addr /\ a % 2 = 0 /\ \E ask : Carry(buf, ask, rest))
    BY <1>6 DEF EEPROM_WriteDataWord
  <2> QED
    BY <1>1, <1>2, <1>6, <2>1, <2>2, <2>3, <2>4 DEF c, rest
<1> QED
  BY <1>3, <1>5, <1>6

LEMMA FirstCall ==
    ASSUME NEW s \in Seq(Call), s # << >>
    PROVE  /\ Head(s) = s[1] /\ Tail(s) \in Seq(Call) /\ Len(Tail(s)) = Len(s) - 1
           /\ Len(s) \in Nat /\ Len(s) > 0
           /\ \A j \in 1 .. Len(s) - 1 : Tail(s)[j] = s[j + 1]
<1>1. Len(s) \in Nat /\ Len(s) > 0
  BY EmptySeq
<1> QED
  BY <1>1, HeadTailProperties

\* After a call the rest still ascends, and is about words behind the call's.
LEMMA CallAscends ==
    ASSUME FlashInv, CallsAscend, NextCall
    PROVE  /\ CallsAscend'
           /\ \A i \in DOMAIN Tail(calls) : LastWord(Head(calls)) < FirstWord(Tail(calls)[i])
<1> DEFINE c == Head(calls)
           rest == Tail(calls)
<1>1. calls \in Seq(Call) /\ calls # << >> /\ c \in Call
  BY CallShape
<1>2. /\ c = calls[1] /\ rest \in Seq(Call) /\ Len(rest) = Len(calls) - 1
      /\ Len(calls) \in Nat /\ Len(calls) > 0
      /\ \A j \in 1 .. Len(calls) - 1 : rest[j] = calls[j + 1]
  BY <1>1, FirstCall
<1>3. \/ calls' = rest
      \/ /\ c.op = "word" /\ c.at % 2 = 1
         /\ \E lo, hi \in Octet : calls' = <<ByteCall(c.at, lo), ByteCall(c.at + 1, hi)>> \o rest
  BY CallShape
<1> HIDE DEF c, rest
<1>4. DOMAIN calls = 1 .. Len(calls) /\ DOMAIN rest = 1 .. Len(calls) - 1
  BY <1>1, <1>2
<1>5. \A i, j \in 1 .. Len(calls) : i < j => LastWord(calls[i]) < FirstWord(calls[j])
  BY <1>4 DEF CallsAscend
<1>6. \A i \in 1 .. Len(calls) - 1 : LastWord(c) < FirstWord(rest[i])
  <2> TAKE i \in 1 .. Len(calls) - 1
  <2>1. 1 \in 1 .. Len(calls) /\ i + 1 \in 1 .. Len(calls) /\ 1 < i + 1
    BY <1>2
  <2> QED
    BY <1>2, <1>5, <2>1
<1>7. \A i, j \in 1 .. Len(calls) - 1 : i < j => LastWord(rest[i]) < FirstWord(rest[j])
  <2> TAKE i, j \in 1 .. Len(calls) - 1
  <2>1. i + 1 \in 1 .. Len(calls) /\ j + 1 \in 1 .. Len(calls) /\ (i < j => i + 1 < j + 1)
    BY <1>2
  <2> QED
    BY <1>2, <1>5, <2>1
<1>8. CASE calls' = rest
  BY <1>4, <1>7, <1>8 DEF CallsAscend
<1>9. ASSUME c.op = "word", c.at % 2 = 1, NEW lo \in Octet, NEW hi \in Octet,
             calls' = <<ByteCall(c.at, lo), ByteCall(c.at + 1, hi)>> \o rest
      PROVE  CallsAscend'
  <2> DEFINE b == ByteCall(c.at, lo)
             d == ByteCall(c.at + 1, hi)
             two == <<b, d>>
             N == Len(calls) - 1
  <2>1. c.at \in Nat
    BY <1>1, WordsOfCall DEF c
  <2>2. b \in Call /\ d \in Call
    BY <2>1, CallTyped
  <2>3. LastWord(b) = c.at \div 2 /\ FirstWord(d) = (c.at + 1) \div 2
        /\ LastWord(d) = (c.at + 1) \div 2 /\ LastWord(c) = (c.at + 1) \div 2
    BY <1>9 DEF ByteCall, FirstWord, LastWord
  <2>4. c.at \div 2 < (c.at + 1) \div 2 /\ c.at \div 2 \in Nat /\ (c.at + 1) \div 2 \in Nat
    <3> DEFINE x == c.at
    <3>1. x \in Nat /\ x % 2 = 1
      BY <1>9, <2>1
    <3> HIDE DEF x
    <3>2. x \div 2 < (x + 1) \div 2 /\ x \div 2 \in Nat /\ (x + 1) \div 2 \in Nat
      BY <3>1
    <3> QED
      BY <3>2 DEF x
  <2> HIDE DEF b, d
  <2>5. /\ two \in Seq(Call) /\ Len(two) = 2 /\ two[1] = b /\ two[2] = d
    BY <2>2
  <2> HIDE DEF two
  <2>6. calls' = two \o rest
    BY <1>9 DEF two, b, d
  <2>7. /\ two \o rest \in Seq(Call) /\ Len(two \o rest) = Len(two) + Len(rest)
        /\ \A i \in 1 .. Len(two) + Len(rest) :
              (two \o rest)[i] = IF i <= Len(two) THEN two[i] ELSE rest[i - Len(two)]
    BY <1>2, <2>5, ConcatProperties
  <2>8. /\ calls' \in Seq(Call) /\ Len(calls') = 2 + N /\ N \in Nat
        /\ calls'[1] = b /\ calls'[2] = d
        /\ \A i \in 3 .. 2 + N : calls'[i] = rest[i - 2]
    BY <1>2, <2>5, <2>6, <2>7
  <2>9. ASSUME NEW i \in 1 .. 2 + N, NEW j \in 1 .. 2 + N, i < j
        PROVE  LastWord(calls'[i]) < FirstWord(calls'[j])
    <3>0. \A k \in 3 .. 2 + N : calls'[k] = rest[k - 2] /\ k - 2 \in 1 .. Len(calls) - 1
      BY <2>8
    <3>1. \A k \in 1 .. Len(calls) - 1 : FirstWord(rest[k]) \in Nat
      BY <1>2, <1>4, WordsOfCall
    <3>2. CASE i = 1 /\ j = 2
      BY <2>3, <2>4, <2>8, <3>2
    <3>3. CASE i = 1 /\ j # 2
      <4>1. j \in 3 .. 2 + N
        BY <2>8, <2>9, <3>3
      <4> DEFINE y == FirstWord(rest[j - 2])
                 u == c.at \div 2
                 z == (c.at + 1) \div 2
      <4>2. z < y /\ y \in Nat
        BY <1>6, <2>3, <3>0, <3>1, <4>1
      <4>3. u < z /\ u \in Nat /\ z \in Nat
        BY <2>4
      <4>4. LastWord(calls'[i]) = u /\ FirstWord(calls'[j]) = y
        BY <2>3, <2>8, <3>0, <3>3, <4>1
      <4> HIDE DEF y, u, z
      <4> QED
        BY <4>2, <4>3, <4>4
    <3>4. CASE i = 2
      <4>1. j \in 3 .. 2 + N
        BY <2>8, <2>9, <3>4
      <4> QED
        BY <1>6, <2>3, <2>8, <3>0, <3>4, <4>1
    <3>5. CASE i # 1 /\ i # 2
      <4>1. i \in 3 .. 2 + N /\ j \in 3 .. 2 + N /\ i - 2 < j - 2
        BY <2>8, <2>9, <3>5
      <4> QED
        BY <1>7, <3>0, <4>1
    <3> QED
      BY <3>2, <3>3, <3>4, <3>5
  <2>10. DOMAIN calls' = 1 .. 2 + N
    BY <2>8
  <2> QED
    BY <2>9, <2>10 DEF CallsAscend
<1> QED
  BY <1>3, <1>4, <1>6, <1>8, <1>9 DEF c, rest

LEMMA OneCallAscends ==
    ASSUME NEW c
    PROVE  \A i, j \in DOMAIN <<c>> : i < j => LastWord(<<c>>[i]) < FirstWord(<<c>>[j])
<1>1. DOMAIN <<c>> = {1}
  OBVIOUS
<1> QED
  BY <1>1

LEMMA AscendKeeps ==
    ASSUME FlashInv, CallsAscend, [Next]_vars
    PROVE  CallsAscend'
<1>1. ASSUME calls' = calls
      PROVE  CallsAscend'
  BY <1>1 DEF CallsAscend
<1>2. CASE EEPROM_Init \/ EEPROM_Erase \/ FlashStep \/ UNCHANGED vars
  BY <1>1, <1>2 DEF EEPROM_Init, EEPROM_Erase, FlashStep, vars, ram
<1>3. ASSUME NEW a \in Addr, NEW data \in Blocks, eeprom_update_block(a, data)
      PROVE  CallsAscend'
  <2>1. PICK n \in 1 .. MaxBlock : data \in [1 .. n -> Byte]
    BY DEF Blocks
  <2>2. n \in Nat /\ n > 0 /\ a \in Nat
    BY FlashAssumption, AddrWord
  <2> DEFINE new == eeprom_write_block(a, data)
  <2>3. \A i, j \in DOMAIN new : i < j => LastWord(new[i]) < FirstWord(new[j])
    BY <2>1, <2>2, BlockAscends
  <2>4. calls' = new
    BY <1>3 DEF eeprom_update_block, Enter
  <2> HIDE DEF new
  <2> QED
    BY <2>3, <2>4 DEF CallsAscend
<1>4. ASSUME NEW a \in Addr, NEW v, WriteWordUnaligned(a, v)
      PROVE  CallsAscend'
  <2>1. calls' = <<WordCall(a, v)>>
    BY <1>4 DEF WriteWordUnaligned, Enter
  <2> QED
    BY <2>1, OneCallAscends DEF CallsAscend
<1>5. CASE NextCall
  BY <1>5, CallAscends
<1>6. CASE PowerLoss
  <2>1. calls' = << >>
    BY <1>6 DEF PowerLoss
  <2> QED
    BY <2>1 DEF CallsAscend
<1> QED
  BY <1>2, <1>3, <1>4, <1>5, <1>6 DEF Next

\* A flash operation makes bytes of the open word new and touches no other, or
\* it wipes.
LEMMA StepInOrder ==
    ASSUME FlashInv, SavedInOrder, FlashStep
    PROVE  SavedInOrder'
<1>1. FlashInv' /\ MemoryStep
  BY FlashStepKeeps
<1>2. Typed /\ Typed'
  BY <1>1 DEF FlashInv
<1>3. /\ Kept <=> ~(wiping \/ damaged \/ stale)
      /\ Kept' <=> ~(wiping' \/ damaged' \/ stale')
  BY <1>2 DEF Kept, Typed
<1>4. calls' = calls /\ on /\ on' = on
  BY DEF FlashStep
<1>5. CASE Persisted
  <2>1. PICK w \in 0 .. DENSITY :
           /\ \A a \in Addr : a \div 2 + 1 # w => boot.buf[a] = DataBuf[a]
           /\ \A i \in DOMAIN calls : w <= FirstWord(calls[i])
    BY <1>3, <1>4, <1>5 DEF SavedInOrder, Persisted
  <2>2. \A a \in Addr : a \div 2 + 1 # w => boot'.buf[a] = DataBuf'[a]
    BY <1>5, <2>1 DEF Persisted
  <2> QED
    BY <1>4, <2>1, <2>2 DEF SavedInOrder
<1>6. CASE Wiped
  BY <1>3, <1>6 DEF Wiped, SavedInOrder
<1>7. CASE WipeEnds
  <2>1. calls' \in Seq(Call) /\ boot'.buf = DataBuf'
    BY <1>2, <1>7 DEF WipeEnds, Typed
  <2>2. \A i \in DOMAIN calls' : 0 <= FirstWord(calls'[i])
    BY <2>1, WordsOfCall
  <2>3. 0 \in 0 .. DENSITY
    BY Sizes
  <2> QED
    BY <2>1, <2>2, <2>3 DEF SavedInOrder
<1> QED
  BY <1>1, <1>5, <1>6, <1>7 DEF MemoryStep

\* A call finds the memory and the mirror the same, and opens one word.
LEMMA CallInOrder ==
    ASSUME FlashInv, CallsAscend, NextCall
    PROVE  SavedInOrder'
<1>1. /\ on /\ boot' = boot /\ on' = on
      /\ wiping' = wiping /\ damaged' = damaged /\ stale' = stale
      /\ Kept => boot.buf = DataBuf
  BY CallWrites
<1> SUFFICES ASSUME ~(wiping \/ damaged \/ stale)
             PROVE  \E w \in 0 .. DENSITY :
                      /\ \A a \in Addr : a \div 2 + 1 # w => boot.buf[a] = DataBuf'[a]
                      /\ \A i \in DOMAIN calls' : w <= FirstWord(calls'[i])
  BY <1>1 DEF SavedInOrder
<1>2. boot.buf = DataBuf
  BY <1>1 DEF Kept
<1>3. calls' \in Seq(Call)
  BY NextCallKeeps DEF FlashInv, Typed
<1>4. CASE DataBuf' = DataBuf
  <2>1. \A i \in DOMAIN calls' : 0 <= FirstWord(calls'[i])
    BY <1>3, WordsOfCall
  <2>2. 0 \in 0 .. DENSITY
    BY Sizes
  <2> QED
    BY <1>2, <1>4, <2>1, <2>2
<1>5. CASE DataBuf' # DataBuf
  <2> DEFINE c == Head(calls)
             rest == Tail(calls)
             u == c.at \div 2
  <2>1. /\ calls' = rest /\ c.at \in Addr /\ LastWord(c) = u
        /\ Off(DataBuf, DataBuf', u)
    BY <1>5, CallShape
  <2>2. \A i \in DOMAIN rest : LastWord(c) < FirstWord(rest[i])
    BY CallAscends
  <2>3. u \in 0 .. DENSITY - 1
    BY <2>1, AddrWord
  <2>4. \A i \in DOMAIN calls' : FirstWord(calls'[i]) \in Nat
    BY <1>3, WordsOfCall
  <2> HIDE DEF u, c, rest
  <2>5. \A i \in DOMAIN calls' : u + 1 <= FirstWord(calls'[i])
    BY <2>1, <2>2, <2>3, <2>4
  <2>6. u + 1 \in 0 .. DENSITY
    BY <2>3, Sizes
  <2>7. ASSUME NEW a \in Addr, a \div 2 + 1 # u + 1
        PROVE  boot.buf[a] = DataBuf'[a]
    <3>1. a \div 2 # u
      BY <2>7
    <3> QED
      BY <1>2, <2>1, <3>1 DEF Off
  <2> QED
    BY <2>5, <2>6, <2>7
<1> QED
  BY <1>4, <1>5

LEMMA OrderKeeps == OrderInv /\ [Next]_vars => OrderInv'
<1> SUFFICES ASSUME FlashInv, CallsAscend, SavedInOrder, [Next]_vars
             PROVE  OrderInv'
  BY DEF OrderInv
<1>1. FlashInv' /\ CallsAscend'
  BY NextKeeps, AscendKeeps
<1> SUFFICES SavedInOrder'
  BY <1>1 DEF OrderInv
<1>2. calls' \in Seq(Call)
  BY <1>1 DEF FlashInv, Typed
<1>3. ASSUME boot'.buf = DataBuf'
      PROVE  SavedInOrder'
  <2>1. \A i \in DOMAIN calls' : 0 <= FirstWord(calls'[i])
    BY <1>2, WordsOfCall
  <2>2. 0 \in 0 .. DENSITY
    BY Sizes
  <2> QED
    BY <1>3, <2>1, <2>2 DEF SavedInOrder
<1>4. ASSUME boot' = boot, DataBuf' = DataBuf, on' = on, calls' = calls,
             wiping' = wiping, damaged' = damaged, stale' = stale
      PROVE  SavedInOrder'
  BY <1>4 DEF SavedInOrder
<1>5. CASE EEPROM_Init
  BY <1>3, <1>5 DEF EEPROM_Init, pages
<1>6. ASSUME NEW new, Enter(new)
      PROVE  SavedInOrder'
  <2>1. /\ on /\ todo = << >> /\ boot' = boot /\ DataBuf' = DataBuf
        /\ wiping' = wiping /\ damaged' = damaged /\ stale' = stale
    BY <1>6 DEF Enter, Free, pages
  <2>2. Kept => boot.buf = DataBuf
    BY <2>1, AtRest DEF PlanNone, Synced, FlashInv, Typed
  <2>3. CASE Kept
    BY <1>3, <2>1, <2>2, <2>3
  <2>4. CASE ~Kept
    BY <2>1, <2>4 DEF Kept, SavedInOrder
  <2> QED
    BY <2>3, <2>4
<1>7. CASE EEPROM_Erase
  BY <1>4, <1>7 DEF EEPROM_Erase, Free, pages, history
<1>8. CASE NextCall
  BY <1>8, CallInOrder
<1>9. CASE FlashStep
  BY <1>9, StepInOrder
<1>10. CASE PowerLoss
  BY <1>10 DEF PowerLoss, SavedInOrder
<1>11. CASE UNCHANGED vars
  BY <1>4, <1>11 DEF vars, pages, ram, history
<1> QED
  BY <1>5, <1>6, <1>7, <1>8, <1>9, <1>10, <1>11
     DEF Next, eeprom_update_block, WriteWordUnaligned

\* eeprom_legacy_emulated_flash.c:601-629: for any sizes and any block, a block is
\* saved in the order of its addresses.  Power that fails, but in a wipe, leaves
\* new bytes, then at most one word that is old, new or half of each, then what
\* was there before.
THEOREM AlwaysInOrder == Spec => []SavedInOrder
<1>1. Init => OrderInv
  <2> SUFFICES ASSUME Init
               PROVE  OrderInv
    OBVIOUS
  <2>1. calls = << >> /\ on = FALSE
    BY DEF Init
  <2>2. CallsAscend /\ SavedInOrder
    BY <2>1 DEF CallsAscend, SavedInOrder
  <2> QED
    BY <2>2, InitHolds DEF OrderInv
<1>2. OrderInv /\ [Next]_vars => OrderInv'
  BY OrderKeeps
<1>3. OrderInv => SavedInOrder
  BY DEF OrderInv
<1> QED
  BY <1>1, <1>2, <1>3, PTL DEF Spec

\* eeprom_legacy_emulated_flash.c:29-30: but for an older entry of the log that
\* covers a word of the image, whatever was written is what a restart finds,
\* unless power failed in a wipe.
THEOREM SurvivesUnlessStale == Spec => [](~stale => WritesSurvive)
<1>1. FlashInv => (~stale => WritesSurvive)
  <2> SUFFICES ASSUME FlashInv, ~stale, Free, ~damaged
               PROVE  boot.buf = DataBuf
    BY DEF WritesSurvive
  <2>1. PlanNone
    BY AtRest DEF Free
  <2>2. Synced(flash, DataBuf) /\ boot = Replay(flash)
    BY <2>1 DEF PlanNone, Kept, FlashInv, Typed
  <2> QED
    BY <2>2 DEF Synced
<1> QED
  BY <1>1, Invariance, PTL
=============================================================================
