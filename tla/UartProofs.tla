------------------------------ MODULE UartProofs ------------------------------
(***************************************************************************)
(* Proofs about the two buffers beside the UART: RXDBuf, out of which      *)
(* frames are read (RxFrame), for any size of it, any frames that fit, any *)
(* stray bytes and any number of them; and the ring of rf_queue.c, where   *)
(* reports wait to be sent (RfQueue), for any size and any reports.        *)
(***************************************************************************)
EXTENDS RxFrame, RfQueue, SequenceTheorems, WellFoundedInduction, TLAPS

Starts == {"intact", "ack", "damaged", "stray", "rest"}

Wire == Byte \X Starts

\* The inductive invariant: what is on the line and in the buffer are bytes.
RxInv ==
    /\ TypeOK
    /\ wire \in Seq(Wire)
    /\ ReadsInside

-----------------------------------------------------------------------------
(* Numbers *)

LEMMA LeastNatural ==
    ASSUME NEW S \in SUBSET Nat, S # {}
    PROVE  \E m \in S : \A k \in S : m <= k
<1> DEFINE R == OpToRel(<, Nat)
<1>1. IsWellFoundedOn(R, Nat)
  BY NatLessThanWellFounded
<1>2. \E m \in S : \A k \in S : ~(<<k, m>> \in R)
  <2> HIDE DEF R
  <2> QED
    BY <1>1, WFMin
<1>3. PICK m \in S : \A k \in S : ~(<<k, m>> \in R)
  BY <1>2
<1>4. \A k \in S : ~(k < m)
  BY <1>3 DEF OpToRel
<1> QED
  BY <1>4

LEMMA UpwardInduction ==
    ASSUME NEW S, NEW a \in Nat, NEW b \in Nat, a \in S,
           \A n \in a .. b - 1 : n \in S => n + 1 \in S
    PROVE  a .. b \subseteq S
<1> SUFFICES ASSUME NEW x \in a .. b, x \notin S
             PROVE  FALSE
  OBVIOUS
<1> DEFINE T == {n \in a .. b : n \notin S}
<1>1. T \in SUBSET Nat /\ T # {}
  OBVIOUS
<1>2. PICK n \in T : \A m \in T : n <= m
  BY <1>1, LeastNatural
<1>3. n \in Nat /\ n \in a .. b /\ n # a /\ n \notin S
  BY <1>2
<1>4. n - 1 \in a .. b - 1 /\ n - 1 + 1 = n
  BY <1>3
<1>5. n - 1 \in S
  BY <1>2, <1>3, <1>4
<1> QED
  BY <1>3, <1>4, <1>5

\* Adding the same byte keeps two different bytes different.
LEMMA AddedByte ==
    ASSUME NEW x \in Byte, NEW y \in Byte, NEW b \in Byte
    PROVE  /\ (x + b) % 256 \in Byte
           /\ x # y => (x + b) % 256 # (y + b) % 256
           /\ x # y => (b + x) % 256 # (b + y) % 256
<1> DEFINE Mod(z) == IF z < 256 THEN z ELSE z - 256
<1>1. \A z \in 0 .. 510 : z % 256 = Mod(z)
  BY SMT
<1>2. x + b \in 0 .. 510 /\ y + b \in 0 .. 510 /\ b + x = x + b /\ b + y = y + b
  BY SMT DEF Byte
<1>3. (x + b) % 256 = Mod(x + b) /\ (y + b) % 256 = Mod(y + b)
  BY <1>1, <1>2
<1>4. Mod(x + b) \in Byte /\ (x # y => Mod(x + b) # Mod(y + b))
  BY SMT DEF Byte
<1> QED
  BY <1>2, <1>3, <1>4

-----------------------------------------------------------------------------
(* The checksum *)

\* The function in Sums exists and does as it says.
LEMMA SumsSteps ==
    ASSUME NEW bytes, Len(bytes) \in Nat
    PROVE  /\ Sums(bytes)[0] = 0
           /\ \A i \in 1 .. Len(bytes) : Sums(bytes)[i] = (Sums(bytes)[i - 1] + bytes[i]) % 256
<1> DEFINE step(y, i) == (y + bytes[i]) % 256
           IsSum(r, n) == r = [i \in 0 .. n |-> IF i = 0 THEN 0 ELSE step(r[i - 1], i)]
           S == {n \in Nat : \E r : IsSum(r, n)}
           N == Len(bytes)
<1>5. Sums(bytes) = CHOOSE r : IsSum(r, N)
  BY DEF Sums
<1> HIDE DEF step
<1>1. 0 \in S
  <2> DEFINE r == [i \in 0 .. 0 |-> 0]
  <2>1. IsSum(r, 0)
    OBVIOUS
  <2> HIDE DEF r, IsSum
  <2> QED
    BY <2>1
<1>2. ASSUME NEW n \in 0 .. N - 1, n \in S
      PROVE  n + 1 \in S
  <2>0. n \in Nat
    OBVIOUS
  <2>1. PICK r : IsSum(r, n)
    BY <1>2
  <2> DEFINE q == [i \in 0 .. n + 1 |-> IF i = n + 1 THEN step(r[n], i) ELSE r[i]]
  <2>2. ASSUME NEW i \in 0 .. n + 1
        PROVE  q[i] = IF i = 0 THEN 0 ELSE step(q[i - 1], i)
    <3>1. CASE i = n + 1
      <4>1. i # 0 /\ i - 1 = n /\ n \in 0 .. n + 1 /\ n # n + 1
        BY <2>0, <3>1
      <4>2. q[i] = step(r[n], i) /\ q[n] = r[n]
        BY <3>1, <4>1
      <4> HIDE DEF q
      <4> QED
        BY <4>1, <4>2
    <3>2. CASE i # n + 1 /\ i # 0
      <4>1. i \in 0 .. n /\ i - 1 \in 0 .. n + 1 /\ i - 1 # n + 1
        BY <2>0, <3>2
      <4>2. r[i] = step(r[i - 1], i)
        BY <2>1, <3>2, <4>1
      <4>3. q[i] = r[i] /\ q[i - 1] = r[i - 1]
        BY <3>2, <4>1
      <4> HIDE DEF q
      <4> QED
        BY <3>2, <4>2, <4>3
    <3>3. CASE i = 0
      <4>1. i # n + 1 /\ i \in 0 .. n
        BY <2>0, <3>3
      <4>2. r[i] = 0
        BY <2>1, <3>3, <4>1
      <4> QED
        BY <3>3, <4>1, <4>2
    <3> QED
      BY <3>1, <3>2, <3>3
  <2>3. q = [i \in 0 .. n + 1 |-> q[i]]
    OBVIOUS
  <2> HIDE DEF q
  <2>4. IsSum(q, n + 1)
    BY <2>2, <2>3
  <2> HIDE DEF IsSum
  <2> QED
    BY <2>0, <2>4
<1>3. N \in S
  <2> HIDE DEF S
  <2>1. 0 .. N \subseteq S
    BY <1>1, <1>2, UpwardInduction
  <2> QED
    BY <2>1
<1>4. \E r : IsSum(r, N)
  BY <1>3
<1>6. IsSum(Sums(bytes), N)
  <2> HIDE DEF IsSum
  <2> QED
    BY <1>4, <1>5
<1> DEFINE sum == Sums(bytes)
<1>7. /\ sum[0] = 0
      /\ \A i \in 1 .. N : sum[i] = step(sum[i - 1], i)
  <2> HIDE DEF sum
  <2>1. 0 \in 0 .. N /\ \A i \in 1 .. N : i \in 0 .. N /\ i # 0
    OBVIOUS
  <2>2. IsSum(sum, N)
    BY <1>6 DEF sum
  <2> QED
    BY <2>1, <2>2
<1> QED
  BY <1>7 DEF step

LEMMA SumsTyped ==
    ASSUME NEW bytes \in Seq(Byte)
    PROVE  \A i \in 0 .. Len(bytes) : Sums(bytes)[i] \in Byte
<1> DEFINE sum == Sums(bytes)
           N == Len(bytes)
           S == {n \in Nat : sum[n] \in Byte}
<1>0. N \in Nat
  OBVIOUS
<1>1. sum[0] = 0 /\ \A i \in 1 .. N : sum[i] = (sum[i - 1] + bytes[i]) % 256
  BY <1>0, SumsSteps
<1> HIDE DEF sum
<1>2. 0 \in S
  BY <1>1 DEF Byte
<1>3. ASSUME NEW n \in 0 .. N - 1, n \in S
      PROVE  n + 1 \in S
  <2>1. n + 1 \in 1 .. N /\ n + 1 \in Nat /\ (n + 1) - 1 = n
    BY <1>0
  <2>2. bytes[n + 1] \in Byte
    BY <2>1
  <2>3. sum[n + 1] = (sum[n] + bytes[n + 1]) % 256
    BY <1>1, <2>1
  <2> QED
    BY <1>3, <2>1, <2>2, <2>3, AddedByte
<1>4. 0 .. N \subseteq S
  <2> HIDE DEF S, N
  <2> QED
    BY <1>0, <1>2, <1>3, UpwardInduction
<1> QED
  BY <1>4 DEF sum

\* A checksum is a byte, and shows that a single byte is not what it was.
LEMMA CheckSumTyped ==
    ASSUME NEW bytes \in Seq(Byte)
    PROVE  CheckSum(bytes) \in Byte
<1>1. Len(bytes) \in 0 .. Len(bytes)
  OBVIOUS
<1> QED
  BY <1>1, SumsTyped DEF CheckSum

LEMMA CheckSumTells ==
    ASSUME NEW b \in Seq(Byte), NEW c \in Seq(Byte), Len(b) = Len(c),
           NEW j \in 1 .. Len(b), b[j] # c[j],
           \A i \in 1 .. Len(b) : i # j => b[i] = c[i]
    PROVE  CheckSum(b) # CheckSum(c)
<1> DEFINE sb == Sums(b)
           sc == Sums(c)
           N == Len(b)
           S == {n \in Nat : IF n < j THEN sb[n] = sc[n] ELSE sb[n] # sc[n]}
<1>0. N \in Nat /\ j \in Nat
  OBVIOUS
<1>1. /\ sb[0] = 0 /\ \A i \in 1 .. N : sb[i] = (sb[i - 1] + b[i]) % 256
      /\ sc[0] = 0 /\ \A i \in 1 .. N : sc[i] = (sc[i - 1] + c[i]) % 256
  BY <1>0, SumsSteps
<1>2. \A i \in 0 .. N : sb[i] \in Byte /\ sc[i] \in Byte
  BY SumsTyped
<1>3. \A i \in 1 .. N : b[i] \in Byte /\ c[i] \in Byte
  OBVIOUS
<1>4. CheckSum(b) = sb[N] /\ CheckSum(c) = sc[N]
  BY DEF CheckSum
<1>9. \A x, y, u, v \in Byte : (x = y <=> u # v) => (x + u) % 256 # (y + v) % 256
  <2> TAKE x, y, u, v \in Byte
  <2>1. CASE x = y /\ u # v
    BY <2>1, AddedByte
  <2>2. CASE x # y /\ u = v
    BY <2>2, AddedByte
  <2> QED
    BY <2>1, <2>2
<1> HIDE DEF sb, sc
<1>5. 0 \in S
  BY <1>1
<1>6. ASSUME NEW n \in 0 .. N - 1, n \in S
      PROVE  n + 1 \in S
  <2>1. n + 1 \in 1 .. N /\ n + 1 \in Nat /\ (n + 1) - 1 = n /\ n \in 0 .. N /\ n \in Nat
    BY <1>0
  <2> DEFINE m == n + 1
  <2>2. /\ sb[m] = (sb[n] + b[m]) % 256 /\ sc[m] = (sc[n] + c[m]) % 256
        /\ sb[n] \in Byte /\ sc[n] \in Byte /\ b[m] \in Byte /\ c[m] \in Byte
    BY <1>1, <1>2, <1>3, <2>1
  <2> DEFINE x == sb[n]
             y == sc[n]
             u == b[m]
             v == c[m]
  <2>3. (x = y <=> u # v) => sb[m] # sc[m]
    <3> HIDE DEF m, x, y, u, v
    <3>1. x \in Byte /\ y \in Byte /\ u \in Byte /\ v \in Byte
      BY <2>2 DEF x, y, u, v
    <3>2. (x = y <=> u # v) => (x + u) % 256 # (y + v) % 256
      BY <1>9, <3>1
    <3> QED
      BY <2>2, <3>2 DEF x, y, u, v
  <2>4. CASE m < j
    <3>1. n < j /\ m # j
      BY <1>0, <2>1, <2>4
    <3>2. sb[n] = sc[n] /\ b[m] = c[m]
      BY <1>6, <2>1, <3>1
    <3> HIDE DEF m
    <3>3. sb[m] = sc[m]
      BY <2>2, <3>2
    <3> QED
      BY <2>1, <2>4, <3>3 DEF m
  <2>5. CASE m = j
    <3>1. n < j /\ ~(m < j)
      BY <1>0, <2>1, <2>5
    <3>2. sb[n] = sc[n] /\ b[m] # c[m]
      BY <1>6, <2>1, <2>5, <3>1
    <3> QED
      BY <2>1, <2>3, <3>1, <3>2
  <2>6. CASE m > j
    <3>1. ~(n < j) /\ m # j /\ ~(m < j)
      BY <1>0, <2>1, <2>6
    <3>2. sb[n] # sc[n] /\ b[m] = c[m]
      BY <1>6, <2>1, <3>1
    <3> QED
      BY <2>1, <2>3, <3>1, <3>2
  <2> QED
    BY <1>0, <2>1, <2>4, <2>5, <2>6
<1>7. 0 .. N \subseteq S
  <2> HIDE DEF S, N
  <2> QED
    BY <1>0, <1>5, <1>6, UpwardInduction
<1>8. sb[N] # sc[N]
  <2>1. N \in S /\ ~(N < j)
    BY <1>0, <1>7
  <2> QED
    BY <2>1
<1> QED
  BY <1>4, <1>8

-----------------------------------------------------------------------------
(* Frames, and what is made of one in the buffer *)

LEMMA CommandsAreBytes == /\ Commands \subseteq Byte
                          /\ \A cmd : Taken(cmd) \in 0 .. UART_MAX_LEN - 5
<1>1. Commands \subseteq Byte
  BY DEF Commands, WithPayload, Byte, CMD_RF_STS_SYSC, CMD_READ_DATA, CMD_NEW_ADV, CMD_HAND,
         CMD_24G_SUSPEND
<1>2. \A cmd : Taken(cmd) \in 0 .. UART_MAX_LEN - 5
  BY RxAssumption DEF Taken
<1> QED
  BY <1>1, <1>2

\* The payload that starts behind the first four bytes of s.
Carries(s, data) ==
    /\ s[4] = Len(data)
    /\ \A i \in 1 .. Len(data) : s[4 + i] = data[i]

LEMMA FrameFields ==
    ASSUME NEW m \in Messages
    PROVE  LET f == Frame(m[1], m[2])
               n == Len(m[2])
           IN  /\ m[1] \in Commands /\ m[2] \in Seq(Byte) /\ n \in Taken(m[1]) .. UART_MAX_LEN - 5
               /\ n \in Nat
               /\ f \in Seq(Byte) /\ Len(f) = 5 + n
               /\ f[1] = UART_HEAD /\ f[2] = m[1] /\ f[3] = 0
               /\ Carries(f, m[2])
               /\ f[5 + n] = CheckSum(m[2])
<1> DEFINE data == m[2]
           n == Len(data)
           c == CheckSum(data)
           h == <<UART_HEAD, m[1], 0, n>>
           f == (h \o data) \o <<c>>
<1>1. m[1] \in Commands /\ data \in Seq(Byte) /\ n \in Taken(m[1]) .. UART_MAX_LEN - 5
  BY RxAssumption
<1>2. n \in Nat /\ n \in Byte /\ c \in Byte
  <2>1. n \in Nat /\ n <= UART_MAX_LEN - 5
    BY <1>1, CommandsAreBytes
  <2>2. c \in Byte
    BY <1>1, CheckSumTyped
  <2> HIDE DEF n, c
  <2> QED
    BY <2>1, <2>2, RxAssumption, SMT DEF Byte
<1>3. h \in Seq(Byte) /\ Len(h) = 4 /\ h[1] = UART_HEAD /\ h[2] = m[1] /\ h[3] = 0 /\ h[4] = n
  <2>1. UART_HEAD \in Byte /\ 0 \in Byte
    BY DEF UART_HEAD, Byte
  <2>2. m[1] \in Byte
    BY <1>1, CommandsAreBytes
  <2> HIDE DEF n
  <2> QED
    BY <1>2, <2>1, <2>2
<1>4. <<c>> \in Seq(Byte) /\ Len(<<c>>) = 1 /\ <<c>>[1] = c
  <2> HIDE DEF c
  <2> QED
    BY <1>2
<1> HIDE DEF data, c, h
<1>5. /\ h \o data \in Seq(Byte) /\ Len(h \o data) = 4 + n
      /\ \A i \in 1 .. 4 + n : (h \o data)[i] = IF i <= 4 THEN h[i] ELSE data[i - 4]
  <2>1. /\ h \o data \in Seq(Byte) /\ Len(h \o data) = Len(h) + Len(data)
        /\ \A i \in 1 .. Len(h) + Len(data) :
              (h \o data)[i] = IF i <= Len(h) THEN h[i] ELSE data[i - Len(h)]
    BY <1>1, <1>3, ConcatProperties
  <2> QED
    BY <1>3, <2>1
<1>6. /\ f \in Seq(Byte) /\ Len(f) = 5 + n
      /\ \A i \in 1 .. 5 + n : f[i] = IF i <= 4 + n THEN (h \o data)[i] ELSE <<c>>[i - (4 + n)]
  BY <1>2, <1>4, <1>5, ConcatProperties
<1>7. \A i \in 1 .. 4 : f[i] = h[i]
  BY <1>2, <1>5, <1>6
<1>8. \A i \in 1 .. n : f[4 + i] = data[i]
  <2> TAKE i \in 1 .. n
  <2>1. 4 + i \in 1 .. 4 + n /\ 4 + i \in 1 .. 5 + n /\ ~(4 + i <= 4) /\ (4 + i) - 4 = i /\ 4 + i <= 4 + n
    BY <1>2
  <2> QED
    BY <1>5, <1>6, <2>1
<1>9. f[5 + n] = c
  <2>1. 5 + n \in 1 .. 5 + n /\ ~(5 + n <= 4 + n) /\ (5 + n) - (4 + n) = 1
    BY <1>2
  <2> QED
    BY <1>4, <1>6, <2>1
<1>10. f = Frame(m[1], m[2])
  BY DEF Frame, h, data, c
<1>11. /\ f[1] = UART_HEAD /\ f[2] = m[1] /\ f[3] = 0 /\ f[4] = n
  <2> HIDE DEF f, n
  <2>1. 1 \in 1 .. 4 /\ 2 \in 1 .. 4 /\ 3 \in 1 .. 4 /\ 4 \in 1 .. 4
    OBVIOUS
  <2> QED
    BY <1>3, <1>7, <2>1
<1> HIDE DEF f
<1>12. Carries(f, data)
  BY <1>8, <1>11 DEF Carries
<1> QED
  BY <1>1, <1>2, <1>6, <1>9, <1>10, <1>11, <1>12 DEF data, c

Buffers == [0 .. UART_MAX_LEN - 1 -> Byte]

LEMMA PayloadTyped ==
    ASSUME NEW buf \in Buffers, NEW n \in 0 .. UART_MAX_LEN - 5
    PROVE  /\ Payload(buf, n) \in Seq(Byte) /\ Len(Payload(buf, n)) = n
           /\ \A i \in 1 .. n : Payload(buf, n)[i] = buf[3 + i]
<1>1. UART_MAX_LEN \in Nat /\ n \in Nat
  BY RxAssumption
<1>2. \A i \in 1 .. n : At(buf, 3 + i) = buf[3 + i] /\ buf[3 + i] \in Byte
  BY <1>1 DEF At, Buffers
<1>3. Payload(buf, n) \in [1 .. n -> Byte]
  BY <1>2 DEF Payload
<1>4. Payload(buf, n) \in Seq(Byte)
  BY <1>1, <1>3, SeqDef
<1>5. Len(Payload(buf, n)) = n
  BY <1>1, <1>3, <1>4, LenProperties
<1> QED
  BY <1>2, <1>4, <1>5 DEF Payload

\* A buffer with a whole frame in it, but for the payload and the checksum: what
\* is made of it depends on these.
LEMMA WholeFrame ==
    ASSUME NEW buf \in Buffers, NEW len \in Nat, NEW cmd \in Commands,
           NEW n \in 0 .. UART_MAX_LEN - 5, Taken(cmd) <= n,
           buf[1] = cmd, buf[3] = n, len >= 5 + n
    PROVE  LET r == rf_protocol_receive(buf, len)
               good == CheckSum(Payload(buf, n)) = buf[4 + n]
           IN  /\ r.cmd = IF good THEN cmd ELSE 0
               /\ good => r.data = Payload(buf, Taken(cmd))
<1>1. UART_MAX_LEN \in Nat /\ n \in Nat
  BY RxAssumption
<1>2. ~LengthBad(n) /\ len > 4
  BY <1>1 DEF LengthBad
<1>3. At(buf, 4 + n) = buf[4 + n]
  BY <1>1 DEF At
<1> QED
  BY <1>2, <1>3 DEF rf_protocol_receive, SumGood

LEMMA ReceiveTyped ==
    ASSUME NEW buf \in Buffers, NEW len \in Nat
    PROVE  /\ rf_protocol_receive(buf, len).cmd \in {0} \cup Commands
           /\ rf_protocol_receive(buf, len).reach < UART_MAX_LEN
<1>1. UART_MAX_LEN \in Nat /\ UART_MAX_LEN >= 8
  BY RxAssumption
<1>2. buf[3] \in Nat
  <2>1. 3 \in 0 .. UART_MAX_LEN - 1
    BY <1>1
  <2>2. buf[3] \in Byte
    BY <2>1 DEF Buffers
  <2> QED
    BY <2>2, SMT DEF Byte
<1>3. \A cmd : Taken(cmd) \in Nat /\ Taken(cmd) <= UART_MAX_LEN - 5
  BY <1>1, CommandsAreBytes
<1> QED
  BY <1>1, <1>2, <1>3 DEF rf_protocol_receive, LengthBad

-----------------------------------------------------------------------------
(* A turn of uart_receive_pro *)

LEMMA FromHeadTyped ==
    ASSUME wire \in Seq(Wire), NEW n \in 1 .. Len(wire)
    PROVE  FromHead(n) \in Seq(Wire)
<1> DEFINE heads == {i \in 1 .. n : wire[i][1] = UART_HEAD}
           first == CHOOSE i \in heads : \A j \in heads : i <= j
<1>1. CASE heads = {}
  BY <1>1 DEF FromHead
<1>2. CASE heads # {}
  <2>1. heads \in SUBSET Nat
    OBVIOUS
  <2>2. first \in heads
    <3> HIDE DEF heads
    <3> QED
      BY <1>2, <2>1, LeastNatural
  <2>3. first \in Nat /\ n \in Nat /\ \A i \in first .. n : wire[i] \in Wire
    <3>1. first \in 1 .. n /\ Len(wire) \in Nat
      BY <2>2
    <3> HIDE DEF first
    <3> QED
      BY <3>1
  <2>4. FromHead(n) = SubSeq(wire, first, n)
    BY <1>2 DEF FromHead
  <2> HIDE DEF first
  <2> QED
    BY <2>3, <2>4, SubSeqProperties
<1> QED
  BY <1>1, <1>2

\* What a turn leaves in the buffer, and what it makes of it (rf.c:607-630).
LEMMA TurnReads ==
    ASSUME RxInv, NEW n, uart_receive_pro(n)
    PROVE  /\ n \in 1 .. Len(wire) /\ FromHead(n) \in Seq(Wire)
           /\ wire' \in Seq(Wire) /\ Len(wire') = Len(wire) - n
           /\ RXDBuf' \in Buffers /\ RXDLen' = 0
           /\ \/ FromHead(n) = << >> /\ got' = Nothing
              \/ \E len \in Nat :
                   /\ len = IF Len(FromHead(n)) < UART_MAX_LEN THEN Len(FromHead(n)) ELSE UART_MAX_LEN
                   /\ \A i \in 0 .. len - 1 : RXDBuf'[i] = FromHead(n)[i + 1][1]
                   /\ got' = rf_protocol_receive(RXDBuf', len)
<1> DEFINE bytes == FromHead(n)
           len == IF Len(bytes) < UART_MAX_LEN THEN Len(bytes) ELSE UART_MAX_LEN
           buf == [i \in 0 .. UART_MAX_LEN - 1 |-> IF i \in 0 .. len - 1 THEN bytes[i + 1][1]
                                                   ELSE RXDBuf[i]]
<1>1. /\ n \in 1 .. Len(wire) /\ RXDLen = 0 /\ RXDBuf \in Buffers /\ wire \in Seq(Wire)
      /\ UART_MAX_LEN \in Nat
  <2>1. n \in 1 .. Len(wire)
    BY DEF uart_receive_pro
  <2>2. RXDLen = 0 /\ RXDBuf \in Buffers /\ wire \in Seq(Wire)
    BY DEF RxInv, TypeOK, Buffers, Wire, Byte
  <2> QED
    BY <2>1, <2>2, RxAssumption
<1>2. bytes \in Seq(Wire)
  BY <1>1, FromHeadTyped
<1>3. wire' = SubSeq(wire, n + 1, Len(wire))
  BY DEF uart_receive_pro
<1>4. wire' \in Seq(Wire) /\ Len(wire') = Len(wire) - n
  <2>1. n + 1 \in Int /\ Len(wire) \in Int /\ \A i \in n + 1 .. Len(wire) : wire[i] \in Wire
    BY <1>1
  <2>2. /\ SubSeq(wire, n + 1, Len(wire)) \in Seq(Wire)
        /\ Len(SubSeq(wire, n + 1, Len(wire)))
             = IF n + 1 <= Len(wire) THEN Len(wire) - (n + 1) + 1 ELSE 0
    BY <2>1, SubSeqProperties
  <2> QED
    BY <1>1, <1>3, <2>1, <2>2
<1> HIDE DEF bytes
<1>5. /\ len \in Nat /\ len <= Len(bytes) /\ len <= UART_MAX_LEN
      /\ \A i \in 0 .. len - 1 : bytes[i + 1][1] \in Byte
  <2>1. Len(bytes) \in Nat
    BY <1>2
  <2>2. len \in Nat /\ len <= Len(bytes) /\ len <= UART_MAX_LEN
    BY <1>1, <2>1
  <2>3. ASSUME NEW i \in 0 .. len - 1
        PROVE  bytes[i + 1][1] \in Byte
    <3>1. i + 1 \in 1 .. Len(bytes)
      BY <2>1, <2>2
    <3>2. bytes[i + 1] \in Wire
      BY <1>2, <3>1
    <3> QED
      BY <3>2 DEF Wire
  <2> QED
    BY <2>2, <2>3
<1>6. /\ RXDBuf' = buf
      /\ IF bytes = << >> THEN got' = Nothing /\ RXDLen' = RXDLen
         ELSE got' = rf_protocol_receive(buf, len) /\ RXDLen' = 0
  <2>1. DOMAIN RXDBuf = 0 .. UART_MAX_LEN - 1
    BY <1>1 DEF Buffers
  <2>2. UART_MAX_LEN - 0 = UART_MAX_LEN /\ \A k \in Nat : 0 + k = k
    BY <1>1
  <2>3. \A i \in 0 .. UART_MAX_LEN - 1 : i - 0 + 1 = i + 1
    OBVIOUS
  <2>4. 0 + len = len
    BY <1>5
  <2> QED
    BY <1>1, <2>1, <2>2, <2>3, <2>4 DEF uart_receive_pro, LenAfter, bytes
<1>7. buf \in Buffers
  <2> HIDE DEF len
  <2> QED
    BY <1>1, <1>5 DEF Buffers
<1>8. \A i \in 0 .. len - 1 : buf[i] = bytes[i + 1][1]
  <2>1. \A i \in 0 .. len - 1 : i \in 0 .. UART_MAX_LEN - 1
    BY <1>1, <1>5
  <2> HIDE DEF len
  <2> QED
    BY <2>1
<1> HIDE DEF len, buf
<1> QED
  BY <1>1, <1>2, <1>4, <1>5, <1>6, <1>7, <1>8 DEF bytes, len

\* What the line brings (external): bytes join what is there.
LEMMA LineGrows ==
    ASSUME RxInv, NEW bytes \in Seq(Byte), NEW first \in Starts, OnWire(bytes, first)
    PROVE  /\ wire' \in Seq(Wire) /\ Len(wire') = Len(wire) + Len(bytes) /\ Len(wire') <= MaxWire
           /\ RXDBuf' = RXDBuf /\ RXDLen' = RXDLen /\ got' = got
<1> DEFINE more == [i \in DOMAIN bytes |-> <<bytes[i], IF i = 1 THEN first ELSE "rest">>]
<1>1. wire \in Seq(Wire) /\ Len(wire) \in Nat /\ Len(bytes) \in Nat
  BY DEF RxInv, Wire
<1>2. more \in [1 .. Len(bytes) -> Wire]
  <2>1. DOMAIN bytes = 1 .. Len(bytes) /\ \A i \in 1 .. Len(bytes) : bytes[i] \in Byte
    OBVIOUS
  <2>2. "rest" \in Starts
    BY DEF Starts
  <2> QED
    BY <2>1, <2>2 DEF Wire
<1>3. more \in Seq(Wire)
  BY <1>1, <1>2, SeqDef
<1>4. Len(more) = Len(bytes)
  BY <1>1, <1>2, <1>3, LenProperties
<1>5. /\ wire' = wire \o more /\ Len(wire) + Len(bytes) <= MaxWire
      /\ RXDBuf' = RXDBuf /\ RXDLen' = RXDLen /\ got' = got
  BY DEF OnWire
<1> HIDE DEF more
<1> QED
  BY <1>1, <1>3, <1>4, <1>5, ConcatProperties

-----------------------------------------------------------------------------
(* The invariant *)

LEMMA InvParts ==
    RxInv <=> /\ RXDBuf \in Buffers /\ RXDLen = 0
              /\ wire \in Seq(Wire) /\ Len(wire) <= MaxWire
              /\ frames \in 0 .. MaxFrames /\ strays \in 0 .. MaxStray
              /\ got.cmd \in {0} \cup Commands /\ got.reach < UART_MAX_LEN
<1>1. Buffers = [0 .. UART_MAX_LEN - 1 -> 0 .. 255]
  BY DEF Buffers, Byte
<1> QED
  BY <1>1 DEF RxInv, TypeOK, ReadsInside

LEMMA InitHolds == Init => RxInv
<1> SUFFICES ASSUME Init PROVE RxInv
  OBVIOUS
<1>1. RXDBuf \in Buffers
  <2>1. 0 \in Byte
    BY SMT DEF Byte
  <2> QED
    BY <2>1 DEF Init, Buffers
<1>2. wire \in Seq(Wire) /\ Len(wire) <= MaxWire
  BY RxAssumption DEF Init
<1>3. got.cmd \in {0} \cup Commands /\ got.reach < UART_MAX_LEN
  BY RxAssumption DEF Init, Nothing
<1> QED
  BY <1>1, <1>2, <1>3, RxAssumption, InvParts DEF Init

\* What the line brings keeps the invariant, when the counts do.
LEMMA LineKeeps ==
    ASSUME RxInv, NEW bytes \in Seq(Byte), NEW first \in Starts, OnWire(bytes, first),
           frames' \in 0 .. MaxFrames, strays' \in 0 .. MaxStray
    PROVE  RxInv'
<1>1. /\ wire' \in Seq(Wire) /\ Len(wire') <= MaxWire
      /\ RXDBuf' = RXDBuf /\ RXDLen' = RXDLen /\ got' = got
  BY LineGrows
<1> QED
  BY <1>1, InvParts DEF RxInv, TypeOK, ReadsInside, Buffers, Byte

LEMMA FrameKeeps ==
    ASSUME RxInv, NEW bytes \in Seq(Byte), NEW first \in Starts, FrameOnWire(bytes, first)
    PROVE  RxInv'
<1>1. frames' \in 0 .. MaxFrames /\ strays' \in 0 .. MaxStray
  BY RxAssumption DEF FrameOnWire, RxInv, TypeOK
<1>2. OnWire(bytes, first)
  BY DEF FrameOnWire
<1> QED
  BY <1>1, <1>2, LineKeeps

LEMMA NextKeeps == RxInv /\ [Next]_vars => RxInv'
<1> SUFFICES ASSUME RxInv, [Next]_vars PROVE RxInv'
  OBVIOUS
<1>1. ASSUME NEW n \in 1 .. MaxWire, uart_receive_pro(n)
      PROVE  RxInv'
  <2>1. /\ n \in 1 .. Len(wire) /\ wire' \in Seq(Wire) /\ Len(wire') = Len(wire) - n
        /\ RXDBuf' \in Buffers /\ RXDLen' = 0
    BY <1>1, TurnReads
  <2>2. got'.cmd \in {0} \cup Commands /\ got'.reach < UART_MAX_LEN
    <3>1. CASE got' = Nothing
      BY <3>1, RxAssumption DEF Nothing
    <3>2. CASE \E len \in Nat : got' = rf_protocol_receive(RXDBuf', len)
      BY <2>1, <3>2, ReceiveTyped
    <3> QED
      BY <1>1, <3>1, <3>2, TurnReads
  <2>3. frames' = frames /\ strays' = strays
    BY <1>1 DEF uart_receive_pro
  <2>4. Len(wire') <= MaxWire
    BY <2>1, RxAssumption DEF RxInv, TypeOK
  <2>5. frames' \in 0 .. MaxFrames /\ strays' \in 0 .. MaxStray
    BY <2>3 DEF RxInv, TypeOK
  <2> QED
    BY <2>1, <2>2, <2>4, <2>5 DEF RxInv, TypeOK, ReadsInside, Buffers, Byte
<1>2. ASSUME NEW m \in Messages, ModuleSends(m)
      PROVE  RxInv'
  <2>1. Frame(m[1], m[2]) \in Seq(Byte)
    BY FrameFields
  <2>2. "intact" \in Starts
    BY DEF Starts
  <2> QED
    BY <1>2, <2>1, <2>2, FrameKeeps DEF ModuleSends
<1>3. CASE ModuleAcks
  <2>1. <<UART_HEAD, CMD_SET_LINK, ACK>> \in Seq(Byte)
    <3>1. UART_HEAD \in Byte /\ CMD_SET_LINK \in Byte /\ ACK \in Byte
      BY DEF UART_HEAD, CMD_SET_LINK, ACK, Byte
    <3> QED
      BY <3>1
  <2>2. "ack" \in Starts
    BY DEF Starts
  <2> QED
    BY <1>3, <2>1, <2>2, FrameKeeps DEF ModuleAcks
<1>4. ASSUME NEW m \in Messages, NEW i \in 5 .. UART_MAX_LEN, DamagedFrame(m, i)
      PROVE  RxInv'
  <2> DEFINE f == Frame(m[1], m[2])
             wrong == (f[i] + 1) % 256
  <2>1. f \in Seq(Byte)
    BY FrameFields
  <2>2. i \in 1 .. Len(f) /\ FrameOnWire([f EXCEPT ![i] = wrong], "damaged")
    BY <1>4, <2>1 DEF DamagedFrame
  <2>3. wrong \in Byte
    <3> DEFINE x == f[i]
    <3>1. x \in Byte /\ 1 \in Byte
      <4>1. 1 \in Byte
        BY SMT DEF Byte
      <4>2. x \in Byte
        BY <2>1, <2>2
      <4> QED
        BY <4>1, <4>2
    <3> HIDE DEF x
    <3>2. (x + 1) % 256 \in Byte
      BY <3>1, AddedByte
    <3> QED
      BY <3>2 DEF x
  <2>4. "damaged" \in Starts
    BY DEF Starts
  <2> HIDE DEF f, wrong
  <2>5. [f EXCEPT ![i] = wrong] \in Seq(Byte)
    BY <2>1, <2>2, <2>3, ExceptSeq
  <2> QED
    BY <2>2, <2>4, <2>5, FrameKeeps
<1>5. ASSUME NEW b \in Stray, StrayByte(b)
      PROVE  RxInv'
  <2>1. <<b>> \in Seq(Byte) /\ "stray" \in Starts
    BY RxAssumption DEF Starts
  <2>2. frames' \in 0 .. MaxFrames /\ strays' \in 0 .. MaxStray
    BY <1>5, RxAssumption DEF StrayByte, RxInv, TypeOK
  <2>3. OnWire(<<b>>, "stray")
    BY <1>5 DEF StrayByte
  <2> QED
    BY <2>1, <2>2, <2>3, LineKeeps
<1>6. CASE UNCHANGED vars
  BY <1>6 DEF RxInv, TypeOK, ReadsInside, vars
<1> QED
  BY <1>1, <1>2, <1>3, <1>4, <1>5, <1>6 DEF Next

\* rf.c:177, 594-636: between two turns of the main loop the buffer holds bytes,
\* no frame is begun and the line holds bytes.
THEOREM RxInvariant == Spec => []RxInv
<1> QED
  BY InitHolds, NextKeeps, PTL DEF Spec

\* rf.c:594-636: the buffer holds bytes, and the length of what was read is not
\* carried from one turn into the next.
THEOREM TypeCorrect == Spec => []TypeOK
<1>1. RxInv => TypeOK
  BY DEF RxInv
<1> QED
  BY <1>1, RxInvariant, PTL

\* rf.c:177: whatever stands where a length is expected, neither the checksum's
\* loop nor a handler looks at a byte behind RXDBuf.
THEOREM InsideRead == Spec => []ReadsInside
<1>1. RxInv => ReadsInside
  BY DEF RxInv
<1> QED
  BY <1>1, RxInvariant, PTL

-----------------------------------------------------------------------------
(* Whole frames *)

\* Only a turn of the main loop takes bytes off the line.
LEMMA ReadsIsTurn ==
    ASSUME RxInv, [Next]_vars, Reads
    PROVE  \E n \in 1 .. MaxWire : uart_receive_pro(n) /\ n = Len(wire) - Len(wire')
<1>0. Len(wire) \in Nat
  BY DEF RxInv
<1>1. ASSUME NEW n \in 1 .. MaxWire, uart_receive_pro(n)
      PROVE  n = Len(wire) - Len(wire')
  <2>1. Len(wire') = Len(wire) - n
    BY <1>1, TurnReads
  <2> QED
    BY <1>0, <2>1
<1>2. ASSUME NEW bytes \in Seq(Byte), NEW first \in Starts, OnWire(bytes, first)
      PROVE  FALSE
  <2>1. Len(wire') = Len(wire) + Len(bytes) /\ Len(bytes) \in Nat
    BY <1>2, LineGrows
  <2> QED
    BY <1>0, <2>1 DEF Reads
<1>3. ASSUME NEW m \in Messages, ModuleSends(m)
      PROVE  FALSE
  <2>1. Frame(m[1], m[2]) \in Seq(Byte) /\ "intact" \in Starts
    BY FrameFields DEF Starts
  <2> QED
    BY <1>2, <1>3, <2>1 DEF ModuleSends, FrameOnWire
<1>4. ~ModuleAcks
  <2>1. UART_HEAD \in Byte /\ CMD_SET_LINK \in Byte /\ ACK \in Byte /\ "ack" \in Starts
    BY DEF UART_HEAD, CMD_SET_LINK, ACK, Byte, Starts
  <2>2. <<UART_HEAD, CMD_SET_LINK, ACK>> \in Seq(Byte)
    BY <2>1
  <2> QED
    BY <1>2, <2>1, <2>2 DEF ModuleAcks, FrameOnWire
<1>5. ASSUME NEW m \in Messages, NEW i \in 5 .. UART_MAX_LEN, DamagedFrame(m, i)
      PROVE  FALSE
  <2> DEFINE f == Frame(m[1], m[2])
             damaged == [f EXCEPT ![i] = (f[i] + 1) % 256]
  <2>1. OnWire(damaged, "damaged")
    BY <1>5 DEF DamagedFrame, FrameOnWire
  <2>2. f \in Seq(Byte)
    BY FrameFields
  <2>3. i \in 1 .. Len(f)
    BY <1>5, <2>2 DEF DamagedFrame
  <2>4. damaged \in Seq(Byte)
    <3> DEFINE x == f[i]
    <3>1. 1 \in Byte
      BY SMT DEF Byte
    <3>2. x \in Byte
      BY <2>2, <2>3
    <3> HIDE DEF x
    <3>3. (x + 1) % 256 \in Byte
      BY <3>1, <3>2, AddedByte
    <3> DEFINE y == (x + 1) % 256
    <3> HIDE DEF y, f
    <3>4. [f EXCEPT ![i] = y] \in Seq(Byte)
      BY <2>2, <2>3, <3>3, ExceptSeq DEF y
    <3> QED
      BY <3>4 DEF x, y
  <2>5. "damaged" \in Starts
    BY DEF Starts
  <2> QED
    BY <1>2, <2>1, <2>4, <2>5
<1>6. ASSUME NEW b \in Stray, StrayByte(b)
      PROVE  FALSE
  <2>1. <<b>> \in Seq(Byte) /\ "stray" \in Starts
    BY RxAssumption DEF Starts
  <2> QED
    BY <1>2, <1>6, <2>1 DEF StrayByte
<1>7. ~UNCHANGED vars
  BY <1>0 DEF vars, Reads
<1> QED
  BY <1>1, <1>3, <1>4, <1>5, <1>6, <1>7 DEF Next

\* As many bytes as a frame has are in the buffer when they were read.
LEMMA FrameInBuffer ==
    ASSUME RxInv, NEW n, uart_receive_pro(n), NEW m \in Messages,
           Len(FromHead(n)) >= 5 + Len(m[2])
    PROVE  /\ RXDBuf' \in Buffers
           /\ \A j \in 1 .. 5 + Len(m[2]) : RXDBuf'[j - 1] = FromHead(n)[j][1]
           /\ \E len \in Nat : len >= 5 + Len(m[2]) /\ got' = rf_protocol_receive(RXDBuf', len)
<1> DEFINE bytes == FromHead(n)
           k == Len(m[2])
<1>1. RXDBuf' \in Buffers /\ bytes \in Seq(Wire)
  BY TurnReads
<1>2. k \in Nat /\ k <= UART_MAX_LEN - 5 /\ UART_MAX_LEN \in Nat /\ Len(bytes) \in Nat
  BY <1>1, FrameFields, CommandsAreBytes, RxAssumption
<1>3. bytes # << >>
  BY <1>2
<1>4. PICK len \in Nat :
         /\ len = IF Len(bytes) < UART_MAX_LEN THEN Len(bytes) ELSE UART_MAX_LEN
         /\ \A i \in 0 .. len - 1 : RXDBuf'[i] = bytes[i + 1][1]
         /\ got' = rf_protocol_receive(RXDBuf', len)
  BY <1>3, TurnReads
<1> HIDE DEF bytes, k
<1>5. len >= 5 + k
  BY <1>2, <1>4 DEF bytes, k
<1>6. \A j \in 1 .. 5 + k : RXDBuf'[j - 1] = bytes[j][1]
  <2> TAKE j \in 1 .. 5 + k
  <2>1. j - 1 \in 0 .. len - 1 /\ (j - 1) + 1 = j
    BY <1>2, <1>5
  <2> QED
    BY <1>4, <2>1
<1> QED
  BY <1>1, <1>4, <1>5, <1>6 DEF bytes, k

\* What a frame in the buffer is taken for, if its first four bytes are as they
\* were sent.
LEMMA FrameTakenAs ==
    ASSUME RxInv, NEW n, uart_receive_pro(n), NEW m \in Messages,
           Len(FromHead(n)) >= 5 + Len(m[2]),
           \A j \in 1 .. 4 : FromHead(n)[j][1] = Frame(m[1], m[2])[j]
    PROVE  LET k == Len(m[2])
               bytes == FromHead(n)
               payload == Payload(RXDBuf', k)
               good == CheckSum(payload) = bytes[5 + k][1]
           IN  /\ payload \in Seq(Byte) /\ Len(payload) = k
               /\ \A i \in 1 .. k : payload[i] = bytes[4 + i][1]
               /\ got'.cmd = IF good THEN m[1] ELSE 0
               /\ good => got'.data = Payload(RXDBuf', Taken(m[1]))
<1> DEFINE bytes == FromHead(n)
           k == Len(m[2])
           f == Frame(m[1], m[2])
           payload == Payload(RXDBuf', k)
<1>1. /\ RXDBuf' \in Buffers
      /\ \A j \in 1 .. 5 + k : RXDBuf'[j - 1] = bytes[j][1]
  BY FrameInBuffer
<1>2. PICK len \in Nat : len >= 5 + k /\ got' = rf_protocol_receive(RXDBuf', len)
  BY FrameInBuffer
<1>3. /\ m[1] \in Commands /\ k \in Nat /\ k \in 0 .. UART_MAX_LEN - 5 /\ Taken(m[1]) <= k
      /\ f[2] = m[1] /\ f[4] = k
  <2>1. Taken(m[1]) \in Nat
    BY CommandsAreBytes
  <2>2. /\ m[1] \in Commands /\ k \in Nat /\ k \in Taken(m[1]) .. UART_MAX_LEN - 5
        /\ f[2] = m[1] /\ Carries(f, m[2])
    BY FrameFields
  <2> HIDE DEF f
  <2> QED
    BY <2>1, <2>2 DEF Carries
<1>4. \A j \in 1 .. 4 : bytes[j][1] = f[j]
  OBVIOUS
<1> HIDE DEF bytes, f, k
<1>5. RXDBuf'[1] = m[1] /\ RXDBuf'[3] = k
  <2>1. 2 \in 1 .. 5 + k /\ 4 \in 1 .. 5 + k /\ 2 \in 1 .. 4 /\ 4 \in 1 .. 4 /\ 2 - 1 = 1 /\ 4 - 1 = 3
    BY <1>3
  <2> QED
    BY <1>1, <1>3, <1>4, <2>1
<1>6. /\ payload \in Seq(Byte) /\ Len(payload) = k
      /\ \A i \in 1 .. k : payload[i] = RXDBuf'[3 + i]
  BY <1>1, <1>3, PayloadTyped
<1>7. \A i \in 1 .. k : payload[i] = bytes[4 + i][1]
  <2> TAKE i \in 1 .. k
  <2>1. 4 + i \in 1 .. 5 + k /\ (4 + i) - 1 = 3 + i
    BY <1>3
  <2> HIDE DEF payload
  <2> QED
    BY <1>1, <1>6, <2>1
<1>8. RXDBuf'[4 + k] = bytes[5 + k][1]
  <2>1. 5 + k \in 1 .. 5 + k /\ (5 + k) - 1 = 4 + k
    BY <1>3
  <2> QED
    BY <1>1, <2>1
<1>9. LET good == CheckSum(payload) = RXDBuf'[4 + k]
      IN  /\ rf_protocol_receive(RXDBuf', len).cmd = IF good THEN m[1] ELSE 0
          /\ good => rf_protocol_receive(RXDBuf', len).data = Payload(RXDBuf', Taken(m[1]))
  BY <1>1, <1>2, <1>3, <1>5, WholeFrame
<1> HIDE DEF payload
<1> QED
  BY <1>2, <1>6, <1>7, <1>8, <1>9 DEF payload, bytes, k

LEMMA WholeFrameStep ==
    ASSUME RxInv, NEW n, uart_receive_pro(n), NEW m \in Messages,
           Len(FromHead(n)) >= Len(Frame(m[1], m[2])),
           \A j \in DOMAIN Frame(m[1], m[2]) : FromHead(n)[j][1] = Frame(m[1], m[2])[j]
    PROVE  got'.cmd = m[1] /\ got'.data = SubSeq(m[2], 1, Taken(m[1]))
<1> DEFINE bytes == FromHead(n)
           data == m[2]
           k == Len(data)
           f == Frame(m[1], data)
           t == Taken(m[1])
           payload == Payload(RXDBuf', k)
<1>1. /\ data \in Seq(Byte) /\ k \in Nat /\ k <= UART_MAX_LEN - 5
      /\ f \in Seq(Byte) /\ Len(f) = 5 + k /\ Carries(f, data)
      /\ f[5 + k] = CheckSum(data) /\ t \in Nat /\ t <= k
      /\ UART_MAX_LEN \in Nat
  BY FrameFields, CommandsAreBytes, RxAssumption
<1>2. Len(bytes) >= 5 + k /\ \A j \in 1 .. 5 + k : bytes[j][1] = f[j]
  BY <1>1
<1> HIDE DEF f
<1>3. /\ payload \in Seq(Byte) /\ Len(payload) = k
      /\ \A i \in 1 .. k : payload[i] = bytes[4 + i][1]
      /\ got'.cmd = IF CheckSum(payload) = bytes[5 + k][1] THEN m[1] ELSE 0
      /\ CheckSum(payload) = bytes[5 + k][1] => got'.data = Payload(RXDBuf', t)
  <2>1. \A j \in 1 .. 4 : bytes[j][1] = f[j]
    <3>1. \A j \in 1 .. 4 : j \in 1 .. 5 + k
      BY <1>1
    <3> HIDE DEF bytes, k
    <3> QED
      BY <1>2, <3>1
  <2> QED
    BY <1>2, <2>1, FrameTakenAs DEF f
<1> HIDE DEF payload, bytes
<1>4. \A i \in 1 .. k : payload[i] = data[i]
  <2> TAKE i \in 1 .. k
  <2>1. 4 + i \in 1 .. 5 + k
    BY <1>1
  <2> QED
    BY <1>1, <1>2, <1>3, <2>1 DEF Carries
<1>5. payload = data
  BY <1>1, <1>3, <1>4, SeqEqual
<1>6. CheckSum(payload) = bytes[5 + k][1]
  <2>1. 5 + k \in 1 .. 5 + k
    BY <1>1
  <2> QED
    BY <1>1, <1>2, <1>5, <2>1
<1>7. Payload(RXDBuf', t) = SubSeq(data, 1, t)
  <2> DEFINE head == Payload(RXDBuf', t)
             want == SubSeq(data, 1, t)
  <2>1. RXDBuf' \in Buffers
    BY TurnReads
  <2>2. t \in 0 .. UART_MAX_LEN - 5 /\ k \in 0 .. UART_MAX_LEN - 5
    BY <1>1
  <2>3. head \in Seq(Byte) /\ Len(head) = t /\ \A i \in 1 .. t : head[i] = RXDBuf'[3 + i]
    BY <2>1, <2>2, PayloadTyped
  <2>4. \A i \in 1 .. k : data[i] = RXDBuf'[3 + i]
    BY <1>4, <2>1, <2>2, PayloadTyped DEF payload
  <2>5. want \in Seq(Byte) /\ Len(want) = t /\ \A i \in 1 .. t : want[i] = data[i]
    <3>1. \A i \in 1 .. t : data[i] \in Byte
      BY <1>1
    <3>2. 1 \in Int /\ t \in Int
      BY <1>1
    <3> HIDE DEF t, data
    <3>3. /\ SubSeq(data, 1, t) \in Seq(Byte)
          /\ Len(SubSeq(data, 1, t)) = IF 1 <= t THEN t - 1 + 1 ELSE 0
          /\ \A i \in 1 .. t - 1 + 1 : SubSeq(data, 1, t)[i] = data[1 + i - 1]
      BY <3>1, <3>2, SubSeqProperties
    <3>4. \A i \in 1 .. t : 1 + i - 1 = i
      OBVIOUS
    <3> QED
      BY <1>1, <3>3, <3>4
  <2>6. \A i \in 1 .. t : head[i] = want[i]
    <3> TAKE i \in 1 .. t
    <3>1. i \in 1 .. k
      BY <1>1
    <3> HIDE DEF head, want
    <3> QED
      BY <2>3, <2>4, <2>5, <3>1
  <2> HIDE DEF head, want
  <2>7. head = want
    BY <2>3, <2>5, <2>6, SeqEqual
  <2> QED
    BY <2>7 DEF head, want
<1> QED
  BY <1>3, <1>6, <1>7

\* rf.c:599-636: whatever was read before, a turn that finds a whole frame, of any
\* length that fits, takes its command and its payload.
THEOREM WholeFramesTaken == Spec => WholeFrameTaken
<1>1. RxInv /\ [Next]_vars
        => [Reads => \A m \in Messages :
              LET f == Frame(m[1], m[2])
              IN  Len(Read) >= Len(f) /\ (\A i \in DOMAIN f : Read[i][1] = f[i])
                    => got'.cmd = m[1] /\ got'.data = SubSeq(m[2], 1, Taken(m[1]))]_vars
  <2> SUFFICES ASSUME RxInv, [Next]_vars, Reads, NEW m \in Messages,
                      Len(Read) >= Len(Frame(m[1], m[2])),
                      \A i \in DOMAIN Frame(m[1], m[2]) : Read[i][1] = Frame(m[1], m[2])[i]
               PROVE  got'.cmd = m[1] /\ got'.data = SubSeq(m[2], 1, Taken(m[1]))
    OBVIOUS
  <2>1. PICK n \in 1 .. MaxWire : uart_receive_pro(n) /\ n = Len(wire) - Len(wire')
    BY ReadsIsTurn
  <2>2. Read = FromHead(n)
    BY <2>1 DEF Read
  <2> QED
    BY <2>1, <2>2, WholeFrameStep
<1> QED
  BY <1>1, RxInvariant, PTL DEF Spec, WholeFrameTaken

LEMMA DamagedStep ==
    ASSUME RxInv, NEW n, uart_receive_pro(n), NEW m \in Messages,
           NEW i \in 5 .. Len(Frame(m[1], m[2])),
           Len(FromHead(n)) >= Len(Frame(m[1], m[2])),
           \A j \in DOMAIN Frame(m[1], m[2]) : FromHead(n)[j][1] # Frame(m[1], m[2])[j] <=> j = i
    PROVE  got'.cmd = 0
<1> DEFINE bytes == FromHead(n)
           data == m[2]
           k == Len(data)
           f == Frame(m[1], data)
           payload == Payload(RXDBuf', k)
<1>1. /\ data \in Seq(Byte) /\ k \in Nat
      /\ f \in Seq(Byte) /\ Len(f) = 5 + k /\ Carries(f, data) /\ f[5 + k] = CheckSum(data)
  BY FrameFields
<1>2. /\ Len(bytes) >= 5 + k /\ i \in 5 .. 5 + k
      /\ \A j \in 1 .. 5 + k : bytes[j][1] # f[j] <=> j = i
  BY <1>1
<1> HIDE DEF f
<1>3. /\ payload \in Seq(Byte) /\ Len(payload) = k
      /\ \A j \in 1 .. k : payload[j] = bytes[4 + j][1]
      /\ got'.cmd = IF CheckSum(payload) = bytes[5 + k][1] THEN m[1] ELSE 0
  <2>1. \A j \in 1 .. 4 : bytes[j][1] = f[j]
    <3>1. \A j \in 1 .. 4 : j \in 1 .. 5 + k /\ j # i
      BY <1>1, <1>2
    <3> HIDE DEF bytes, k
    <3> QED
      BY <1>2, <3>1
  <2> QED
    BY <1>2, <2>1, FrameTakenAs DEF f
<1> HIDE DEF payload, bytes
<1>4. \A j \in 1 .. k : payload[j] # data[j] <=> 4 + j = i
  <2> TAKE j \in 1 .. k
  <2>1. 4 + j \in 1 .. 5 + k
    BY <1>1
  <2> QED
    BY <1>1, <1>2, <1>3, <2>1 DEF Carries
<1>5. 5 + k \in 1 .. 5 + k
  BY <1>1
\* A byte of the payload is wrong: the checksum of what is there is another.
<1>6. CASE i # 5 + k
  <2> DEFINE j == i - 4
  <2>1. j \in 1 .. k /\ 4 + j = i
    BY <1>1, <1>2, <1>6
  <2>2. payload[j] # data[j] /\ \A l \in 1 .. k : l # j => payload[l] = data[l]
    <3>1. \A l \in 1 .. k : 4 + l = i => l = j
      BY <1>1, <1>2
    <3> HIDE DEF j
    <3> QED
      BY <1>4, <2>1, <3>1
  <2> HIDE DEF j, data
  <2>3. CheckSum(payload) # CheckSum(data)
    BY <1>1, <1>3, <2>1, <2>2, CheckSumTells
  <2>4. bytes[5 + k][1] = CheckSum(data)
    BY <1>1, <1>2, <1>5, <1>6
  <2> QED
    BY <1>3, <2>3, <2>4
\* The checksum is wrong: that of what is there is the one that was sent.
<1>7. CASE i = 5 + k
  <2>1. \A j \in 1 .. k : 4 + j # i
    BY <1>1, <1>7
  <2>2. \A j \in 1 .. k : payload[j] = data[j]
    BY <1>4, <2>1
  <2>3. payload = data
    BY <1>1, <1>3, <2>2, SeqEqual
  <2>4. bytes[5 + k][1] # CheckSum(data)
    BY <1>1, <1>2, <1>5, <1>7
  <2> QED
    BY <1>3, <2>3, <2>4
<1> QED
  BY <1>6, <1>7

\* rf.c:180-187: one wrong byte in the payload or the checksum of a frame, of any
\* length and whatever value it has, and the frame is dropped.
THEOREM DamagesDropped == Spec => DamageDropped
<1>1. RxInv /\ [Next]_vars
        => [Reads => \A m \in Messages :
              LET f == Frame(m[1], m[2])
              IN  \A i \in 5 .. Len(f) :
                    /\ Len(Read) >= Len(f)
                    /\ \A j \in DOMAIN f : Read[j][1] # f[j] <=> j = i
                    => got'.cmd = 0]_vars
  <2> SUFFICES ASSUME RxInv, [Next]_vars, Reads, NEW m \in Messages,
                      NEW i \in 5 .. Len(Frame(m[1], m[2])),
                      Len(Read) >= Len(Frame(m[1], m[2])),
                      \A j \in DOMAIN Frame(m[1], m[2]) :
                          Read[j][1] # Frame(m[1], m[2])[j] <=> j = i
               PROVE  got'.cmd = 0
    OBVIOUS
  <2>1. PICK n \in 1 .. MaxWire : uart_receive_pro(n) /\ n = Len(wire) - Len(wire')
    BY ReadsIsTurn
  <2>2. Read = FromHead(n)
    BY <2>1 DEF Read
  <2> QED
    BY <2>1, <2>2, DamagedStep
<1> QED
  BY <1>1, RxInvariant, PTL DEF Spec, DamageDropped

-----------------------------------------------------------------------------
(* The ring of reports *)

\* NextSlot (rf_queue.c:38 and 52) without the modulo: what (i + 1) % SIZE is
\* for an index of the array.
LEMMA NextSlotValue ==
    ASSUME NEW i \in Slot
    PROVE  NextSlot(i) = IF i = RF_QUEUE_SIZE - 1 THEN 0 ELSE i + 1
<1>1. CASE i = RF_QUEUE_SIZE - 1
  <2>1. RF_QUEUE_SIZE % RF_QUEUE_SIZE = 0
    BY QueueSizeAssumption
  <2> QED
    BY <1>1, <2>1, QueueSizeAssumption DEF NextSlot, Slot
<1>2. CASE i # RF_QUEUE_SIZE - 1
  <2>1. i + 1 \in 1 .. RF_QUEUE_SIZE - 1
    BY <1>2, QueueSizeAssumption DEF Slot
  <2>2. \A k \in Nat, n \in Nat \ {0} : k < n => k % n = k
    OBVIOUS
  <2> QED
    BY <1>2, <2>1, <2>2, QueueSizeAssumption DEF NextSlot, Slot
<1> QED
  BY <1>1, <1>2

LEMMA NextSlotType ==
    ASSUME NEW i \in Slot
    PROVE  NextSlot(i) \in Slot
<1>1. NextSlot(i) = IF i = RF_QUEUE_SIZE - 1 THEN 0 ELSE i + 1
  BY NextSlotValue
<1> QED
  BY <1>1, QueueSizeAssumption DEF Slot

\* rf_queue.c:23-54: no call of enqueue, dequeue or clear, in any order, moves
\* the head or the tail outside buffer_queue.
THEOREM QueueTyped == RingSpec => []RingTypeOK
<1>1. RingInit => RingTypeOK
  BY QueueSizeAssumption DEF RingInit, RingTypeOK, Slot
<1>2. RingTypeOK /\ [RingNext]_ringVars => RingTypeOK'
  <2> SUFFICES ASSUME RingTypeOK, [RingNext]_ringVars
               PROVE  RingTypeOK'
    OBVIOUS
  <2> USE QueueSizeAssumption DEF RingTypeOK
  <2>0. NextSlot(queue_head) \in Slot /\ NextSlot(queue_tail) \in Slot
    BY NextSlotType
  <2>1. ASSUME NEW r \in Report, enqueue_rf_report(r)
        PROVE  RingTypeOK'
    BY <2>0, <2>1 DEF enqueue_rf_report
  <2>2. CASE dequeue_rf_report
    BY <2>0, <2>2 DEF dequeue_rf_report
  <2>3. CASE clear_rf_queue
    BY <2>3 DEF clear_rf_queue, Slot
  <2>4. CASE UNCHANGED ringVars
    BY <2>4 DEF ringVars
  <2> QED
    BY <2>1, <2>2, <2>3, <2>4 DEF RingNext
<1> QED
  BY <1>1, <1>2, PTL DEF RingSpec

-----------------------------------------------------------------------------
(* The refinement *)

\* A function on 1..n is a sequence of length n.
LEMMA FunctionIsSeq ==
    ASSUME NEW S, NEW n \in Nat, NEW f \in [1..n -> S]
    PROVE  f \in Seq(S) /\ Len(f) = n
<1>1. f \in Seq(S)
  BY SeqDef
<1> QED
  BY <1>1, LenProperties

\* What Contents is as a sequence: its length and its elements.
LEMMA ContentsIsSeq ==
    ASSUME RingTypeOK
    PROVE  /\ Pending \in 0 .. RF_QUEUE_SIZE - 1
           /\ \A i \in 1..Pending : SlotOf(i) \in Slot
           /\ Contents \in Seq(Report \cup {NoReport})
           /\ Len(Contents) = Pending
<1>1. Pending \in 0 .. RF_QUEUE_SIZE - 1
  BY QueueSizeAssumption DEF Pending, RingTypeOK, Slot
<1>2. \A i \in 1..Pending : SlotOf(i) \in Slot
  BY <1>1, QueueSizeAssumption DEF Pending, SlotOf, RingTypeOK, Slot
<1>3. Contents \in [1..Pending -> Report \cup {NoReport}]
  BY <1>2 DEF Contents, RingTypeOK
<1> QED
  BY <1>1, <1>2, <1>3, FunctionIsSeq

\* Storing r in the head slot and advancing the head appends r (rf_queue.c:42-43).
LEMMA EnqueueRefines ==
    ASSUME RingTypeOK, NEW r \in Report, enqueue_rf_report(r)
    PROVE  Fifo!Enqueue(r)
<1> DEFINE R == Report \cup {NoReport}
<1> USE QueueSizeAssumption
<1>1. NextSlot(queue_head) = IF queue_head = RF_QUEUE_SIZE - 1 THEN 0 ELSE queue_head + 1
  BY NextSlotValue DEF RingTypeOK
<1>2. CASE NextSlot(queue_head) = queue_tail
  <2>1. Pending = RF_QUEUE_SIZE - 1
    BY <1>1, <1>2 DEF Pending, RingTypeOK, Slot
  <2>2. Contents' = Contents
    BY <1>2 DEF enqueue_rf_report, Contents, Pending, SlotOf
  <2> QED
    <3>1. (Len(Contents) < RF_QUEUE_SIZE - 1) = FALSE
      BY <2>1, ContentsIsSeq
    <3>2. call' = "enqueue" /\ ret' = FALSE /\ UNCHANGED report
      BY <1>2 DEF enqueue_rf_report
    <3> QED
      BY <2>2, <3>1, <3>2, Zenon DEF Fifo!Enqueue
<1>3. CASE NextSlot(queue_head) # queue_tail
  <2>1. Pending < RF_QUEUE_SIZE - 1 /\ Pending \in Nat
    BY <1>1, <1>3 DEF Pending, RingTypeOK, Slot
  <2>2. Pending' = Pending + 1
    BY <1>1, <1>3 DEF enqueue_rf_report, Pending, RingTypeOK, Slot
  <2>3. \A i \in 1..Pending : SlotOf(i)' = SlotOf(i) /\ SlotOf(i) # queue_head /\ SlotOf(i) \in Slot
    BY <1>3 DEF enqueue_rf_report, Pending, SlotOf, RingTypeOK, Slot
  <2>4. \A n \in Nat : n = Pending + 1 => SlotOf(n)' = queue_head
    BY <1>3 DEF enqueue_rf_report, Pending, SlotOf, RingTypeOK, Slot
  <2>5. \A i \in 1..Pending : Contents'[i] = Contents[i]
    BY <1>3, <2>1, <2>2, <2>3 DEF enqueue_rf_report, Contents, RingTypeOK
  <2>6. Contents'[Pending + 1] = r
    <3>1. PICK n \in Nat : n = Pending + 1
      BY <2>1
    <3>2. n \in 1 .. Pending' /\ SlotOf(n)' = queue_head
      BY <2>1, <2>2, <2>4, <3>1
    <3>3. buffer_queue'[queue_head] = r
      BY <1>3 DEF enqueue_rf_report, RingTypeOK
    <3> QED
      BY <3>1, <3>2, <3>3 DEF Contents
  <2>7. Contents' \in [1 .. Pending + 1 -> R]
    <3>1. Contents' = [i \in 1 .. Pending + 1 |-> Contents'[i]]
      BY <2>2 DEF Contents
    <3>2. \A i \in 1 .. Pending + 1 : Contents'[i] \in R
      BY <2>1, <2>3, <2>5, <2>6 DEF Contents, RingTypeOK
    <3> QED
      BY <3>1, <3>2
  <2>8. Contents \in Seq(R) /\ Len(Contents) = Pending
    BY ContentsIsSeq
  <2>9. Contents' \in Seq(R) /\ Len(Contents') = Pending + 1
    BY <2>1, <2>7, FunctionIsSeq
  <2>10. Contents' = Append(Contents, r)
    BY <2>1, <2>5, <2>6, <2>8, <2>9
  <2> QED
    <3>1. (Len(Contents) < RF_QUEUE_SIZE - 1) = TRUE
      BY <2>1, <2>8
    <3>2. call' = "enqueue" /\ ret' = TRUE /\ UNCHANGED report
      BY <1>3 DEF enqueue_rf_report
    <3> QED
      BY <2>10, <3>1, <3>2, Zenon DEF Fifo!Enqueue
<1> QED
  BY <1>2, <1>3

\* Advancing the tail removes the oldest report (rf_queue.c:48-53).
LEMMA DequeueRefines ==
    ASSUME RingTypeOK, dequeue_rf_report
    PROVE  Fifo!Dequeue
<1> DEFINE R == Report \cup {NoReport}
<1> USE QueueSizeAssumption
<1>0. Contents \in Seq(R) /\ Len(Contents) = Pending
  BY ContentsIsSeq
<1>1. CASE queue_head = queue_tail
  <2>1. Pending = 0
    BY <1>1 DEF Pending, RingTypeOK, Slot
  <2>2. Contents = << >>
    BY <1>0, <2>1, EmptySeq
  <2>3. UNCHANGED <<Contents, report>> /\ call' = "dequeue" /\ ret' = FALSE
    BY <1>1 DEF dequeue_rf_report, rf_queue_is_empty, Contents, Pending, SlotOf
  <2> QED
    BY <2>2, <2>3, Zenon DEF Fifo!Dequeue
<1>2. CASE queue_head # queue_tail
  <2>1. NextSlot(queue_tail) = IF queue_tail = RF_QUEUE_SIZE - 1 THEN 0 ELSE queue_tail + 1
    BY NextSlotValue DEF RingTypeOK
  <2>2. Pending \in Nat \ {0}
    BY <1>2 DEF Pending, RingTypeOK, Slot
  <2>3. Pending' = Pending - 1
    BY <1>2, <2>1 DEF dequeue_rf_report, rf_queue_is_empty, Pending, RingTypeOK, Slot
  <2>4. \A i \in 1 .. Pending - 1 : SlotOf(i)' = SlotOf(i + 1) /\ SlotOf(i + 1) \in Slot
    BY <1>2, <2>1 DEF dequeue_rf_report, rf_queue_is_empty, Pending, SlotOf, RingTypeOK, Slot
  <2>5. SlotOf(1) = queue_tail
    BY DEF SlotOf, RingTypeOK, Slot
  <2>6. Contents # << >>
    BY <1>0, <2>2, EmptySeq
  <2>7. report' = Head(Contents)
    <3>1. Contents[1] = buffer_queue[queue_tail]
      BY <2>2, <2>5 DEF Contents
    <3>2. Head(Contents) = Contents[1]
      BY <1>0, <2>6
    <3> QED
      BY <1>2, <3>1, <3>2 DEF dequeue_rf_report, rf_queue_is_empty
  <2>8. \A i \in 1 .. Pending - 1 : Contents'[i] = Contents[i + 1] /\ Contents'[i] \in R
    BY <1>2, <2>2, <2>3, <2>4 DEF dequeue_rf_report, rf_queue_is_empty, Contents, RingTypeOK
  <2>9. Contents' \in [1 .. Pending - 1 -> R]
    <3>1. Contents' = [i \in 1 .. Pending - 1 |-> Contents'[i]]
      BY <2>3 DEF Contents
    <3> QED
      BY <2>8, <3>1
  <2>10. Contents' \in Seq(R) /\ Len(Contents') = Pending - 1
    BY <2>2, <2>9, FunctionIsSeq
  <2>11. /\ Tail(Contents) \in Seq(R)
         /\ Len(Tail(Contents)) = Pending - 1
         /\ \A i \in 1 .. Pending - 1 : Tail(Contents)[i] = Contents[i + 1]
    BY <1>0, <2>6, HeadTailProperties
  <2>12. Contents' = Tail(Contents)
    BY <2>8, <2>10, <2>11, SeqEqual
  <2>13. call' = "dequeue" /\ ret' = TRUE
    BY <1>2 DEF dequeue_rf_report, rf_queue_is_empty
  <2> QED
    BY <2>6, <2>7, <2>12, <2>13 DEF Fifo!Dequeue
<1> QED
  BY <1>1, <1>2

\* Setting both indices to 0 empties the queue (rf_queue.c:33-34).
LEMMA ClearRefines ==
    ASSUME RingTypeOK, clear_rf_queue
    PROVE  Fifo!Clear
<1>1. Pending' = 0
  BY DEF clear_rf_queue, Pending
<1>2. Contents' = << >>
  BY <1>1 DEF Contents
<1> QED
  BY <1>2 DEF clear_rf_queue, Fifo!Clear

\* rf_queue.c:37-54: for every size and every reports, each call on the
\* circular buffer is the same call on the bounded FIFO, so nothing is lost,
\* duplicated or reordered while the indices go round.
THEOREM RefinesFifo == RingSpec => ImplementsFifo
<1>1. RingInit => Fifo!Init
  BY QueueSizeAssumption DEF RingInit, Fifo!Init, Contents, Pending
<1>2. RingTypeOK /\ [RingNext]_ringVars => [Fifo!Next]_(Fifo!vars)
  <2> SUFFICES ASSUME RingTypeOK, [RingNext]_ringVars
               PROVE  [Fifo!Next]_(Fifo!vars)
    OBVIOUS
  <2>1. ASSUME NEW r \in Report, enqueue_rf_report(r)
        PROVE  Fifo!Next
    BY <2>1, EnqueueRefines DEF Fifo!Next
  <2>2. CASE dequeue_rf_report
    BY <2>2, DequeueRefines DEF Fifo!Next
  <2>3. CASE clear_rf_queue
    BY <2>3, ClearRefines DEF Fifo!Next
  <2>4. CASE UNCHANGED ringVars
    BY <2>4 DEF ringVars, Fifo!vars, Contents, Pending, SlotOf
  <2> QED
    BY <2>1, <2>2, <2>3, <2>4 DEF RingNext
<1> QED
  BY <1>1, <1>2, QueueTyped, PTL DEF RingSpec, ImplementsFifo, Fifo!Spec
=============================================================================
