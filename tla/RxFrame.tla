------------------------------- MODULE RxFrame -------------------------------
(***************************************************************************)
(* How bytes from the RF module become commands: uart_receive_pro and      *)
(* rf_protocol_receive of rf.c.  There is no framing below them: a turn of *)
(* the main loop takes what has arrived, drops what is in front of the     *)
(* first UART_HEAD and reads the rest as one frame                         *)
(*    UART_HEAD, command, acknowledgement, length, payload, checksum       *)
(* in a buffer that is never cleared.  Module and line are external: a     *)
(* turn may find part of a frame or more than one, stray bytes come        *)
(* between frames, and a byte of a payload may be damaged.                 *)
(*                                                                         *)
(* What the handlers do with the bytes of a payload is in RfLink and       *)
(* Sleep; here is which bytes they take.                                   *)
(***************************************************************************)
EXTENDS Naturals, Sequences

CONSTANTS
    UART_MAX_LEN,     \* size of RXDBuf (64)
    STATUS_LEN,       \* bytes of a payload that the handler of a status looks at (5)
    FUNC_TAB_LEN,     \* bytes that READ_DATA copies (32)
    Messages,         \* what the module sends: pairs of a command and its payload
    Stray,            \* stray bytes
    MaxFrames,        \* bound: frames sent
    MaxStray,         \* bound: stray bytes
    MaxWire           \* bound: bytes on the line

VARIABLES
    wire,      \* on the line: pairs of a byte and what it belongs to: see OnWire
    RXDBuf,    \* Usart_Mgr.RXDBuf
    RXDLen,    \* Usart_Mgr.RXDLen
    got,       \* what the last turn made of what it read: see Nothing
    frames,    \* frames sent, for MaxFrames
    strays     \* stray bytes, for MaxStray

vars == <<wire, RXDBuf, RXDLen, got, frames, strays>>

UART_HEAD == 90
CMD_NEW_ADV == 199
CMD_RF_STS_SYSC == 201
CMD_READ_DATA == 129
CMD_HAND == 242
CMD_24G_SUSPEND == 244
CMD_SET_LINK == 192     \* stands for the commands that are only acknowledged
ACK == 160

WithPayload == {CMD_RF_STS_SYSC, CMD_READ_DATA}
Commands == WithPayload \cup {CMD_NEW_ADV, CMD_HAND, CMD_24G_SUSPEND}

Byte == 0 .. 255

\* How much of a payload is looked at.
Taken(cmd) == IF cmd = CMD_RF_STS_SYSC THEN STATUS_LEN
              ELSE IF cmd = CMD_READ_DATA THEN FUNC_TAB_LEN
              ELSE 0

\* What the module sends has all of what is looked at, and fits into RXDBuf.
ASSUME RxAssumption ==
    /\ UART_MAX_LEN \in 8 .. 255
    /\ STATUS_LEN \in 1 .. UART_MAX_LEN - 5
    /\ FUNC_TAB_LEN \in 1 .. UART_MAX_LEN - 5
    /\ Messages \subseteq Commands \X Seq(Byte)
    /\ \A m \in Messages : Len(m[2]) \in Taken(m[1]) .. UART_MAX_LEN - 5
    /\ Stray \subseteq Byte
    /\ MaxFrames \in Nat /\ MaxStray \in Nat /\ MaxWire \in Nat

\* A command that was taken (0 if none) and its payload; whether its checksum
\* was among the bytes that were read; the last byte of RXDBuf looked at;
\* f_uart_ack was set.
Nothing == [cmd |-> 0, data |-> << >>, whole |-> FALSE, reach |-> 3, ack |-> FALSE]

Init ==
    /\ wire = << >>
    /\ RXDBuf = [i \in 0 .. UART_MAX_LEN - 1 |-> 0]
    /\ RXDLen = 0
    /\ got = Nothing
    /\ frames = 0
    /\ strays = 0

-----------------------------------------------------------------------------
(* rf_protocol_receive *)

\* RXDBuf is the last member of its structure: behind it is something else.
At(buf, i) == IF i < UART_MAX_LEN THEN buf[i] ELSE 0

Payload(buf, n) == [i \in 1 .. n |-> At(buf, 3 + i)]

\* A uint8_t to which the loop adds byte by byte: its values on the way.
Sums(bytes) ==
    LET check_sum[i \in 0 .. Len(bytes)] ==
          IF i = 0 THEN 0 ELSE (check_sum[i - 1] + bytes[i]) % 256
    IN  check_sum

CheckSum(bytes) == Sums(bytes)[Len(bytes)]

\* Slip: the checksum is taken on trust.
SumTrusted(buf, n) == TRUE

SumGood(buf, n) == CheckSum(Payload(buf, n)) = At(buf, 4 + n)

\* Slip: off by one.
LengthNearlyBad(n) == n > UART_MAX_LEN - 4

LengthBad(n) == n >= UART_MAX_LEN - 4

\* What is made of the first len bytes of buf; the header is read even where it
\* is older than they are.
rf_protocol_receive(buf, len) ==
    LET RX_CMD == buf[1]
        RX_LEN == buf[3]
        summed == len > 4 /\ ~LengthBad(RX_LEN)
        good == ~LengthBad(RX_LEN) /\ (summed => SumGood(buf, RX_LEN))
        taken == IF good THEN Taken(RX_CMD) ELSE 0
    IN  [cmd |-> IF good /\ RX_CMD \in Commands THEN RX_CMD ELSE 0,
         data |-> Payload(buf, taken),
         whole |-> good /\ len >= 5 + RX_LEN,
         reach |-> IF summed /\ RX_LEN >= taken THEN 4 + RX_LEN ELSE 3 + taken,
         ack |-> good /\ len = 3 /\ buf[2] = ACK]

-----------------------------------------------------------------------------
(* uart_receive_pro *)

\* What is on the line, up to n bytes, from the first UART_HEAD on.
FromHead(n) ==
    LET heads == {i \in 1 .. n : wire[i][1] = UART_HEAD}
    IN  IF heads = {} THEN << >>
        ELSE SubSeq(wire, CHOOSE i \in heads : \A j \in heads : i <= j, n)

\* Slip: RXDLen goes on from where the last frame left it.
LenKept(len) == len

\* RXDLen after a frame was dealt with, whatever came of it.
LenAfter(len) == 0

uart_receive_pro(n) ==
    LET bytes == FromHead(n)
        room == UART_MAX_LEN - RXDLen
        len == RXDLen + (IF Len(bytes) < room THEN Len(bytes) ELSE room)
        buf == [i \in DOMAIN RXDBuf |-> IF i \in RXDLen .. len - 1 THEN bytes[i - RXDLen + 1][1]
                                        ELSE RXDBuf[i]]
    IN  /\ n \in 1 .. Len(wire)
        /\ wire' = SubSeq(wire, n + 1, Len(wire))
        /\ RXDBuf' = buf
        /\ IF bytes = << >>
           THEN got' = Nothing /\ UNCHANGED RXDLen
           ELSE got' = rf_protocol_receive(buf, len) /\ RXDLen' = LenAfter(len)
        /\ UNCHANGED <<frames, strays>>

-----------------------------------------------------------------------------
(* The module and the line (external) *)

Frame(cmd, data) ==
    <<UART_HEAD, cmd, 0, Len(data)>> \o data \o <<CheckSum(data)>>

\* bytes join what is on the line; first tells what the first of them starts.
OnWire(bytes, first) ==
    /\ Len(wire) + Len(bytes) <= MaxWire
    /\ wire' = wire \o [i \in DOMAIN bytes |-> <<bytes[i], IF i = 1 THEN first ELSE "rest">>]
    /\ UNCHANGED <<RXDBuf, RXDLen, got>>

FrameOnWire(bytes, first) ==
    /\ frames < MaxFrames
    /\ frames' = frames + 1
    /\ OnWire(bytes, first)
    /\ UNCHANGED strays

ModuleSends(m) == FrameOnWire(Frame(m[1], m[2]), "intact")

ModuleAcks == FrameOnWire(<<UART_HEAD, CMD_SET_LINK, ACK>>, "ack")

\* One byte of the payload, or the checksum, is not what it was.
DamagedFrame(m, i) ==
    LET f == Frame(m[1], m[2])
    IN  /\ i \in 5 .. Len(f)
        /\ FrameOnWire([f EXCEPT ![i] = (@ + 1) % 256], "damaged")

StrayByte(b) ==
    /\ strays < MaxStray
    /\ strays' = strays + 1
    /\ OnWire(<<b>>, "stray")
    /\ UNCHANGED frames

Next ==
    \/ \E n \in 1 .. MaxWire : uart_receive_pro(n)
    \/ \E m \in Messages : ModuleSends(m)
    \/ ModuleAcks
    \/ \E m \in Messages, i \in 5 .. UART_MAX_LEN : DamagedFrame(m, i)
    \/ \E b \in Stray : StrayByte(b)

Spec == Init /\ [][Next]_vars

-----------------------------------------------------------------------------
(* Properties *)

\* Bytes are bytes, and between two turns no frame is begun.
TypeOK ==
    /\ RXDBuf \in [0 .. UART_MAX_LEN - 1 -> 0 .. 255]
    /\ RXDLen = 0
    /\ Len(wire) <= MaxWire
    /\ frames \in 0 .. MaxFrames
    /\ strays \in 0 .. MaxStray
    /\ got.cmd \in {0} \cup Commands

\* rf.c:177 "is this possible? Playing it safe for undefined behaviour.": it is
\* possible, and whatever stands where the length is expected, no byte behind
\* RXDBuf is looked at.
ReadsInside == got.reach < UART_MAX_LEN

\* A step that reads, and what it reads from the first UART_HEAD on.
Reads == Len(wire') < Len(wire)
Read == FromHead(Len(wire) - Len(wire'))

\* rf.c:599-636: whatever was read before, cut off, damaged or stray, a turn that
\* finds a whole frame, behind bytes none of which is UART_HEAD and in front of
\* anything, takes exactly its command and payload.
WholeFrameTaken ==
    [][Reads => \A m \in Messages :
         LET f == Frame(m[1], m[2])
         IN  Len(Read) >= Len(f) /\ (\A i \in DOMAIN f : Read[i][1] = f[i])
               => got'.cmd = m[1] /\ got'.data = SubSeq(m[2], 1, Taken(m[1]))]_vars

\* rf.c:180-187: a frame of which one byte of the payload, or the checksum, is not
\* what the module sent is dropped, whatever is in the buffer or behind it.
DamageDropped ==
    [][Reads => \A m \in Messages :
         LET f == Frame(m[1], m[2])
         IN  \A i \in 5 .. Len(f) :
               /\ Len(Read) >= Len(f)
               /\ \A j \in DOMAIN f : Read[j][1] # f[j] <=> j = i
               => got'.cmd = 0]_vars

\* rf.c:180-187: a command whose checksum was among the bytes read is that of an
\* intact frame the module sent: no damaged payload, no mixture of two frames
\* and nothing that starts at a UART_HEAD inside of a frame gets through.
OnlyIntactTaken == [][Reads /\ got'.whole /\ got'.cmd # 0 => Read[1][2] = "intact"]_vars
=============================================================================
