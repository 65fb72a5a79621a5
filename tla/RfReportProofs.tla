--------------------------- MODULE RfReportProofs ----------------------------
(***************************************************************************)
(* Proofs about RfReport, for any number of byte slots, keys, modifier     *)
(* values and queue slots (over 2).                                        *)
(*                                                                         *)
(* The inductive invariant has three parts.  Transport: every copy of a    *)
(* report that is not marked stale is the newest of its command, nothing   *)
(* stale waits in the queue or in a repeat buffer, and the host knows the  *)
(* newest report unless it waits, was thrown away, or an outdated one was  *)
(* sent after it.  Splitting: the static buffers of uart_auto_nkey_send    *)
(* show the report before.  Filter: what QMK last passed on is what is     *)
(* held.  The copy of the report that was taken from the queue last needs  *)
(* a clause of its own: it may be stale, and can be sent again then only   *)
(* if the link came back while the dequeue timer was running.              *)
(***************************************************************************)
EXTENDS RfReport, TLAPS

\* The lemmas about SplitLoop; they do not depend on the variables.
Nkro == INSTANCE NkroSplitProofs WITH
          pre_bit_report <- tx.pre, now_bit_report <- kb, split <- tx.split,
          key_code <- 0, sentByte <- tx.a, sentBit <- {}

-----------------------------------------------------------------------------
(* The invariant *)

Reports == [cmd : Cmd \cup {"NONE"}, data : Held, stale : BOOLEAN]

Transport ==
    [queue : Seq(Reports), a : Reports, b : Reports, buff : Reports,
     repeated : BOOLEAN, do_repeat : BOOLEAN, split : Nkro!Splits, pre : Held,
     last_nkro : Held, last_6kro : Held, host : [KeyCmd -> Held],
     latest : [KeyCmd -> Held], lost : SUBSET KeyCmd, refused : BOOLEAN,
     overwritten : SUBSET (Cmd \cup {"NONE"})]

\* If r is not stale it is the newest report of its command.
Newest(x, r) == ~r.stale /\ r.cmd \in KeyCmd => r.data = x.latest[r.cmd]

\* r may be sent.
Sendable(x, r) == ~r.stale /\ Newest(x, r)

\* The transport x whatever the link does.
Sound(x) ==
    /\ x \in Transport
    /\ \A i \in DOMAIN x.queue : x.queue[i].cmd \in Cmd /\ Sendable(x, x.queue[i])
    /\ Sendable(x, x.a) /\ x.a.cmd \in {"NONE", "BYTE_KB", "BIT_KB"}
    /\ Sendable(x, x.b) /\ x.b.cmd \in {"NONE", "BIT_KB"}
    /\ Newest(x, x.buff)
    /\ \A c \in KeyCmd \ Unknown(x) : x.host[c] = x.latest[c]
    /\ ~x.refused

\* The static buffers show the report before, and the last bit report the bits.
Splitting(x) ==
    /\ Nkro!Shows(x.split, x.pre)
    /\ x.latest["BIT_KB"] = [mods |-> 0, keys |-> x.split.bits]

\* What was last passed on is h, for the kind of report in use.
Filter(x, is_nkro, h) ==
    IF is_nkro
    THEN /\ x.last_nkro = h
         /\ x.pre = h
         /\ x.latest["BYTE_KB"].keys = ByteKeys(x.split)
    ELSE /\ x.last_6kro = h
         /\ x.pre = Released

\* The report taken from the queue last may be sent again only while the queue
\* has not been filled anew.
BuffCurrent ==
    rf_state = "RF_CONNECT" /\ tx.queue # << >> /\ ~dequeue_due /\ ~rejoined
      => ~tx.buff.stale

ReportInv ==
    /\ TypeOK
    /\ nkro \in BOOLEAN
    /\ dequeue_due \in BOOLEAN /\ rejoined \in BOOLEAN
    /\ Sound(tx)
    /\ Splitting(tx)
    /\ Filter(tx, nkro, kb)
    /\ BuffCurrent

-----------------------------------------------------------------------------
(* Clearing *)

\* Everything that clear_report_buffer leaves alone.
SameBut(x, y) ==
    /\ y.split = x.split /\ y.pre = x.pre
    /\ y.last_nkro = x.last_nkro /\ y.last_6kro = x.last_6kro

LEMMA Constants ==
    /\ KeyCmd = {"BYTE_KB", "BIT_KB"}
    /\ Cmd = {"BYTE_KB", "BIT_KB", "EXTRA"}
    /\ Released \in Held
    /\ NoReport \in Reports /\ ~NoReport.stale /\ NoReport.cmd = "NONE"
    /\ \A x : Sendable(x, NoReport)
<1>1. KeyCmd = {"BYTE_KB", "BIT_KB"} /\ Cmd = {"BYTE_KB", "BIT_KB", "EXTRA"}
  BY DEF KeyCmd, Cmd
<1>2. Released \in Held
  BY ReportAssumption DEF Released, Held
<1>3. NoReport \in Reports /\ ~NoReport.stale /\ NoReport.cmd = "NONE"
  BY <1>2 DEF NoReport, Report, Reports
<1> QED
  BY <1>1, <1>2, <1>3 DEF Sendable, Newest

LEMMA ClearSound ==
    ASSUME NEW x, Sound(x)
    PROVE  /\ Sound(clear_report_buffer(x))
           /\ clear_report_buffer(x).queue = << >>
           /\ clear_report_buffer(x).a = NoReport
           /\ clear_report_buffer(x).b = NoReport
           /\ clear_report_buffer(x).latest = x.latest
           /\ clear_report_buffer(x).host = x.host
           /\ SameBut(x, clear_report_buffer(x))
           /\ clear_report_buffer(x).overwritten = x.overwritten
           /\ x.queue = << >> => clear_report_buffer(x).lost = x.lost
<1> DEFINE y == clear_report_buffer(x)
<1>1. x \in Transport /\ Queued(x) \in SUBSET KeyCmd
  BY DEF Sound, Queued
<1>2. << >> \in Seq(Reports) /\ NoReport \in Reports
  BY Constants
<1>3. /\ y \in Transport /\ y.queue = << >> /\ y.a = NoReport /\ y.b = NoReport
      /\ y.latest = x.latest /\ y.host = x.host /\ y.buff = x.buff
      /\ y.refused = x.refused /\ y.overwritten = x.overwritten
      /\ y.lost = x.lost \cup Queued(x)
      /\ SameBut(x, y)
  BY <1>1, <1>2 DEF clear_report_buffer, Transport, SameBut
<1> HIDE DEF y
<1>4. Queued(y) = {}
  BY <1>3 DEF Queued
<1>5. x.queue = << >> => Queued(x) = {}
  BY DEF Queued
<1>6. Sendable(y, y.a) /\ Sendable(y, y.b) /\ Newest(y, y.buff)
  BY <1>3, Constants DEF Sound, Newest
<1>7. Sound(y)
  BY <1>3, <1>4, <1>6, Constants DEF Sound, Unknown
<1> QED
  BY <1>3, <1>5, <1>7 DEF y

-----------------------------------------------------------------------------
(* Sending *)

\* No copy of a report of the command c, but for the one taken from the queue.
NoneOf(x, c) ==
    /\ \A i \in DOMAIN x.queue : x.queue[i].cmd # c
    /\ x.a.cmd # c
    /\ x.b.cmd # c

LEMMA MadeFields ==
    ASSUME NEW x, Sound(x), NEW c \in Cmd, NEW d \in Held, NoneOf(x, c)
    PROVE  LET m == Made(x, Report(c, d))
           IN  /\ m \in Transport
               /\ m.queue = x.queue /\ m.a = x.a /\ m.b = x.b /\ m.host = x.host
               /\ m.buff = Outdated(x.buff, {c})
               /\ m.latest = [e \in KeyCmd |-> IF e = c THEN d ELSE x.latest[e]]
               /\ m.lost = x.lost \ {c}
               /\ m.refused = x.refused /\ m.overwritten = x.overwritten
               /\ SameBut(x, m)
<1> DEFINE r == Report(c, d)
           o == Outdate(x, {c})
           m == Made(x, r)
<1>1. x \in Transport /\ x.queue \in Seq(Reports)
  BY DEF Sound, Transport
<1>2. r.cmd = c /\ r.data = d
  BY DEF Report
<1>3. \A s \in Reports : Outdated(s, {c}) \in Reports /\ (s.cmd # c => Outdated(s, {c}) = s)
  BY DEF Outdated, Reports
<1>4. [i \in DOMAIN x.queue |-> Outdated(x.queue[i], {c})] = x.queue
  <2>0. \A i \in DOMAIN x.queue : x.queue[i] \in Reports
    BY <1>1
  <2>1. \A i \in DOMAIN x.queue : Outdated(x.queue[i], {c}) = x.queue[i]
    BY <1>3, <2>0 DEF NoneOf
  <2>2. x.queue = [i \in DOMAIN x.queue |-> x.queue[i]]
    BY <1>1
  <2> QED
    BY <2>1, <2>2
<1>5. Outdated(x.a, {c}) = x.a /\ Outdated(x.b, {c}) = x.b /\ Outdated(x.buff, {c}) \in Reports
  BY <1>1, <1>3 DEF Transport, NoneOf
<1>6. o = [x EXCEPT !.queue = x.queue, !.a = x.a, !.b = x.b, !.buff = Outdated(x.buff, {c})]
  BY <1>4, <1>5 DEF Outdate
<1>7. /\ o \in Transport
      /\ o.queue = x.queue /\ o.a = x.a /\ o.b = x.b /\ o.host = x.host
      /\ o.buff = Outdated(x.buff, {c}) /\ o.latest = x.latest /\ o.lost = x.lost
      /\ o.refused = x.refused /\ o.overwritten = x.overwritten
      /\ SameBut(x, o)
  BY <1>1, <1>5, <1>6, ZenonT(30) DEF Transport, SameBut
<1> HIDE DEF o, r
<1>8. CASE c \notin KeyCmd
  <2>1. m = o
    BY <1>2, <1>8 DEF Made, o
  <2>2. x.latest = [e \in KeyCmd |-> IF e = c THEN d ELSE x.latest[e]]
    BY <1>1, <1>8 DEF Transport
  <2>3. x.lost = x.lost \ {c}
    BY <1>1, <1>8 DEF Transport
  <2> QED
    BY <1>7, <2>1, <2>2, <2>3 DEF r
<1>9. CASE c \in KeyCmd
  <2> DEFINE l == [o.latest EXCEPT ![c] = d]
  <2>1. m = [o EXCEPT !.latest = l, !.lost = o.lost \ {c}]
    BY <1>2, <1>9 DEF Made, o
  <2>2. l = [e \in KeyCmd |-> IF e = c THEN d ELSE x.latest[e]] /\ l \in [KeyCmd -> Held]
    BY <1>1, <1>7, <1>9 DEF Transport
  <2> HIDE DEF l
  <2>3. /\ m \in Transport
        /\ m.queue = o.queue /\ m.a = o.a /\ m.b = o.b /\ m.host = o.host
        /\ m.buff = o.buff /\ m.latest = l /\ m.lost = o.lost \ {c}
        /\ m.refused = o.refused /\ m.overwritten = o.overwritten
        /\ SameBut(o, m)
    BY <1>7, <2>1, <2>2 DEF Transport, SameBut
  <2> QED
    BY <1>7, <2>2, <2>3 DEF r, SameBut
<1> QED
  BY <1>8, <1>9

\* What a send needs, and what it leaves behind.
SendResult(x, y, c, d) ==
    /\ Sound(y)
    /\ y.a = x.a /\ y.b = x.b
    /\ y.latest = [e \in KeyCmd |-> IF e = c THEN d ELSE x.latest[e]]
    /\ SameBut(x, y)
    /\ y.overwritten \subseteq x.overwritten
    /\ Len(y.queue) <= Len(x.queue) + 1
    /\ \A i \in DOMAIN y.queue : y.queue[i].cmd = c
                                  \/ \E j \in DOMAIN x.queue : y.queue[i].cmd = x.queue[j].cmd
    /\ rf_state = "RF_CONNECT" /\ x.queue = << >> => y.queue = << >>
    /\ rf_state = "RF_CONNECT" /\ x.queue = << >> /\ f_dial_sw_init_ok /\ x.lost = {}
         => y.lost = {}

LEMMA SendSound ==
    ASSUME NEW x, Sound(x), NEW c \in Cmd, NEW d \in Held, NoneOf(x, c), Len(x.queue) <= 1
    PROVE  SendResult(x, send_or_queue(Made(x, Report(c, d)), Report(c, d)), c, d)
<1> DEFINE r == Report(c, d)
           m == Made(x, r)
           y == send_or_queue(m, r)
           late == [e \in KeyCmd |-> IF e = c THEN d ELSE x.latest[e]]
<1>1. r \in Reports /\ r.cmd = c /\ r.data = d /\ ~r.stale
  BY DEF Report, Reports
<1>2. /\ m \in Transport
      /\ m.queue = x.queue /\ m.a = x.a /\ m.b = x.b /\ m.host = x.host
      /\ m.buff = Outdated(x.buff, {c})
      /\ m.latest = late
      /\ m.lost = x.lost \ {c}
      /\ m.refused = x.refused /\ m.overwritten = x.overwritten
      /\ SameBut(x, m)
  BY MadeFields
<1> SUFFICES SendResult(x, y, c, d)
  OBVIOUS
<1> HIDE DEF m, r, y
<1>3. \A z, s : z.latest = late /\ s.cmd # c /\ Newest(x, s) => Newest(z, s)
  BY DEF Newest
<1>4. \A z : z.latest = late => Newest(z, r)
  BY <1>1 DEF Newest
<1>5. \A z : z.latest = late => Newest(z, m.buff)
  <2>1. x.buff \in Reports /\ Newest(x, x.buff)
    BY DEF Sound, Transport
  <2>2. CASE x.buff.cmd = c
    <3>1. m.buff.stale
      BY <1>2, <2>1, <2>2 DEF Outdated, Reports
    <3> QED
      BY <3>1 DEF Newest
  <2>3. CASE x.buff.cmd # c
    BY <1>2, <1>3, <2>1, <2>3 DEF Outdated
  <2> QED
    BY <2>2, <2>3
<1>6. \A z : z.latest = late /\ z.queue = x.queue
        => \A i \in DOMAIN z.queue : z.queue[i].cmd \in Cmd /\ Sendable(z, z.queue[i])
  BY <1>3 DEF Sound, NoneOf, Sendable
<1>7. \A z : z.latest = late => Sendable(z, x.a) /\ Sendable(z, x.b)
  BY <1>3 DEF Sound, NoneOf, Sendable
<1>8. \A e \in KeyCmd \ (m.lost \cup x.overwritten \cup Queued(x) \cup {c}) : m.host[e] = late[e]
  BY <1>2 DEF Sound, Unknown
<1>9. CASE rf_state = "RF_CONNECT" /\ x.queue = << >>
  <2> DEFINE z == [m EXCEPT !.lost = m.lost \cup ({c} \cap KeyCmd)]
  <2>1. y = uart_send_report(z, r)
    BY <1>1, <1>2, <1>9 DEF send_or_queue, y
  <2>2. /\ z \in Transport
        /\ z.queue = x.queue /\ z.a = x.a /\ z.b = x.b /\ z.host = x.host /\ z.buff = m.buff
        /\ z.latest = late /\ z.lost = m.lost \cup ({c} \cap KeyCmd)
        /\ z.refused = x.refused /\ z.overwritten = x.overwritten
        /\ SameBut(x, z)
    BY <1>2 DEF Transport, SameBut
  <2> HIDE DEF z
  <2>3. Queued(z) = {} /\ Queued(x) = {}
    BY <1>9, <2>2 DEF Queued
  <2>4. Sound(z)
    <3>1. \A e \in KeyCmd \ Unknown(z) : z.host[e] = z.latest[e]
      BY <1>2, <1>8, <2>2, <2>3 DEF Unknown
    <3> QED
      BY <1>5, <1>6, <1>7, <1>2, <2>2, <3>1, ZenonT(30) DEF Sound
  <2>5. CASE ~f_dial_sw_init_ok
    <3>1. y = z
      BY <2>1, <2>5 DEF uart_send_report
    <3>2. y.queue = << >> /\ Len(y.queue) <= Len(x.queue) + 1
      BY <1>9, <2>2, <3>1
    <3> QED
      BY <1>9, <2>2, <2>4, <2>5, <3>1, <3>2 DEF SendResult
  <2>6. CASE f_dial_sw_init_ok
    <3> DEFINE h == [e \in KeyCmd |-> IF e = r.cmd THEN r.data ELSE z.host[e]]
    <3>1. y = [z EXCEPT !.host = h,
                        !.lost = IF r.stale THEN z.lost ELSE z.lost \ {r.cmd},
                        !.overwritten = IF r.stale THEN z.overwritten \cup {r.cmd}
                                        ELSE z.overwritten \ {r.cmd}]
      BY <1>9, <2>1, <2>6 DEF uart_send_report
    <3>2. h \in [KeyCmd -> Held]
      BY <1>1, <2>2 DEF Transport
    <3>3. \A e \in KeyCmd : h[e] = IF e = c THEN d ELSE x.host[e]
      BY <1>1, <2>2
    <3> HIDE DEF h
    <3>4. /\ y \in Transport
          /\ y.queue = z.queue /\ y.a = z.a /\ y.b = z.b /\ y.host = h /\ y.buff = z.buff
          /\ y.latest = z.latest /\ y.lost = z.lost \ {c}
          /\ y.refused = z.refused /\ y.overwritten = z.overwritten \ {c}
          /\ SameBut(z, y)
      BY <1>1, <2>2, <3>1, <3>2 DEF Transport, SameBut
    <3>5. Queued(y) = {}
      BY <2>3, <3>4 DEF Queued
    <3>6. \A e \in KeyCmd \ Unknown(y) : y.host[e] = y.latest[e]
      BY <1>2, <1>8, <2>2, <2>3, <3>3, <3>4, <3>5 DEF Unknown
    <3>7. Sound(y)
      BY <1>5, <1>6, <1>7, <2>2, <2>4, <3>4, <3>6 DEF Sound
    <3>8. x.lost = {} => y.lost = {}
      BY <1>2, <2>2, <3>4
    <3>9. y.queue = << >> /\ Len(y.queue) <= Len(x.queue) + 1 /\ SameBut(x, y)
          /\ y.overwritten \subseteq x.overwritten
      BY <1>9, <2>2, <3>4 DEF SameBut
    <3> QED
      BY <1>9, <2>2, <3>4, <3>7, <3>8, <3>9 DEF SendResult
  <2> QED
    BY <2>5, <2>6
<1>10. CASE ~(rf_state = "RF_CONNECT" /\ x.queue = << >>)
  <2>0. x.queue \in Seq(Reports) /\ Len(x.queue) \in Nat
    BY DEF Sound, Transport
  <2>1. y = enqueue(m, r)
    BY <1>2, <1>10 DEF send_or_queue, y
  <2>2. Len(m.queue) < RF_QUEUE_SIZE - 1
    BY <1>2, <2>0, QueueAssumption
  <2>3. y = [m EXCEPT !.queue = Append(m.queue, r)]
    BY <2>1, <2>2 DEF enqueue
  <2>4. Append(x.queue, r) \in Seq(Reports)
    BY <1>1, <2>0
  <2>5. /\ y \in Transport
        /\ y.queue = Append(x.queue, r) /\ y.a = x.a /\ y.b = x.b /\ y.host = x.host
        /\ y.buff = m.buff /\ y.latest = late /\ y.lost = m.lost
        /\ y.refused = x.refused /\ y.overwritten = x.overwritten
        /\ SameBut(x, y)
    BY <1>2, <2>3, <2>4 DEF Transport, SameBut
  <2>6. \A i \in DOMAIN y.queue :
          \/ y.queue[i] = r
          \/ \E j \in DOMAIN x.queue : y.queue[i] = x.queue[j]
    BY <1>1, <2>0, <2>5
  <2>7. /\ Len(y.queue) \in DOMAIN y.queue /\ y.queue[Len(y.queue)] = r
        /\ \A j \in DOMAIN x.queue : j \in DOMAIN y.queue /\ y.queue[j] = x.queue[j]
    BY <1>1, <2>0, <2>5
  <2>8. \A j \in DOMAIN x.queue : x.queue[j].cmd \in Cmd /\ Sendable(y, x.queue[j])
    BY <1>3, <2>5 DEF Sound, NoneOf, Sendable
  <2>9. \A i \in DOMAIN y.queue : y.queue[i].cmd \in Cmd /\ Sendable(y, y.queue[i])
    BY <1>1, <1>4, <2>5, <2>6, <2>8 DEF Sendable
  <2>10. Queued(x) \cup ({c} \cap KeyCmd) \subseteq Queued(y)
    BY <1>1, <2>7 DEF Queued
  <2>11. \A e \in KeyCmd \ Unknown(y) : y.host[e] = y.latest[e]
    BY <1>2, <1>8, <2>5, <2>10 DEF Unknown
  <2>12. Sound(y)
    BY <1>5, <1>7, <2>5, <2>9, <2>11 DEF Sound
  <2>13. Len(y.queue) <= Len(x.queue) + 1
    BY <2>0, <2>5
  <2> QED
    BY <1>1, <1>10, <2>5, <2>6, <2>12, <2>13 DEF SendResult
<1> QED
  BY <1>9, <1>10

-----------------------------------------------------------------------------
(* The split *)

\* uart_auto_nkey_send starts from buffers that show the report before and ends
\* with buffers that show the new one; what is not due has not changed.
LEMMA SplitShows ==
    ASSUME NEW s, NEW pre \in Held, NEW now \in Held, Nkro!Shows(s, pre)
    PROVE  /\ Nkro!Shows(SplitLoop(s, pre, now), now)
           /\ Nkro!UnlessDue(s, SplitLoop(s, pre, now))
<1>1. SplitLoop(s, pre, now) = Nkro!SplitLoop(s, pre, now)
  BY Zenon DEF SplitLoop, Nkro!SplitLoop, SplitRun, Nkro!SplitRun, ModsStep, Nkro!ModsStep,
     KeyStep, Nkro!KeyStep, AddKey, Nkro!AddKey, DelKey, Nkro!DelKey, PutSlot, Nkro!PutSlot,
     PutBits, Nkro!PutBits, SlotsHolding, Nkro!SlotsHolding, ByteSlot, Nkro!ByteSlot,
     NoKey, Nkro!NoKey, Min, Nkro!Min
<1>2. pre \in Nkro!NkroReports /\ now \in Nkro!NkroReports
  BY DEF Held, Nkro!NkroReports, Key, Nkro!Key
<1> QED
  BY <1>1, <1>2, ReportAssumption, Nkro!SplitLoopShows

\* The keys in the slots of buffers that show r are keys, and with the bits they
\* are the keys of r.
LEMMA SplitKeys ==
    ASSUME NEW s, NEW r, Nkro!Shows(s, r)
    PROVE  /\ s.mods \in Mods /\ s.bits \in SUBSET Key /\ ByteKeys(s) \in SUBSET Key
           /\ ByteKeys(s) = {s.slots[i] : i \in ByteSlot} \ {NoKey}
           /\ r.keys \in SUBSET Key => ByteKeys(s) \cup s.bits = r.keys
<1>0. Nkro!Key = Key /\ Nkro!ByteSlot = ByteSlot /\ Nkro!NoKey = NoKey
  BY DEF Nkro!Key, Key, Nkro!ByteSlot, ByteSlot, Nkro!NoKey, NoKey
<1>1. s \in Nkro!Splits /\ \A k \in Key : Nkro!Holds(s, k) <=> k \in r.keys
  BY <1>0 DEF Nkro!Shows
<1>2. /\ s.mods \in Mods /\ s.bits \in SUBSET Key
      /\ s.slots \in [ByteSlot -> Key \cup {NoKey}]
  BY <1>0, <1>1 DEF Nkro!Splits
<1>3. ByteKeys(s) = {s.slots[i] : i \in ByteSlot} \ {NoKey}
  BY <1>2 DEF ByteKeys, Range
<1>4. NoKey \notin Key
  BY DEF Key, NoKey
<1>5. \A k \in Key : Nkro!Holds(s, k) <=> k \in ByteKeys(s) \cup s.bits
  BY <1>0, <1>3, <1>4 DEF Nkro!Holds
<1>6. ByteKeys(s) \in SUBSET Key
  BY <1>2, <1>3
<1>7. r.keys \in SUBSET Key => ByteKeys(s) \cup s.bits = r.keys
  BY <1>1, <1>2, <1>5, <1>6
<1> QED
  BY <1>2, <1>3, <1>6, <1>7

-----------------------------------------------------------------------------
(* The calls of rf_driver.c *)

\* A repeat buffer gets a copy of the newest report.
LEMMA SetBuffers ==
    ASSUME NEW x, Sound(x), NEW r \in Reports, Sendable(x, r), r.cmd \in KeyCmd
    PROVE  /\ Sound([x EXCEPT !.a = r])
           /\ r.cmd = "BIT_KB" => Sound([x EXCEPT !.b = r])
<1>1. x \in Transport
  BY DEF Sound
<1>2. ASSUME NEW y \in Transport, y.queue = x.queue, y.buff = x.buff, y.latest = x.latest,
             y.host = x.host, y.lost = x.lost, y.refused = x.refused, y.overwritten = x.overwritten,
             y.a \in {x.a, r}, y.b = x.b \/ (y.b = r /\ r.cmd = "BIT_KB")
      PROVE  Sound(y)
  <2>1. Queued(y) = Queued(x)
    BY <1>2 DEF Queued
  <2> QED
    BY <1>2, <2>1, Constants DEF Sound, Sendable, Newest, Unknown
<1>3. Sound([x EXCEPT !.a = r])
  <2> DEFINE y == [x EXCEPT !.a = r]
  <2>1. y \in Transport /\ y.queue = x.queue /\ y.buff = x.buff /\ y.latest = x.latest
        /\ y.host = x.host /\ y.lost = x.lost /\ y.refused = x.refused
        /\ y.overwritten = x.overwritten /\ y.a = r /\ y.b = x.b
    BY <1>1 DEF Transport
  <2> HIDE DEF y
  <2>2. Sound(y)
    BY <1>2, <2>1
  <2> QED
    BY <2>2 DEF y
<1>4. ASSUME r.cmd = "BIT_KB"
      PROVE  Sound([x EXCEPT !.b = r])
  <2> DEFINE y == [x EXCEPT !.b = r]
  <2>1. y \in Transport /\ y.queue = x.queue /\ y.buff = x.buff /\ y.latest = x.latest
        /\ y.host = x.host /\ y.lost = x.lost /\ y.refused = x.refused
        /\ y.overwritten = x.overwritten /\ y.a = x.a /\ y.b = r
    BY <1>1 DEF Transport
  <2> HIDE DEF y
  <2>2. Sound(y)
    BY <1>2, <1>4, <2>1
  <2> QED
    BY <2>2 DEF y
<1> QED
  BY <1>3, <1>4

\* While the link is up a call leaves nothing in the queue, and if nothing waited
\* or was lost before, nothing is.  No outdated report is sent.
Delivered(x, y) ==
    /\ y.overwritten \subseteq x.overwritten
    /\ rf_state = "RF_CONNECT" => y.queue = << >>
    /\ rf_state = "RF_CONNECT" /\ f_dial_sw_init_ok /\ x.queue = << >> /\ x.lost = {}
         => y.lost = {}

LEMMA DeliveredTransitive ==
    ASSUME NEW x, NEW y, NEW z, Delivered(x, y), Delivered(y, z)
    PROVE  Delivered(x, z)
  BY DEF Delivered

LEMMA KeyboardSent ==
    ASSUME NEW x, Sound(x), NEW d \in Held
    PROVE  LET y == rf_send_keyboard(x, d)
           IN  /\ Sound(y) /\ Delivered(x, y) /\ SameBut(x, y)
               /\ y.latest["BYTE_KB"] = d
               /\ y.latest["BIT_KB"] = x.latest["BIT_KB"]
<1> DEFINE r == Report("BYTE_KB", d)
           c == clear_report_buffer(x)
           w == send_or_queue(Made(c, r), r)
           y == [w EXCEPT !.a = r]
<1>1. Sound(c) /\ c.queue = << >> /\ c.a = NoReport /\ c.b = NoReport
      /\ c.latest = x.latest /\ SameBut(x, c) /\ (x.queue = << >> => c.lost = x.lost)
      /\ c.overwritten = x.overwritten
  BY ClearSound
<1>2. y = rf_send_keyboard(x, d)
  BY DEF rf_send_keyboard
<1> HIDE DEF c
<1>3. NoneOf(c, "BYTE_KB") /\ Len(c.queue) <= 1
  BY <1>1, Constants DEF NoneOf
<1>4. SendResult(c, w, "BYTE_KB", d)
  BY <1>1, <1>3, SendSound, Constants
<1>5. r \in Reports /\ r.cmd = "BYTE_KB" /\ r.data = d /\ ~r.stale
  BY Constants DEF Report, Reports
<1> HIDE DEF w, r
<1>6. /\ w.latest["BYTE_KB"] = d /\ w.latest["BIT_KB"] = x.latest["BIT_KB"]
      /\ Sound(w) /\ w \in Transport /\ SameBut(x, w)
  BY <1>1, <1>4, Constants DEF SendResult, Sound, SameBut
<1>7. Sendable(w, r)
  BY <1>5, <1>6 DEF Sendable, Newest
<1>8. Sound(y)
  BY <1>5, <1>6, <1>7, SetBuffers, Constants
<1>9. y.queue = w.queue /\ y.lost = w.lost /\ y.latest = w.latest /\ SameBut(w, y)
      /\ y.overwritten = w.overwritten
  BY <1>6 DEF Transport, SameBut
<1>10. Delivered(x, y)
  BY <1>1, <1>4, <1>9 DEF Delivered, SendResult
<1> HIDE DEF y
<1> QED
  BY <1>2, <1>6, <1>8, <1>9, <1>10 DEF SameBut

LEMMA ExtraSent ==
    ASSUME NEW x, Sound(x)
    PROVE  LET y == rf_send_extra(x)
           IN  /\ Sound(y) /\ Delivered(x, y) /\ SameBut(x, y)
               /\ y.latest = x.latest
<1> DEFINE r == Report("EXTRA", Released)
           c == clear_report_buffer(x)
           y == send_or_queue(Made(c, r), r)
<1>1. Sound(c) /\ c.queue = << >> /\ c.a = NoReport /\ c.b = NoReport
      /\ c.latest = x.latest /\ SameBut(x, c) /\ (x.queue = << >> => c.lost = x.lost)
      /\ c.overwritten = x.overwritten
  BY ClearSound
<1>2. y = rf_send_extra(x)
  BY DEF rf_send_extra
<1> HIDE DEF c
<1>3. NoneOf(c, "EXTRA") /\ Len(c.queue) <= 1
  BY <1>1, Constants DEF NoneOf
<1>4. SendResult(c, y, "EXTRA", Released)
  BY <1>1, <1>3, SendSound, Constants
<1> HIDE DEF y
<1>5. y.latest = x.latest
  <2>1. c.latest \in [KeyCmd -> Held] /\ "EXTRA" \notin KeyCmd
    BY <1>1, Constants DEF Sound, Transport
  <2> QED
    BY <1>1, <1>4, <2>1 DEF SendResult
<1>6. Delivered(x, y) /\ SameBut(x, y) /\ Sound(y)
  BY <1>1, <1>4 DEF Delivered, SendResult, SameBut
<1> QED
  BY <1>2, <1>5, <1>6

\* The last byte report shows the keys in the slots.
BytesShown(x) == x.latest["BYTE_KB"].keys = ByteKeys(x.split)

\* rf_driver.c:62-131: both reports of one call, each only if it is due.
LEMMA NkroSent ==
    ASSUME NEW x, Sound(x), Splitting(x), NEW d \in Held
    PROVE  LET y == rf_send_nkro(x, d)
           IN  /\ Sound(y) /\ Delivered(x, y) /\ Splitting(y)
               /\ y.pre = d /\ y.last_nkro = x.last_nkro /\ y.last_6kro = x.last_6kro
               /\ BytesShown(x) => BytesShown(y)
<1> DEFINE c == clear_report_buffer(x)
           s == SplitLoop(c.split, c.pre, d)
           q == [s EXCEPT !.due = {}]
           v == [c EXCEPT !.split = q, !.pre = d]
           byte == Report("BYTE_KB", [mods |-> s.mods, keys |-> ByteKeys(s)])
           bit == Report("BIT_KB", [mods |-> 0, keys |-> s.bits])
           w == send_or_queue(Made(v, byte), byte)
           z == IF "byte" \in s.due THEN [w EXCEPT !.a = byte] ELSE v
           u == send_or_queue(Made(z, bit), bit)
           y == IF "bit" \in s.due THEN [u EXCEPT !.b = bit] ELSE z
<1>1. Sound(c) /\ c.queue = << >> /\ c.a = NoReport /\ c.b = NoReport
      /\ c.latest = x.latest /\ SameBut(x, c) /\ (x.queue = << >> => c.lost = x.lost)
      /\ c.overwritten = x.overwritten
  BY ClearSound
<1>2. y = rf_send_nkro(x, d)
  BY DEF rf_send_nkro, uart_auto_nkey_send
<1> HIDE DEF c
<1>3. /\ Nkro!Shows(c.split, c.pre) /\ c.pre \in Held /\ c.split \in Nkro!Splits
      /\ c.latest["BIT_KB"] = [mods |-> 0, keys |-> c.split.bits]
  BY <1>1 DEF Splitting, SameBut, Sound, Transport, Nkro!Shows
<1>4. Nkro!Shows(s, d) /\ Nkro!UnlessDue(c.split, s)
  BY <1>3, SplitShows
<1> HIDE DEF s
<1>5. /\ s \in Nkro!Splits /\ s.mods \in Mods /\ s.bits \in SUBSET Key
      /\ ByteKeys(s) \in SUBSET Key
  BY <1>4, SplitKeys DEF Nkro!Shows
<1>6. q \in Nkro!Splits /\ q.slots = s.slots /\ q.bits = s.bits /\ q.mods = s.mods
  BY <1>5 DEF Nkro!Splits
<1> HIDE DEF q
<1>7. Nkro!Shows(q, d) /\ ByteKeys(q) = ByteKeys(s)
  BY <1>4, <1>6 DEF Nkro!Shows, Nkro!OnePlace, Nkro!Holds, ByteKeys
<1>8. /\ byte \in Reports /\ byte.cmd = "BYTE_KB" /\ byte.data \in Held /\ ~byte.stale
      /\ byte.data.keys = ByteKeys(s)
  BY <1>5, Constants DEF Report, Reports, Held
<1>9. /\ bit \in Reports /\ bit.cmd = "BIT_KB" /\ bit.data \in Held /\ ~bit.stale
      /\ bit.data = [mods |-> 0, keys |-> s.bits]
  BY <1>5, Constants, ReportAssumption DEF Report, Reports, Held
<1>10. byte = Report("BYTE_KB", byte.data) /\ bit = Report("BIT_KB", bit.data)
  BY DEF Report
<1> HIDE DEF byte, bit
<1>11. /\ v \in Transport /\ v.queue = << >> /\ v.a = NoReport /\ v.b = NoReport
       /\ v.latest = x.latest /\ v.lost = c.lost /\ v.split = q /\ v.pre = d
       /\ v.last_nkro = x.last_nkro /\ v.last_6kro = x.last_6kro
       /\ v.buff = c.buff /\ v.host = c.host /\ v.refused = c.refused
       /\ v.overwritten = c.overwritten
  BY <1>1, <1>6 DEF Sound, Transport, SameBut
<1> HIDE DEF v
<1>12. Sound(v)
  <2>1. Queued(v) = Queued(c)
    BY <1>1, <1>11 DEF Queued
  <2> QED
    BY <1>1, <1>11, <2>1 DEF Sound, Sendable, Newest, Unknown
<1>13. /\ Sound(z) /\ NoneOf(z, "BIT_KB") /\ Len(z.queue) <= 1
       /\ Delivered(v, z) /\ SameBut(v, z)
       /\ z.latest["BIT_KB"] = x.latest["BIT_KB"]
       /\ z.latest["BYTE_KB"] = IF "byte" \in s.due THEN byte.data ELSE x.latest["BYTE_KB"]
  <2>1. CASE "byte" \in s.due
    <3>1. NoneOf(v, "BYTE_KB") /\ Len(v.queue) <= 1
      BY <1>11, Constants DEF NoneOf
    <3>2. SendResult(v, w, "BYTE_KB", byte.data)
      BY <1>8, <1>10, <1>12, <3>1, SendSound, Constants
    <3> HIDE DEF w
    <3>3. /\ w.latest["BYTE_KB"] = byte.data /\ w.latest["BIT_KB"] = x.latest["BIT_KB"]
          /\ Sound(w) /\ w \in Transport /\ SameBut(v, w) /\ w.b = NoReport
      BY <1>11, <3>2, Constants DEF SendResult, Sound
    <3>4. Sendable(w, byte)
      BY <1>8, <3>3 DEF Sendable, Newest
    <3>5. z = [w EXCEPT !.a = byte]
      BY <2>1
    <3> HIDE DEF z
    <3>6. Sound(z)
      BY <1>8, <3>3, <3>4, <3>5, SetBuffers, Constants
    <3>7. z.queue = w.queue /\ z.lost = w.lost /\ z.latest = w.latest /\ SameBut(w, z)
          /\ z.a = byte /\ z.b = NoReport /\ z.overwritten = w.overwritten
      BY <3>3, <3>5 DEF Transport, SameBut
    <3>8. \A i \in DOMAIN w.queue : w.queue[i].cmd = "BYTE_KB"
      BY <1>11, <3>2 DEF SendResult
    <3>9. NoneOf(z, "BIT_KB")
      BY <1>8, <3>7, <3>8, Constants DEF NoneOf
    <3>10. Len(z.queue) <= 1
      BY <1>11, <3>2, <3>7 DEF SendResult
    <3>11. Delivered(v, z) /\ SameBut(v, z)
      BY <1>11, <3>2, <3>3, <3>7 DEF Delivered, SendResult, SameBut
    <3> QED
      BY <2>1, <3>3, <3>6, <3>7, <3>9, <3>10, <3>11
  <2>2. CASE "byte" \notin s.due
    <3>1. z = v
      BY <2>2
    <3>2. NoneOf(v, "BIT_KB") /\ Len(v.queue) <= 1 /\ Delivered(v, v) /\ SameBut(v, v)
      BY <1>11, Constants DEF NoneOf, Delivered, SameBut
    <3> QED
      BY <1>11, <1>12, <2>2, <3>1, <3>2
  <2> QED
    BY <2>1, <2>2
<1> HIDE DEF z
<1>14. /\ Sound(y) /\ Delivered(v, y) /\ SameBut(v, y)
       /\ y.latest["BYTE_KB"] = z.latest["BYTE_KB"]
       /\ y.latest["BIT_KB"] = IF "bit" \in s.due THEN bit.data ELSE x.latest["BIT_KB"]
  <2>1. CASE "bit" \in s.due
    <3>1. SendResult(z, u, "BIT_KB", bit.data)
      BY <1>9, <1>10, <1>13, SendSound, Constants
    <3> HIDE DEF u
    <3>2. /\ u.latest["BIT_KB"] = bit.data /\ u.latest["BYTE_KB"] = z.latest["BYTE_KB"]
          /\ Sound(u) /\ u \in Transport /\ SameBut(v, u)
      BY <1>13, <3>1, Constants DEF SendResult, Sound, SameBut
    <3>3. Sendable(u, bit)
      BY <1>9, <3>2 DEF Sendable, Newest
    <3>4. y = [u EXCEPT !.b = bit]
      BY <2>1
    <3> HIDE DEF y
    <3>5. Sound(y)
      BY <1>9, <3>2, <3>3, <3>4, SetBuffers, Constants
    <3>6. y.queue = u.queue /\ y.lost = u.lost /\ y.latest = u.latest /\ SameBut(u, y)
          /\ y.overwritten = u.overwritten
      BY <3>2, <3>4 DEF Transport, SameBut
    <3>7. Delivered(z, y)
      BY <1>11, <1>13, <3>1, <3>6 DEF Delivered, SendResult
    <3> QED
      BY <1>13, <2>1, <3>2, <3>5, <3>6, <3>7, DeliveredTransitive DEF SameBut
  <2>2. CASE "bit" \notin s.due
    BY <1>13, <2>2
  <2> QED
    BY <2>1, <2>2
<1> HIDE DEF y
<1>15. y.split = q /\ y.pre = d /\ y.last_nkro = x.last_nkro /\ y.last_6kro = x.last_6kro
  BY <1>11, <1>14 DEF SameBut
<1>16. Splitting(y)
  <2>1. "bit" \notin s.due => s.bits = c.split.bits
    BY <1>4 DEF Nkro!UnlessDue
  <2> QED
    BY <1>1, <1>3, <1>6, <1>7, <1>9, <1>14, <1>15, <2>1 DEF Splitting
<1>17. BytesShown(x) => BytesShown(y)
  <2>1. "byte" \notin s.due => ByteKeys(s) = ByteKeys(x.split)
    BY <1>1, <1>4 DEF Nkro!UnlessDue, ByteKeys, SameBut
  <2> QED
    BY <1>7, <1>8, <1>13, <1>14, <1>15, <2>1 DEF BytesShown
<1>18. Delivered(x, y)
  BY <1>1, <1>11, <1>14 DEF Delivered
<1> QED
  BY <1>2, <1>14, <1>15, <1>16, <1>17, <1>18

-----------------------------------------------------------------------------
(* The report layer and break_all_key *)

LEMMA SetLast ==
    ASSUME NEW x, Sound(x), Splitting(x), NEW d \in Held
    PROVE  LET y == [x EXCEPT !.last_nkro = d]
               z == [x EXCEPT !.last_6kro = d]
           IN  /\ Sound(y) /\ Splitting(y) /\ y.last_nkro = d /\ y.last_6kro = x.last_6kro
               /\ Sound(z) /\ Splitting(z) /\ z.last_6kro = d /\ z.last_nkro = x.last_nkro
               /\ y.split = x.split /\ y.pre = x.pre /\ y.latest = x.latest
               /\ z.split = x.split /\ z.pre = x.pre /\ z.latest = x.latest
               /\ y.queue = x.queue /\ y.lost = x.lost /\ z.queue = x.queue /\ z.lost = x.lost
               /\ y.overwritten = x.overwritten /\ z.overwritten = x.overwritten
<1> DEFINE y == [x EXCEPT !.last_nkro = d]
           z == [x EXCEPT !.last_6kro = d]
<1>1. ASSUME NEW v \in Transport, v.queue = x.queue, v.a = x.a, v.b = x.b, v.buff = x.buff,
             v.latest = x.latest, v.host = x.host, v.lost = x.lost, v.refused = x.refused,
             v.overwritten = x.overwritten
      PROVE  Sound(v)
  <2>1. Queued(v) = Queued(x)
    BY <1>1 DEF Queued
  <2> QED
    BY <1>1, <2>1 DEF Sound, Sendable, Newest, Unknown
<1>2. y \in Transport /\ y.queue = x.queue /\ y.a = x.a /\ y.b = x.b /\ y.buff = x.buff
      /\ y.latest = x.latest /\ y.host = x.host /\ y.lost = x.lost /\ y.refused = x.refused
      /\ y.overwritten = x.overwritten /\ y.split = x.split /\ y.pre = x.pre
      /\ y.last_nkro = d /\ y.last_6kro = x.last_6kro
  BY DEF Sound, Transport
<1>3. z \in Transport /\ z.queue = x.queue /\ z.a = x.a /\ z.b = x.b /\ z.buff = x.buff
      /\ z.latest = x.latest /\ z.host = x.host /\ z.lost = x.lost /\ z.refused = x.refused
      /\ z.overwritten = x.overwritten /\ z.split = x.split /\ z.pre = x.pre
      /\ z.last_6kro = d /\ z.last_nkro = x.last_nkro
  BY DEF Sound, Transport
<1> HIDE DEF y, z
<1>4. Sound(y) /\ Sound(z) /\ Splitting(y) /\ Splitting(z)
  BY <1>1, <1>2, <1>3 DEF Splitting
<1> QED
  BY <1>2, <1>3, <1>4 DEF y, z

\* Nothing waits and nothing is lost afterwards if so before, with the link up.
\* No outdated report is sent.
Kept(x, y) ==
    /\ y.overwritten \subseteq x.overwritten
    /\ rf_state = "RF_CONNECT" /\ f_dial_sw_init_ok /\ x.queue = << >> /\ x.lost = {}
         => y.queue = << >> /\ y.lost = {}

\* quantum/action_util.c:285-312
LEMMA ReportSent ==
    ASSUME NEW x, Sound(x), Splitting(x), NEW n \in BOOLEAN, NEW d \in Held
    PROVE  LET y == send_keyboard_report(x, n, d)
           IN  /\ Sound(y) /\ Splitting(y) /\ Kept(x, y)
               /\ (IF n THEN y.last_nkro ELSE y.last_6kro) = d
               /\ \A h : Filter(x, n, h) => Filter(y, n, d)
               /\ \A h : Filter(x, n, h) /\ h # d =>
                    /\ rf_state = "RF_CONNECT" => y.queue = << >>
                    /\ IF n THEN y.pre = d ELSE y.latest["BYTE_KB"] = d
<1> DEFINE y == send_keyboard_report(x, n, d)
           p == [x EXCEPT !.last_nkro = d]
           q == [x EXCEPT !.last_6kro = d]
<1>1. CASE n /\ d = x.last_nkro
  <2>1. y = x
    BY <1>1 DEF send_keyboard_report
  <2> QED
    BY <1>1, <2>1 DEF Kept, Filter
<1>2. CASE n /\ d # x.last_nkro
  <2>1. y = rf_send_nkro(p, d)
    BY <1>2 DEF send_keyboard_report
  <2>2. Sound(p) /\ Splitting(p) /\ p.last_nkro = d /\ p.split = x.split
        /\ p.latest = x.latest /\ p.queue = x.queue /\ p.lost = x.lost
        /\ p.overwritten = x.overwritten
    BY SetLast
  <2> HIDE DEF p, y
  <2>3. /\ Sound(y) /\ Delivered(p, y) /\ Splitting(y)
        /\ y.pre = d /\ y.last_nkro = d /\ (BytesShown(p) => BytesShown(y))
    BY <2>1, <2>2, NkroSent
  <2>4. Kept(x, y) /\ (rf_state = "RF_CONNECT" => y.queue = << >>)
    BY <2>2, <2>3 DEF Kept, Delivered
  <2>5. \A h : Filter(x, n, h) => Filter(y, n, d)
    BY <1>2, <2>2, <2>3 DEF Filter, BytesShown
  <2> QED
    BY <1>2, <2>3, <2>4, <2>5 DEF y
<1>3. CASE ~n /\ d = x.last_6kro
  <2>1. y = x
    BY <1>3 DEF send_keyboard_report
  <2> QED
    BY <1>3, <2>1 DEF Kept, Filter
<1>4. CASE ~n /\ d # x.last_6kro
  <2>1. y = rf_send_keyboard(q, d)
    BY <1>4 DEF send_keyboard_report
  <2>2. Sound(q) /\ Splitting(q) /\ q.last_6kro = d /\ q.split = x.split /\ q.pre = x.pre
        /\ q.latest = x.latest /\ q.queue = x.queue /\ q.lost = x.lost
        /\ q.overwritten = x.overwritten
    BY SetLast
  <2> HIDE DEF q, y
  <2>3. /\ Sound(y) /\ Delivered(q, y) /\ SameBut(q, y)
        /\ y.latest["BYTE_KB"] = d /\ y.latest["BIT_KB"] = q.latest["BIT_KB"]
    BY <2>1, <2>2, KeyboardSent
  <2>4. Splitting(y) /\ y.last_6kro = d /\ y.pre = x.pre
    BY <2>2, <2>3 DEF Splitting, SameBut
  <2>5. Kept(x, y) /\ (rf_state = "RF_CONNECT" => y.queue = << >>)
    BY <2>2, <2>3 DEF Kept, Delivered
  <2>6. \A h : Filter(x, n, h) => Filter(y, n, d)
    BY <1>4, <2>4 DEF Filter
  <2> QED
    BY <1>4, <2>3, <2>4, <2>5, <2>6 DEF y
<1> QED
  BY <1>1, <1>2, <1>3, <1>4

\* user_kb.c:188-211: whatever the buffers held, break_all_key leaves nothing held,
\* nothing waiting, and a filter that knows it.
LEMMA BreakSound ==
    ASSUME NEW x, Sound(x), Splitting(x), NEW n \in BOOLEAN
    PROVE  LET y == break_all_key(x, n)
           IN  /\ Sound(y) /\ Splitting(y) /\ Filter(y, n, Released) /\ Kept(x, y)
               /\ y.queue = << >> /\ y.pre = Released
               /\ y.latest["BYTE_KB"] = Released /\ y.latest["BIT_KB"] = Released
<1> DEFINE p == send_keyboard_report(x, n, Released)
           q == rf_send_extra(p)
           u == rf_send_nkro(q, Released)
           w == rf_send_keyboard(u, Released)
           y == clear_report_buffer(w)
<1>0. Released \in Held
  BY Constants
<1>1. y = break_all_key(x, n)
  BY DEF break_all_key
<1>2. Sound(p) /\ Splitting(p) /\ Kept(x, p)
      /\ (IF n THEN p.last_nkro ELSE p.last_6kro) = Released
  BY <1>0, ReportSent
<1> HIDE DEF p
<1>3. Sound(q) /\ Delivered(p, q) /\ SameBut(p, q) /\ q.latest = p.latest
  BY <1>2, ExtraSent
<1> HIDE DEF q
<1>4. Splitting(q)
  BY <1>2, <1>3 DEF Splitting, SameBut
<1>5. /\ Sound(u) /\ Delivered(q, u) /\ Splitting(u)
      /\ u.pre = Released /\ u.last_nkro = q.last_nkro /\ u.last_6kro = q.last_6kro
  BY <1>0, <1>3, <1>4, NkroSent
<1> HIDE DEF u
<1>6. Sound(w) /\ Delivered(u, w) /\ SameBut(u, w) /\ w.latest["BYTE_KB"] = Released
      /\ w.latest["BIT_KB"] = u.latest["BIT_KB"]
  BY <1>0, <1>5, KeyboardSent
<1> HIDE DEF w
<1>7. Sound(y) /\ y.queue = << >> /\ y.latest = w.latest /\ SameBut(w, y)
      /\ (w.queue = << >> => y.lost = w.lost) /\ y.overwritten = w.overwritten
  BY <1>6, ClearSound
<1> HIDE DEF y
<1>8. Splitting(y) /\ y.pre = Released /\ y.latest["BYTE_KB"] = Released
      /\ y.split = u.split /\ (IF n THEN y.last_nkro ELSE y.last_6kro) = Released
  BY <1>2, <1>3, <1>5, <1>6, <1>7 DEF Splitting, SameBut
<1>9. ByteKeys(y.split) = {} /\ y.split.bits = {}
  <2>1. Released.keys = {} /\ Released.keys \in SUBSET Key
    BY DEF Released
  <2>2. ByteKeys(y.split) \cup y.split.bits = {}
    BY <1>8, <2>1, SplitKeys DEF Splitting
  <2> QED
    BY <2>2
<1>10. y.latest["BIT_KB"] = Released
  BY <1>8, <1>9 DEF Splitting, Released
<1>11. Filter(y, n, Released)
  BY <1>8, <1>9 DEF Filter, Released
<1>12. Kept(x, y)
  BY <1>2, <1>3, <1>5, <1>6, <1>7 DEF Kept, Delivered
<1> QED
  BY <1>1, <1>7, <1>8, <1>10, <1>11, <1>12

-----------------------------------------------------------------------------
(* The repeat *)

\* Everything but what the host was told.
SameBuffers(x, y) ==
    /\ y.queue = x.queue /\ y.a = x.a /\ y.b = x.b /\ y.buff = x.buff
    /\ y.latest = x.latest /\ SameBut(x, y)

\* The last report of the command of r is an outdated one if r is.
Overwrites(x, r) == x.overwritten \cup (IF r.stale THEN {r.cmd} ELSE {})

LEMMA UartSound ==
    ASSUME NEW x, Sound(x), NEW r \in Reports, Newest(x, r)
    PROVE  LET y == uart_send_report(x, r)
           IN  Sound(y) /\ SameBuffers(x, y) /\ y.overwritten \subseteq Overwrites(x, r)
<1> DEFINE y == uart_send_report(x, r)
           h == [e \in KeyCmd |-> IF e = r.cmd THEN r.data ELSE x.host[e]]
<1>1. CASE ~(f_dial_sw_init_ok /\ rf_state = "RF_CONNECT")
  BY <1>1 DEF uart_send_report, SameBuffers, SameBut, Overwrites
<1>2. CASE f_dial_sw_init_ok /\ rf_state = "RF_CONNECT"
  <2> DEFINE f == IF r.stale THEN x.overwritten \cup {r.cmd} ELSE x.overwritten \ {r.cmd}
             l == IF r.stale THEN x.lost ELSE x.lost \ {r.cmd}
  <2>1. y = [x EXCEPT !.host = h, !.lost = l, !.overwritten = f]
    BY <1>2 DEF uart_send_report
  <2>2. x \in Transport /\ (~r.stale /\ r.cmd \in KeyCmd => r.data = x.latest[r.cmd])
        /\ r.data \in Held /\ r.cmd \in Cmd \cup {"NONE"}
    BY DEF Sound, Newest, Reports
  <2>3. h \in [KeyCmd -> Held]
    BY <2>2 DEF Transport
  <2>4. \A e \in KeyCmd : h[e] = IF e = r.cmd THEN r.data ELSE x.host[e]
    BY <2>2
  <2> HIDE DEF h
  <2>5. f \in SUBSET (Cmd \cup {"NONE"}) /\ l \in SUBSET KeyCmd
    BY <2>2 DEF Transport
  <2>6. \A e \in KeyCmd \ (l \cup f) :
          \/ e \notin x.lost \cup x.overwritten /\ e # r.cmd
          \/ e = r.cmd /\ ~r.stale
    BY <2>2
  <2>7. f \subseteq Overwrites(x, r)
    BY DEF Overwrites
  <2> HIDE DEF f, l
  <2>8. /\ y \in Transport /\ SameBuffers(x, y) /\ y.host = h /\ y.lost = l
        /\ y.refused = x.refused /\ y.overwritten = f
    BY <2>1, <2>2, <2>3, <2>5 DEF Transport, SameBuffers, SameBut
  <2> HIDE DEF y
  <2>9. Queued(y) = Queued(x)
    BY <2>8 DEF Queued, SameBuffers
  <2>10. \A e \in KeyCmd \ Unknown(y) : y.host[e] = y.latest[e]
    <3> SUFFICES ASSUME NEW e \in KeyCmd \ Unknown(y)
                 PROVE  y.host[e] = y.latest[e]
      OBVIOUS
    <3>1. e \in KeyCmd \ (l \cup f) /\ e \notin Queued(x) /\ y.latest = x.latest
      BY <2>8, <2>9 DEF Unknown, SameBuffers
    <3>2. CASE e = r.cmd /\ ~r.stale
      BY <2>2, <2>4, <2>8, <3>1, <3>2
    <3>3. CASE e \notin x.lost \cup x.overwritten /\ e # r.cmd
      BY <2>4, <2>8, <3>1, <3>3 DEF Sound, Unknown
    <3> QED
      BY <2>6, <3>1, <3>2, <3>3
  <2>11. Sound(y)
    BY <2>8, <2>10 DEF Sound, SameBuffers, Sendable, Newest
  <2> QED
    BY <2>7, <2>8, <2>11 DEF y
<1> QED
  BY <1>1, <1>2

\* What HandOver needs: the report it repeats may be sent.
Ready(x) ==
    x.queue = << >>
      => Sendable(x, x.buff) /\ (x.do_repeat => x.buff.cmd \in KeyCmd)

\* rf.c:105-128: what is taken from the queue may be sent, and repeated; if
\* nothing is taken, the copy of the last one stands.
LEMMA DequeueSound ==
    ASSUME NEW x, Sound(x), x.queue # << >>
    PROVE  LET y == Dequeue(x)
           IN  /\ Sound(y) /\ Ready(y) /\ SameBut(x, y) /\ y.latest = x.latest
               /\ y.overwritten = x.overwritten
               /\ ~y.buff.stale \/ (~dequeue_due /\ y.buff = x.buff)
<1> DEFINE y == Dequeue(x)
           h == Head(x.queue)
<1>0. x \in Transport /\ x.queue \in Seq(Reports)
  BY DEF Sound, Transport
<1>1. CASE ~dequeue_due
  <2>1. y = x
    BY <1>1 DEF Dequeue
  <2> QED
    BY <1>1, <2>1 DEF SameBut, Ready
<1>2. CASE dequeue_due
  <2>1. y = [x EXCEPT !.buff = h, !.queue = Tail(x.queue), !.repeated = FALSE,
                      !.do_repeat = h.cmd \in KeyCmd,
                      !.lost = x.lost \cup ({h.cmd} \cap KeyCmd)]
    BY <1>2 DEF Dequeue
  <2>2. 1 \in DOMAIN x.queue /\ h = x.queue[1] /\ h \in Reports /\ Tail(x.queue) \in Seq(Reports)
    BY <1>0
  <2>3. h.cmd \in Cmd /\ Sendable(x, h)
    BY <2>2 DEF Sound
  <2>4. \A i \in DOMAIN Tail(x.queue) :
          i + 1 \in DOMAIN x.queue /\ Tail(x.queue)[i] = x.queue[i + 1]
    BY <1>0
  <2>5. \A j \in DOMAIN x.queue : j = 1 \/ (j - 1 \in DOMAIN Tail(x.queue)
                                             /\ x.queue[j] = Tail(x.queue)[j - 1])
    BY <1>0
  <2> DEFINE k == h.cmd \in KeyCmd
             l == x.lost \cup ({h.cmd} \cap KeyCmd)
  <2>6. k \in BOOLEAN /\ l \in SUBSET KeyCmd
    BY <1>0 DEF Transport
  <2>7. y = [x EXCEPT !.buff = h, !.queue = Tail(x.queue), !.repeated = FALSE,
                       !.do_repeat = k, !.lost = l]
    BY <2>1
  <2> HIDE DEF h, k, l
  <2>8. /\ y \in Transport /\ y.queue = Tail(x.queue) /\ y.buff = h /\ y.a = x.a /\ y.b = x.b
        /\ y.do_repeat = k /\ y.lost = l
        /\ y.latest = x.latest /\ y.host = x.host /\ y.refused = x.refused
        /\ y.overwritten = x.overwritten /\ SameBut(x, y)
    BY <1>0, <2>2, <2>6, <2>7 DEF Transport, SameBut
  <2> HIDE DEF y
  <2>9. Queued(x) \subseteq Queued(y) \cup y.lost
    <3> SUFFICES ASSUME NEW j \in DOMAIN x.queue, x.queue[j].cmd \in KeyCmd
                 PROVE  x.queue[j].cmd \in Queued(y) \cup y.lost
      BY DEF Queued
    <3>1. CASE j = 1
      BY <2>2, <2>8, <3>1 DEF l
    <3>2. CASE j # 1
      <4>1. j - 1 \in DOMAIN y.queue /\ x.queue[j] = y.queue[j - 1]
        BY <2>5, <2>8, <3>2
      <4> QED
        BY <4>1 DEF Queued
    <3> QED
      BY <3>1, <3>2
  <2>10. \A i \in DOMAIN y.queue : y.queue[i].cmd \in Cmd /\ Sendable(y, y.queue[i])
    BY <2>4, <2>8 DEF Sound, Sendable, Newest
  <2>11. \A e \in KeyCmd \ Unknown(y) : y.host[e] = y.latest[e]
    BY <2>8, <2>9 DEF Sound, Unknown, l
  <2>12. Sendable(y, y.buff)
    BY <2>3, <2>8 DEF Sendable, Newest
  <2>13. Sound(y)
    BY <2>8, <2>10, <2>11, <2>12 DEF Sound, Sendable, Newest
  <2> QED
    BY <2>8, <2>12, <2>13 DEF y, k, Ready, Sendable
<1> QED
  BY <1>1, <1>2

\* rf.c:118-122: the last report of the queue goes on being repeated.
LEMMA HandOverSound ==
    ASSUME NEW x, Sound(x), Ready(x)
    PROVE  LET y == HandOver(x)
           IN  /\ Sound(y) /\ y.buff = x.buff /\ SameBut(x, y) /\ y.latest = x.latest
               /\ y.overwritten = x.overwritten
<1> DEFINE y == HandOver(x)
           c == clear_report_buffer(x)
<1>1. CASE x.queue # << >>
  BY <1>1 DEF HandOver, SameBut
<1>2. CASE x.queue = << >>
  <2>0. x \in Transport /\ x.buff \in Reports
    BY DEF Sound, Transport
  <2>1. Sound(c) /\ c.a = NoReport /\ c.latest = x.latest /\ SameBut(x, c) /\ c \in Transport
        /\ c.overwritten = x.overwritten
    BY ClearSound DEF Sound
  <2>2. c.buff = x.buff
    BY <2>0 DEF clear_report_buffer, Transport
  <2>3. y = [c EXCEPT !.a = IF x.do_repeat THEN x.buff ELSE c.a]
    BY <1>2 DEF HandOver
  <2> HIDE DEF c
  <2>4. CASE x.do_repeat
    <3>1. y = [c EXCEPT !.a = x.buff]
      BY <2>3, <2>4
    <3>2. Sendable(c, x.buff) /\ x.buff.cmd \in KeyCmd
      BY <1>2, <2>1, <2>4 DEF Ready, Sendable, Newest
    <3> HIDE DEF y
    <3>3. Sound(y)
      BY <2>0, <2>1, <3>1, <3>2, SetBuffers
    <3>4. y.buff = x.buff /\ y.latest = x.latest /\ SameBut(x, y)
          /\ y.overwritten = x.overwritten
      BY <2>1, <2>2, <3>1 DEF Transport, SameBut
    <3> QED
      BY <3>3, <3>4 DEF y
  <2>5. CASE ~x.do_repeat
    <3>1. y = c
      BY <2>1, <2>3, <2>5 DEF Transport
    <3> QED
      BY <2>1, <2>2, <3>1
  <2> QED
    BY <2>4, <2>5
<1> QED
  BY <1>1, <1>2

LEMMA TossSound ==
    ASSUME NEW x, Sound(x)
    PROVE  LET y == Outdate(clear_report_buffer(x), Cmd)
           IN  Sound(y) /\ SameBut(x, y) /\ y.latest = x.latest
               /\ y.overwritten = x.overwritten
<1> DEFINE c == clear_report_buffer(x)
           y == Outdate(c, Cmd)
<1>1. Sound(c) /\ c.queue = << >> /\ c.a = NoReport /\ c.b = NoReport
      /\ c.latest = x.latest /\ SameBut(x, c) /\ c.overwritten = x.overwritten
  BY ClearSound
<1> HIDE DEF c
<1>2. Outdated(NoReport, Cmd) = NoReport
  BY Constants DEF Outdated
<1>3. Outdated(c.buff, Cmd) \in Reports /\ Newest(c, Outdated(c.buff, Cmd))
  <2>1. c.buff \in Reports /\ Newest(c, c.buff)
    BY <1>1 DEF Sound, Transport
  <2>2. CASE c.buff.cmd \in Cmd
    BY <2>1, <2>2 DEF Outdated, Reports, Newest
  <2>3. CASE c.buff.cmd \notin Cmd
    BY <2>1, <2>3 DEF Outdated
  <2> QED
    BY <2>2, <2>3
<1>4. [i \in DOMAIN c.queue |-> Outdated(c.queue[i], Cmd)] = << >>
  BY <1>1
<1>5. y = [c EXCEPT !.queue = << >>, !.a = NoReport, !.b = NoReport, !.buff = Outdated(c.buff, Cmd)]
  BY <1>1, <1>2, <1>4 DEF Outdate
<1>6. /\ y \in Transport /\ y.queue = c.queue /\ y.a = c.a /\ y.b = c.b
      /\ y.buff = Outdated(c.buff, Cmd) /\ y.latest = c.latest /\ y.host = c.host
      /\ y.lost = c.lost /\ y.refused = c.refused /\ y.overwritten = c.overwritten /\ SameBut(c, y)
  <2>1. c \in Transport
    BY <1>1 DEF Sound
  <2>2. y \in Transport
    BY <1>1, <1>3, <1>5, <2>1 DEF Transport
  <2>3. /\ y.queue = c.queue /\ y.a = c.a /\ y.b = c.b
        /\ y.buff = Outdated(c.buff, Cmd) /\ y.latest = c.latest /\ y.host = c.host
    BY <1>1, <1>5, <2>1 DEF Transport
  <2>4. /\ y.lost = c.lost /\ y.refused = c.refused /\ y.overwritten = c.overwritten
        /\ SameBut(c, y)
    BY <1>5, <2>1 DEF Transport, SameBut
  <2> QED
    BY <2>2, <2>3, <2>4
<1> HIDE DEF y
<1>7. Queued(y) = Queued(c)
  BY <1>6 DEF Queued
<1>8. Sound(y)
  BY <1>1, <1>3, <1>6, <1>7 DEF Sound, Sendable, Newest, Unknown
<1>9. SameBut(x, y) /\ y.latest = x.latest /\ y.overwritten = x.overwritten
  BY <1>1, <1>6 DEF SameBut
<1> QED
  BY <1>8, <1>9 DEF y, c

-----------------------------------------------------------------------------
(* The invariant is inductive *)

LEMMA InitEstablishesInv == Init => ReportInv
<1> SUFFICES ASSUME Init
             PROVE  ReportInv
  OBVIOUS
<1>0. Released \in Held /\ NoReport \in Reports /\ ~NoReport.stale /\ NoReport.cmd = "NONE"
      /\ << >> \in Seq(Reports)
  BY Constants
<1>1. EmptySplit \in Nkro!Splits /\ EmptySplit.bits = {} /\ EmptySplit.mods = 0
      /\ EmptySplit.slots = [i \in ByteSlot |-> NoKey] /\ ByteKeys(EmptySplit) = {}
  BY ReportAssumption DEF EmptySplit, Nkro!Splits, Nkro!ByteSlot, Nkro!NoKey, Nkro!Key,
     ByteSlot, NoKey, ByteKeys, Range
<1>2. Nkro!Shows(EmptySplit, Released)
  BY <1>1 DEF Nkro!Shows, Nkro!OnePlace, Nkro!Holds, Nkro!ByteSlot, ByteSlot, Nkro!NoKey,
     NoKey, Nkro!Key, Key, Released
<1> DEFINE told == [e \in KeyCmd |-> Released]
<1>3. told \in [KeyCmd -> Held]
  BY <1>0
<1>4. /\ tx.queue = << >> /\ tx.a = NoReport /\ tx.b = NoReport /\ tx.buff = NoReport
      /\ tx.split = EmptySplit /\ tx.pre = Released /\ tx.last_nkro = Released
      /\ tx.last_6kro = Released /\ tx.host = told /\ tx.latest = told /\ tx.lost = {}
      /\ tx.refused = FALSE /\ tx.overwritten = {}
  BY DEF Init
<1>5. tx \in Transport
  <2> HIDE DEF told
  <2>1. tx = [queue |-> << >>, a |-> NoReport, b |-> NoReport, buff |-> NoReport,
              repeated |-> FALSE, do_repeat |-> TRUE, split |-> EmptySplit, pre |-> Released,
              last_nkro |-> Released, last_6kro |-> Released, host |-> told, latest |-> told,
              lost |-> {}, refused |-> FALSE, overwritten |-> {}]
    BY DEF Init, told
  <2> QED
    BY <1>0, <1>1, <1>3, <2>1 DEF Transport
<1>6. Sound(tx)
  <2>1. Sendable(tx, NoReport)
    BY Constants
  <2>2. DOMAIN tx.queue = {}
    BY <1>4
  <2> QED
    BY <1>0, <1>4, <1>5, <2>1, <2>2 DEF Sound, Sendable
<1>7. Splitting(tx)
  BY <1>1, <1>2, <1>4, Constants DEF Splitting, Released
<1>8. Filter(tx, nkro, kb)
  BY <1>1, <1>4, Constants DEF Init, Filter, Released
<1>9. TypeOK
  BY <1>0, <1>3, <1>4 DEF Init, TypeOK, Active, Long
<1>10. BuffCurrent
  BY <1>4 DEF BuffCurrent
<1> QED
  BY <1>6, <1>7, <1>8, <1>9, <1>10 DEF Init, ReportInv

\* What TypeOK says of the transport.
LEMMA SoundTyped ==
    ASSUME NEW x, Sound(x)
    PROVE  /\ \A i \in DOMAIN x.queue : x.queue[i].cmd \in Cmd
           /\ x.a.cmd \in {"NONE", "BYTE_KB", "BIT_KB"}
           /\ x.b.cmd \in {"NONE", "BIT_KB"}
           /\ x.host \in [KeyCmd -> Held]
  BY DEF Sound, Transport

\* What is to be shown of the transport after a step.
Intact(x, n, h) == Sound(x) /\ Splitting(x) /\ Filter(x, n, h)

LEMMA SameKept ==
    ASSUME NEW x, NEW y, NEW n, NEW h, Intact(x, n, h), Sound(y), SameBut(x, y),
           y.latest = x.latest
    PROVE  Intact(y, n, h)
  BY DEF Intact, Splitting, Filter, SameBut

\* rf.c:105-128: what goes out is the newest report of its kind, unless the link
\* came back while the timer of the report taken last was running.
LEMMA RepeatFromQueueKept ==
    ASSUME ReportInv, NEW repeat_due \in BOOLEAN, RepeatFromQueue(repeat_due)
    PROVE  /\ Intact(tx', nkro, kb)
           /\ tx'.buff.stale => rejoined
           /\ tx'.overwritten \subseteq tx.overwritten \cup (IF rejoined THEN {tx.buff.cmd} ELSE {})
<1> DEFINE y == Dequeue(tx)
           z == HandOver(y)
           w == uart_send_report(z, z.buff)
<1>1. Sound(tx) /\ tx.queue # << >> /\ (~dequeue_due /\ ~rejoined => ~tx.buff.stale)
      /\ Intact(tx, nkro, kb)
  BY DEF ReportInv, BuffCurrent, RepeatFromQueue, Intact
<1>2. \/ tx' = z
      \/ tx' = [w EXCEPT !.repeated = TRUE]
  BY DEF RepeatFromQueue
<1>3. /\ Sound(y) /\ Ready(y) /\ SameBut(tx, y) /\ y.latest = tx.latest
      /\ y.overwritten = tx.overwritten
      /\ ~y.buff.stale \/ (~dequeue_due /\ y.buff = tx.buff)
  BY <1>1, DequeueSound
<1> HIDE DEF y
<1>4. /\ Sound(z) /\ z.buff = y.buff /\ SameBut(y, z) /\ z.latest = y.latest
      /\ z.overwritten = y.overwritten
  BY <1>3, HandOverSound
<1> HIDE DEF z
<1>5. z.buff \in Reports /\ Newest(z, z.buff)
  BY <1>4 DEF Sound, Transport
<1>6. Sound(w) /\ SameBuffers(z, w) /\ w.overwritten \subseteq Overwrites(z, z.buff)
  BY <1>4, <1>5, UartSound
<1> HIDE DEF w
<1> DEFINE v == [w EXCEPT !.repeated = TRUE]
<1>7. /\ v \in Transport /\ SameBuffers(w, v) /\ v.host = w.host /\ v.lost = w.lost
      /\ v.refused = w.refused /\ v.overwritten = w.overwritten
  BY <1>6 DEF Sound, Transport, SameBuffers, SameBut
<1> HIDE DEF v
<1>8. Sound(v)
  <2>1. Queued(v) = Queued(w)
    BY <1>7 DEF Queued, SameBuffers
  <2> QED
    BY <1>6, <1>7, <2>1 DEF Sound, SameBuffers, Sendable, Newest, Unknown
<1>9. SameBut(tx, z) /\ z.latest = tx.latest
  BY <1>3, <1>4 DEF SameBut
<1>10. SameBut(tx, v) /\ v.latest = tx.latest /\ v.buff = z.buff
  BY <1>6, <1>7, <1>9 DEF SameBut, SameBuffers
<1>11. Intact(z, nkro, kb) /\ Intact(v, nkro, kb)
  BY <1>1, <1>4, <1>8, <1>9, <1>10, SameKept
<1>12. z.buff.stale => rejoined /\ z.buff = tx.buff
  BY <1>1, <1>3, <1>4
<1>13. /\ z.overwritten = tx.overwritten
       /\ v.overwritten \subseteq tx.overwritten \cup (IF z.buff.stale THEN {z.buff.cmd} ELSE {})
  BY <1>3, <1>4, <1>6, <1>7 DEF Overwrites
<1> QED
  BY <1>2, <1>10, <1>11, <1>12, <1>13 DEF v

LEMMA RepeatBuffersKept ==
    ASSUME ReportInv, RepeatBuffers
    PROVE  /\ Intact(tx', nkro, kb) /\ tx'.queue = tx.queue
           /\ tx'.overwritten \subseteq tx.overwritten
<1> DEFINE y == SendIfAny(tx, tx.a)
           z == SendIfAny(y, tx.b)
<1>1. Sound(tx) /\ Intact(tx, nkro, kb) /\ tx' = z
  BY DEF ReportInv, RepeatBuffers, Intact
<1>2. tx.a \in Reports /\ tx.b \in Reports /\ Sendable(tx, tx.a) /\ Sendable(tx, tx.b)
  BY <1>1 DEF Sound, Transport
<1>3. SameBuffers(tx, tx)
  BY DEF SameBuffers, SameBut
<1>4. Sound(y) /\ SameBuffers(tx, y) /\ y.overwritten \subseteq tx.overwritten
  BY <1>1, <1>2, <1>3, UartSound DEF SendIfAny, Sendable, Overwrites
<1> HIDE DEF y
<1>5. Sendable(y, tx.b) /\ SameBuffers(y, y)
  BY <1>2, <1>4 DEF Sendable, Newest, SameBuffers, SameBut
<1>6. Sound(z) /\ SameBuffers(y, z) /\ z.overwritten \subseteq y.overwritten
  BY <1>2, <1>4, <1>5, UartSound DEF SendIfAny, Sendable, Overwrites
<1> HIDE DEF z
<1>7. SameBut(tx, z) /\ z.latest = tx.latest /\ z.queue = tx.queue
  BY <1>4, <1>6 DEF SameBut, SameBuffers
<1> QED
  BY <1>1, <1>4, <1>6, <1>7, SameKept

LEMMA NextPreservesInv == ReportInv /\ [Next]_vars => ReportInv'
<1> SUFFICES ASSUME ReportInv, [Next]_vars
             PROVE  ReportInv'
  OBVIOUS
<1>0. /\ Sound(tx) /\ Splitting(tx) /\ Filter(tx, nkro, kb) /\ Intact(tx, nkro, kb)
      /\ rf_state \in {"RF_CONNECT", "RF_LINKING"} /\ f_dial_sw_init_ok \in BOOLEAN
      /\ no_act_time \in {0, 1, 2} /\ kb \in Held /\ nkro \in BOOLEAN
      /\ dequeue_due \in BOOLEAN /\ rejoined \in BOOLEAN /\ BuffCurrent
  BY DEF ReportInv, TypeOK, Intact, Active, Long
<1>1. ASSUME Intact(tx', nkro', kb'), BuffCurrent',
             rf_state' \in {"RF_CONNECT", "RF_LINKING"}, f_dial_sw_init_ok' \in BOOLEAN,
             no_act_time' \in {0, 1, 2}, kb' \in Held, nkro' \in BOOLEAN,
             dequeue_due' \in BOOLEAN, rejoined' \in BOOLEAN
      PROVE  ReportInv'
  <2>1. Sound(tx') /\ Splitting(tx') /\ Filter(tx', nkro', kb')
    BY <1>1 DEF Intact
  <2>2. Sound(tx)' /\ Splitting(tx)' /\ Filter(tx, nkro, kb)'
    BY <2>1 DEF Sound, Splitting, Filter, Queued, Newest, Sendable
  <2>3. no_act_time' \in Active .. Long
    BY <1>1 DEF Active, Long
  <2>4. TypeOK'
    BY <1>1, <2>1, <2>3, SoundTyped DEF TypeOK
  <2> QED
    BY <1>1, <2>2, <2>4 DEF ReportInv
<1>2. ASSUME NEW data \in Held, KeyEvent(data)
      PROVE  ReportInv'
  <2>1. data # kb /\ tx' = send_keyboard_report(tx, nkro, data) /\ kb' = data
        /\ no_act_time' = 0 /\ UNCHANGED <<rf_state, f_dial_sw_init_ok, nkro, dequeue_due, rejoined>>
    BY <1>2 DEF KeyEvent, Active
  <2>2. Sound(tx') /\ Splitting(tx') /\ Filter(tx', nkro, data)
        /\ (rf_state = "RF_CONNECT" => tx'.queue = << >>)
    <3> DEFINE y == send_keyboard_report(tx, nkro, data)
    <3>1. Sound(y) /\ Splitting(y) /\ (\A h : Filter(tx, nkro, h) => Filter(y, nkro, data))
          /\ (\A h : Filter(tx, nkro, h) /\ h # data =>
                (rf_state = "RF_CONNECT" => y.queue = << >>))
      BY <1>0, ReportSent
    <3>2. tx' = y
      BY <2>1
    <3> HIDE DEF y
    <3>3. Filter(y, nkro, data) /\ (rf_state = "RF_CONNECT" => y.queue = << >>)
      BY <1>0, <2>1, <3>1
    <3> QED
      BY <3>1, <3>2, <3>3
  <2>3. BuffCurrent'
    BY <2>1, <2>2 DEF BuffCurrent
  <2> QED
    BY <1>0, <1>1, <2>1, <2>2, <2>3 DEF Intact
<1>3. ASSUME tx' = rf_send_extra(tx), no_act_time' \in {0, 1, 2},
             UNCHANGED <<rf_state, f_dial_sw_init_ok, nkro, kb, dequeue_due, rejoined>>
      PROVE  ReportInv'
  <2>1. Sound(tx') /\ SameBut(tx, tx') /\ tx'.latest = tx.latest
        /\ (rf_state = "RF_CONNECT" => tx'.queue = << >>)
    BY <1>0, <1>3, ExtraSent DEF Delivered
  <2>2. Intact(tx', nkro, kb)
    BY <1>0, <2>1, SameKept
  <2>3. BuffCurrent'
    BY <1>3, <2>1 DEF BuffCurrent
  <2> QED
    BY <1>0, <1>1, <1>3, <2>2, <2>3
<1>4. CASE RepeatToss
  <2>1. Sound(tx') /\ SameBut(tx, tx') /\ tx'.latest = tx.latest
    BY <1>0, <1>4, TossSound DEF RepeatToss
  <2>2. Intact(tx', nkro, kb)
    BY <1>0, <2>1, SameKept
  <2>3. BuffCurrent'
    BY <1>4 DEF BuffCurrent, RepeatToss
  <2> QED
    BY <1>0, <1>1, <1>4, <2>2, <2>3 DEF RepeatToss
<1>5. ASSUME NEW repeat_due \in BOOLEAN, RepeatFromQueue(repeat_due)
      PROVE  ReportInv'
  <2>1. Intact(tx', nkro, kb) /\ (tx'.buff.stale => rejoined)
    BY <1>5, RepeatFromQueueKept
  <2>2. BuffCurrent'
    BY <1>5, <2>1 DEF BuffCurrent, RepeatFromQueue
  <2> QED
    BY <1>0, <1>1, <1>5, <2>1, <2>2 DEF RepeatFromQueue
<1>6. CASE RepeatBuffers
  <2>1. Intact(tx', nkro, kb) /\ tx'.queue = tx.queue
    BY <1>6, RepeatBuffersKept
  <2>2. BuffCurrent'
    BY <1>6, <2>1 DEF BuffCurrent, RepeatBuffers
  <2> QED
    BY <1>0, <1>1, <1>6, <2>1, <2>2 DEF RepeatBuffers
<1>7. CASE RepeatStops
  <2>1. Sound(tx') /\ SameBut(tx, tx') /\ tx'.latest = tx.latest /\ tx'.queue = << >>
    BY <1>0, <1>7, ClearSound DEF RepeatStops
  <2>2. Intact(tx', nkro, kb)
    BY <1>0, <2>1, SameKept
  <2>3. BuffCurrent'
    BY <2>1 DEF BuffCurrent
  <2> QED
    BY <1>0, <1>1, <1>7, <2>2, <2>3 DEF RepeatStops
<1>8. ASSUME UNCHANGED <<nkro, kb, tx>>, BuffCurrent',
             rf_state' \in {"RF_CONNECT", "RF_LINKING"}, f_dial_sw_init_ok' \in BOOLEAN,
             no_act_time' \in {0, 1, 2}, dequeue_due' \in BOOLEAN,
             rejoined' \in BOOLEAN
      PROVE  ReportInv'
  BY <1>0, <1>1, <1>8
<1>9. CASE OtherKey
  <2>1. BuffCurrent'
    BY <1>0, <1>9 DEF BuffCurrent, OtherKey
  <2> QED
    BY <1>0, <1>8, <1>9, <2>1 DEF OtherKey, Active
<1>10. CASE NoActTick
  <2>1. BuffCurrent'
    BY <1>0, <1>10 DEF BuffCurrent, NoActTick
  <2> QED
    BY <1>0, <1>8, <1>10, <2>1 DEF NoActTick, Long
<1>11. CASE DequeueTimer
  <2>1. BuffCurrent'
    BY <1>11 DEF BuffCurrent, DequeueTimer
  <2> QED
    BY <1>0, <1>8, <1>11, <2>1 DEF DequeueTimer
<1>12. CASE LinkDown
  <2>1. BuffCurrent'
    BY <1>12 DEF BuffCurrent, LinkDown
  <2> QED
    BY <1>0, <1>8, <1>12, <2>1 DEF LinkDown
<1>13. CASE LinkUp
  <2>1. BuffCurrent'
    BY <1>13 DEF BuffCurrent, LinkUp
  <2> QED
    BY <1>0, <1>8, <1>13, <2>1 DEF LinkUp
<1>14. CASE DialMoved
  <2>1. Intact(tx', nkro, Released) /\ tx'.queue = << >>
    BY <1>0, <1>14, BreakSound DEF DialMoved, Intact
  <2>2. BuffCurrent'
    BY <2>1 DEF BuffCurrent
  <2> QED
    BY <1>0, <1>1, <1>14, <2>1, <2>2, Constants DEF DialMoved, Active
<1>15. ASSUME NEW sys_moved \in BOOLEAN, DialSettled(sys_moved)
       PROVE  ReportInv'
  <2>1. CASE sys_moved
    <3>0. (~nkro) \in BOOLEAN
      OBVIOUS
    <3>1. nkro' = (~nkro) /\ kb' = Released /\ f_dial_sw_init_ok' = TRUE
          /\ tx' = break_all_key(tx, ~nkro) /\ UNCHANGED <<rf_state, no_act_time, dequeue_due, rejoined>>
      BY <1>15, <2>1 DEF DialSettled
    <3>2. Intact(tx', ~nkro, Released) /\ tx'.queue = << >>
      BY <1>0, <3>0, <3>1, BreakSound DEF Intact
    <3>3. BuffCurrent'
      BY <3>2 DEF BuffCurrent
    <3> QED
      BY <1>0, <1>1, <3>0, <3>1, <3>2, <3>3, Constants
  <2>2. CASE ~sys_moved
    <3>1. UNCHANGED <<nkro, kb, tx, rf_state, no_act_time, dequeue_due, rejoined>>
          /\ f_dial_sw_init_ok' = TRUE
      BY <1>15, <2>2 DEF DialSettled
    <3>2. BuffCurrent'
      BY <1>0, <3>1 DEF BuffCurrent
    <3> QED
      BY <1>0, <1>8, <3>1, <3>2
  <2> QED
    BY <2>1, <2>2
<1>16. CASE UNCHANGED vars
  <2>1. BuffCurrent'
    BY <1>0, <1>16 DEF BuffCurrent, vars
  <2> QED
    BY <1>0, <1>8, <1>16, <2>1 DEF vars
<1>17. CASE ExtraKey
  BY <1>3, <1>17 DEF ExtraKey, Active
<1>18. CASE MouseRepeat
  BY <1>0, <1>3, <1>18 DEF MouseRepeat
<1> QED
  BY <1>2, <1>4, <1>5, <1>6, <1>7, <1>9, <1>10, <1>11, <1>12, <1>13, <1>14, <1>15, <1>16,
     <1>17, <1>18 DEF Next, uart_send_report_repeat

-----------------------------------------------------------------------------
(* Theorems *)

\* rf_driver.c:45-164, rf.c:88-166: what the transport keeps between two calls.
THEOREM Invariance == Spec => []ReportInv
<1> QED
  BY InitEstablishesInv, NextPreservesInv, PTL DEF Spec

\* rf_driver.c:133-164: each buffer only ever holds the reports made for it.
THEOREM TypeCorrect == Spec => []TypeOK
<1>1. ReportInv => TypeOK
  BY DEF ReportInv
<1> QED
  BY <1>1, Invariance, PTL

\* rf.c:88-92 with rf_driver.c:133-164: a queue of any size over 2 never refuses.
THEOREM QueueNeverRefuses == Spec => []NeverRefused
<1>1. ReportInv => NeverRefused
  BY DEF ReportInv, Sound, NeverRefused
<1> QED
  BY <1>1, Invariance, PTL

\* rf.c:105-166: only the newest report of its kind is ever sent or repeated,
\* but for the static copy when the link came back within its 25 ms.
THEOREM NeverStale == Spec => NoStaleFrame
<1>1. ReportInv /\ [Next]_vars
        => [tx'.overwritten \subseteq tx.overwritten
              \cup (IF rejoined THEN {tx.buff.cmd} ELSE {})]_vars
  <2> SUFFICES ASSUME ReportInv, Next
               PROVE  tx'.overwritten \subseteq tx.overwritten
                        \cup (IF rejoined THEN {tx.buff.cmd} ELSE {})
    OBVIOUS
  <2>0. Sound(tx) /\ Splitting(tx) /\ nkro \in BOOLEAN /\ (~nkro) \in BOOLEAN
    BY DEF ReportInv
  <2>1. ASSUME NEW data \in Held, KeyEvent(data)
        PROVE  tx'.overwritten \subseteq tx.overwritten
    <3>1. tx' = send_keyboard_report(tx, nkro, data)
      BY <2>1 DEF KeyEvent
    <3>2. Kept(tx, tx')
      BY <2>0, <3>1, ReportSent
    <3> QED
      BY <3>2 DEF Kept
  <2>2. CASE ExtraKey \/ MouseRepeat
    BY <2>0, <2>2, ExtraSent DEF ExtraKey, MouseRepeat, Delivered
  <2>3. CASE RepeatToss
    BY <2>0, <2>3, TossSound DEF RepeatToss
  <2>4. ASSUME NEW repeat_due \in BOOLEAN, RepeatFromQueue(repeat_due)
        PROVE  tx'.overwritten \subseteq tx.overwritten
                 \cup (IF rejoined THEN {tx.buff.cmd} ELSE {})
    BY <2>4, RepeatFromQueueKept
  <2>5. CASE RepeatBuffers
    BY <2>5, RepeatBuffersKept
  <2>6. CASE RepeatStops
    BY <2>0, <2>6, ClearSound DEF RepeatStops
  <2>7. CASE DialMoved
    BY <2>0, <2>7, BreakSound DEF DialMoved, Kept
  <2>8. ASSUME NEW sys_moved \in BOOLEAN, DialSettled(sys_moved)
        PROVE  tx'.overwritten \subseteq tx.overwritten
    <3>1. CASE sys_moved
      BY <2>0, <2>8, <3>1, BreakSound DEF DialSettled, Kept
    <3>2. CASE ~sys_moved
      BY <2>8, <3>2 DEF DialSettled
    <3> QED
      BY <3>1, <3>2
  <2>9. CASE OtherKey \/ NoActTick \/ DequeueTimer \/ LinkDown \/ LinkUp
    BY <2>9 DEF OtherKey, NoActTick, DequeueTimer, LinkDown, LinkUp
  <2> QED
    BY <2>1, <2>2, <2>3, <2>4, <2>5, <2>6, <2>7, <2>8, <2>9
       DEF Next, uart_send_report_repeat
<1> QED
  BY <1>1, Invariance, PTL DEF Spec, NoStaleFrame

\* rf_driver.c:45-164, rf.c:105-166: for any number of slots and keys, the host
\* knows the newest reports that neither wait nor were thrown away, and with
\* n-key rollover the two together are exactly the keys held.
THEOREM HostAlwaysUpToDate == Spec => []HostUpToDate
<1>1. ReportInv => HostUpToDate
  <2> SUFFICES ASSUME ReportInv
               PROVE  HostUpToDate
    OBVIOUS
  <2>1. \A c \in KeyCmd \ Unknown(tx) : tx.host[c] = tx.latest[c]
    BY DEF ReportInv, Sound
  <2>2. ASSUME nkro, KeyCmd \cap Unknown(tx) = {}
        PROVE  tx.host["BYTE_KB"].keys \cup tx.host["BIT_KB"].keys = tx.pre.keys
    <3>1. tx.host["BYTE_KB"] = tx.latest["BYTE_KB"] /\ tx.host["BIT_KB"] = tx.latest["BIT_KB"]
      BY <2>1, <2>2, Constants
    <3>2. tx.latest["BYTE_KB"].keys = ByteKeys(tx.split)
      BY <2>2 DEF ReportInv, Filter
    <3>3. tx.latest["BIT_KB"].keys = tx.split.bits /\ Nkro!Shows(tx.split, tx.pre)
      BY DEF ReportInv, Splitting
    <3>4. tx.pre \in Held /\ tx.pre.keys \in SUBSET Key
      BY DEF ReportInv, Sound, Transport, Held
    <3>5. ByteKeys(tx.split) \cup tx.split.bits = tx.pre.keys
      BY <3>3, <3>4, SplitKeys
    <3> QED
      BY <3>1, <3>2, <3>3, <3>5
  <2> QED
    BY <2>1, <2>2 DEF HostUpToDate
<1> QED
  BY <1>1, Invariance, PTL

\* quantum/action_util.c:285-312 with user_kb.c:188-211: the filter of unchanged
\* reports never swallows a change of what is held.
THEOREM ChangesAlwaysPropagate == Spec => ChangesPropagate
<1>1. ReportInv /\ [Next]_vars
        => [kb' # kb => IF nkro' THEN tx'.pre = kb' ELSE tx'.latest["BYTE_KB"] = kb']_vars
  <2> SUFFICES ASSUME ReportInv, Next, kb' # kb
               PROVE  IF nkro' THEN tx'.pre = kb' ELSE tx'.latest["BYTE_KB"] = kb'
    OBVIOUS
  <2>0. /\ Sound(tx) /\ Splitting(tx) /\ Filter(tx, nkro, kb) /\ nkro \in BOOLEAN
    BY DEF ReportInv
  <2>1. ASSUME NEW data \in Held, KeyEvent(data)
        PROVE  IF nkro' THEN tx'.pre = kb' ELSE tx'.latest["BYTE_KB"] = kb'
    <3>1. data # kb /\ tx' = send_keyboard_report(tx, nkro, data) /\ kb' = data /\ nkro' = nkro
      BY <2>1 DEF KeyEvent
    <3>2. IF nkro THEN tx'.pre = data ELSE tx'.latest["BYTE_KB"] = data
      BY <2>0, <3>1, ReportSent
    <3> QED
      BY <3>1, <3>2
  <2>2. CASE DialMoved
    <3>1. kb' = Released /\ tx' = break_all_key(tx, nkro)
      BY <2>2 DEF DialMoved
    <3>2. tx'.pre = Released /\ tx'.latest["BYTE_KB"] = Released
      BY <2>0, <3>1, BreakSound
    <3> QED
      BY <3>1, <3>2
  <2>3. ASSUME NEW sys_moved \in BOOLEAN, DialSettled(sys_moved)
        PROVE  IF nkro' THEN tx'.pre = kb' ELSE tx'.latest["BYTE_KB"] = kb'
    <3>0. (~nkro) \in BOOLEAN
      OBVIOUS
    <3>1. kb' = Released /\ tx' = break_all_key(tx, ~nkro)
      BY <2>3 DEF DialSettled
    <3>2. tx'.pre = Released /\ tx'.latest["BYTE_KB"] = Released
      BY <2>0, <3>0, <3>1, BreakSound
    <3> QED
      BY <3>1, <3>2
  <2> QED
    BY <2>1, <2>2, <2>3 DEF Next, ExtraKey, OtherKey, MouseRepeat, uart_send_report_repeat,
       RepeatToss, RepeatFromQueue, RepeatBuffers, RepeatStops, NoActTick, DequeueTimer,
       LinkDown, LinkUp
<1> QED
  BY <1>1, Invariance, PTL DEF Spec, ChangesPropagate

\* user_kb.c:186-211: with the link up and the host not behind, break_all_key
\* leaves the host with no key down in either report.
THEOREM BreakAlwaysReleases == Spec => BreakAllReleases
<1>1. ReportInv /\ [Next]_vars
        => [f_dial_sw_init_ok /\ ~f_dial_sw_init_ok' /\ rf_state = "RF_CONNECT"
              /\ tx.queue = << >> /\ tx.lost \cup tx.overwritten = {}
              => \A c \in KeyCmd : tx'.host[c] = Released]_vars
  <2> SUFFICES ASSUME ReportInv, Next, f_dial_sw_init_ok, ~f_dial_sw_init_ok',
                      rf_state = "RF_CONNECT", tx.queue = << >>,
                      tx.lost \cup tx.overwritten = {}
               PROVE  \A c \in KeyCmd : tx'.host[c] = Released
    OBVIOUS
  <2>1. DialMoved
    BY DEF Next, KeyEvent, ExtraKey, OtherKey, MouseRepeat, uart_send_report_repeat,
       RepeatToss, RepeatFromQueue, RepeatBuffers, RepeatStops, NoActTick, DequeueTimer,
       LinkDown, LinkUp, DialSettled
  <2>2. tx' = break_all_key(tx, nkro) /\ Sound(tx) /\ Splitting(tx) /\ nkro \in BOOLEAN
    BY <2>1 DEF DialMoved, ReportInv
  <2>3. /\ Sound(tx') /\ tx'.queue = << >> /\ tx'.lost = {} /\ tx'.overwritten = {}
        /\ tx'.latest["BYTE_KB"] = Released /\ tx'.latest["BIT_KB"] = Released
    BY <2>2, BreakSound DEF Kept
  <2>4. Unknown(tx') = {}
    BY <2>3 DEF Queued, Unknown
  <2> QED
    BY <2>3, <2>4, Constants DEF Sound
<1> QED
  BY <1>1, Invariance, PTL DEF Spec, BreakAllReleases
=============================================================================
