---------------------------- MODULE RfLinkProofs -----------------------------
(***************************************************************************)
(* Proofs about RfLink, for any links, any key times and any tolerance of  *)
(* lost polls and mismatches.                                              *)
(*                                                                         *)
(* ConnectedLinkIsCurrent is not inductive: a frame that waits in the UART *)
(* buffer may connect the keyboard, or change its link, when it is parsed. *)
(* The inductive invariant says what such a frame can be: a status is one  *)
(* of the link the module is on, and an answer to READ_DATA only waits     *)
(* while the keyboard is not connected.  Within uart_send_cmd the first is *)
(* broken (the module has changed to the new link, the old status is still *)
(* in the buffer); what holds there is Parsable.                           *)
(***************************************************************************)
EXTENDS RfLink, TLAPS

Connected(x) == x.rf_state = "RF_CONNECT" => x.module_link = x.link_mode

\* An answer to READ_DATA waits.
ReadWaits(x) == x.rx.type = "READ" => x.rf_state = "RF_IDLE"

\* Between two calls of the main loop.
Consistent(x) ==
    /\ x \in LinkState
    /\ Connected(x)
    /\ x.rx.type = "STS" => x.rx.link = x.module_link
    /\ ReadWaits(x)

\* Where uart_receive_pro may be called: a status of the keyboard's link is one
\* of the module's link.
Parsable(x) ==
    /\ x \in LinkState
    /\ Connected(x)
    /\ x.rx.type = "STS" /\ x.rx.link = x.link_mode => x.module_link = x.link_mode
    /\ ReadWaits(x)

\* The driver and what the USB host knows are as before.
SameKeys(x, y) == y.driver = x.driver /\ y.usb_down = x.usb_down

\* The driver leaves USB only with no key down.
LeavesClean(x, y) == x.driver = "USB" /\ y.driver = "RF" => ~y.usb_down

LinkInv == TypeOK /\ Consistent(s)

-----------------------------------------------------------------------------
(* Frames *)

LEMMA FrameFields ==
    ASSUME NEW f \in Frames
    PROVE  /\ f.type \in {"NONE", "ALIVE", "STS", "READ"}
           /\ f.type = "NONE" <=> f = NoFrame
           /\ f.type = "STS" => f.link \in Links /\ f.state \in States
           /\ f.type = "READ" => f.link \in Links /\ f.channel \in Wireless
<1>1. CASE f = Alive
  BY <1>1 DEF Alive, NoFrame
<1>2. CASE f = NoFrame
  BY <1>2 DEF NoFrame
<1>3. CASE \E l \in Links, st \in States : f = Status(l, st)
  BY <1>3 DEF Status, NoFrame
<1>4. CASE \E l \in Links, ch \in Wireless : f = ReadData(l, ch)
  BY <1>4 DEF ReadData, NoFrame
<1> QED
  BY <1>1, <1>2, <1>3, <1>4 DEF Frames

LEMMA FrameKinds ==
    /\ Alive \in Frames /\ Alive.type = "ALIVE"
    /\ NoFrame \in Frames /\ NoFrame.type = "NONE"
    /\ \A l \in Links, st \in States :
         /\ Status(l, st) \in Frames
         /\ Status(l, st).type = "STS"
         /\ Status(l, st).link = l
    /\ \A l \in Links, ch \in Wireless :
         /\ ReadData(l, ch) \in Frames
         /\ ReadData(l, ch).type = "READ"
<1>1. Alive.type = "ALIVE" /\ NoFrame.type = "NONE"
  BY DEF Alive, NoFrame
<1>2. ASSUME NEW l \in Links, NEW st \in States
      PROVE  /\ Status(l, st) \in Frames
             /\ Status(l, st).type = "STS"
             /\ Status(l, st).link = l
  <2>1. Status(l, st) \in {Status(m, r) : m \in Links, r \in States}
    OBVIOUS
  <2>2. Status(l, st) \in Frames
    BY <2>1 DEF Frames
  <2> QED
    BY <2>2 DEF Status
<1>3. ASSUME NEW l \in Links, NEW ch \in Wireless
      PROVE  /\ ReadData(l, ch) \in Frames
             /\ ReadData(l, ch).type = "READ"
  <2>1. ReadData(l, ch) \in {ReadData(m, c) : m \in Links, c \in Wireless}
    OBVIOUS
  <2>2. ReadData(l, ch) \in Frames
    BY <2>1 DEF Frames
  <2> QED
    BY <2>2 DEF ReadData
<1>4. Alive \in Frames /\ NoFrame \in Frames
  BY DEF Frames
<1> QED
  BY <1>1, <1>2, <1>3, <1>4

-----------------------------------------------------------------------------
(* The operators of the model *)

LEMMA BreakConsistent ==
    ASSUME NEW x, Consistent(x)
    PROVE  /\ Consistent(break_all_key(x))
           /\ break_all_key(x).driver = x.driver
           /\ x.driver = "USB" => ~break_all_key(x).usb_down
  BY DEF Consistent, Connected, ReadWaits, LinkState, break_all_key

LEMMA ArrivesConsistent ==
    ASSUME NEW x, Consistent(x), NEW f \in Frames,
           f.type = "ALIVE" \/ (f.type = "STS" /\ f.link = x.module_link)
    PROVE  Consistent(Arrives(x, f)) /\ SameKeys(x, Arrives(x, f))
  BY DEF Consistent, Connected, ReadWaits, LinkState, Arrives, SameKeys

LEMMA ConsistentIsParsable ==
    ASSUME NEW x, Consistent(x)
    PROVE  Parsable(x)
  BY DEF Consistent, Parsable

LEMMA ReceiveStatusTyped ==
    ASSUME NEW x \in LinkState, NEW f \in Frames, f.type = "STS"
    PROVE  ReceiveStatus(x, f) \in LinkState
<1> ERROR_CNT \in Nat
  BY LinkAssumption
<1> f.state \in States
  BY FrameFields
<1>1. CASE f.link = x.link_mode
  <2>1. ReceiveStatus(x, f) = [x EXCEPT !.error_cnt = 0, !.rf_state = f.state]
    BY <1>1 DEF ReceiveStatus
  <2>2. 0 \in 0 .. ERROR_CNT
    OBVIOUS
  <2> QED
    BY <2>1, <2>2 DEF LinkState
<1>2. CASE f.link # x.link_mode /\ x.error_cnt >= ERROR_CNT
  <2>1. ReceiveStatus(x, f) = [x EXCEPT !.error_cnt = 0, !.f_send_channel = TRUE]
    BY <1>2 DEF ReceiveStatus
  <2>2. 0 \in 0 .. ERROR_CNT
    OBVIOUS
  <2> QED
    BY <2>1, <2>2 DEF LinkState
<1>3. CASE f.link # x.link_mode /\ ~(x.error_cnt >= ERROR_CNT)
  <2>1. ReceiveStatus(x, f) = [x EXCEPT !.error_cnt = @ + 1]
    BY <1>3 DEF ReceiveStatus
  <2>2. x.error_cnt + 1 \in 0 .. ERROR_CNT
    BY <1>3 DEF LinkState
  <2> QED
    BY <2>1, <2>2 DEF LinkState
<1> QED
  BY <1>1, <1>2, <1>3

LEMMA ReceiveConsistent ==
    ASSUME NEW x, Parsable(x)
    PROVE  /\ Consistent(Receive(x))
           /\ SameKeys(x, Receive(x))
           /\ Receive(x).module_link = x.module_link
<1> DEFINE y == [x EXCEPT !.rx = NoFrame, !.sync_lost = 0]
<1>1. x \in LinkState /\ x.rx \in Frames
  BY DEF Parsable, LinkState
<1>2. /\ x.rx.type \in {"NONE", "ALIVE", "STS", "READ"}
      /\ x.rx.type = "STS" => x.rx.link \in Links /\ x.rx.state \in States
      /\ x.rx.type = "READ" => x.rx.link \in Links /\ x.rx.channel \in Wireless
  BY <1>1, FrameFields
<1>3. SYNC_LOST \in Nat \ {0}
  BY LinkAssumption
<1>4. y \in LinkState /\ y.rx.type = "NONE" /\ y.link_mode = x.link_mode
      /\ y.module_link = x.module_link /\ y.rf_state = x.rf_state /\ SameKeys(x, y)
  <2>1. NoFrame \in Frames /\ NoFrame.type = "NONE" /\ 0 \in 0 .. SYNC_LOST - 1
    BY <1>3, FrameKinds
  <2> QED
    BY <1>1, <2>1 DEF LinkState, SameKeys
<1> HIDE DEF y
<1>5. CASE x.rx.type = "NONE"
  BY <1>5 DEF Receive, Parsable, Consistent, SameKeys
<1>6. CASE x.rx.type = "ALIVE"
  <2>1. Receive(x) = y
    BY <1>6 DEF Receive, y
  <2> QED
    BY <1>4, <2>1 DEF Parsable, Consistent, Connected, ReadWaits
<1>7. CASE x.rx.type = "STS"
  <2>1. Receive(x) = ReceiveStatus(y, x.rx)
    BY <1>7 DEF Receive, y
  <2>2. ReceiveStatus(y, x.rx) \in LinkState
    BY <1>1, <1>4, <1>7, ReceiveStatusTyped
  <2>3. /\ ReceiveStatus(y, x.rx).rx.type = "NONE"
        /\ ReceiveStatus(y, x.rx).link_mode = x.link_mode
        /\ ReceiveStatus(y, x.rx).module_link = x.module_link
        /\ SameKeys(x, ReceiveStatus(y, x.rx))
    BY <1>4 DEF ReceiveStatus, LinkState, SameKeys
  <2>4. \/ ReceiveStatus(y, x.rx).rf_state = x.rf_state
        \/ x.rx.link = x.link_mode
    BY <1>4 DEF ReceiveStatus, LinkState
  <2> QED
    BY <1>7, <2>1, <2>2, <2>3, <2>4 DEF Parsable, Consistent, Connected, ReadWaits
<1>8. CASE x.rx.type = "READ"
  <2>1. Receive(x) = [y EXCEPT !.link_mode = x.rx.link, !.rf_channel = x.rx.channel]
    BY <1>8 DEF Receive, y
  <2>2. Receive(x) \in LinkState /\ Receive(x).rx.type = "NONE"
        /\ Receive(x).module_link = x.module_link
        /\ Receive(x).rf_state = x.rf_state /\ SameKeys(x, Receive(x))
    BY <1>2, <1>4, <1>8, <2>1 DEF LinkState, SameKeys
  <2>3. x.rf_state = "RF_IDLE"
    BY <1>8 DEF Parsable, ReadWaits
  <2> QED
    BY <2>2, <2>3 DEF Consistent, Connected, ReadWaits
<1> QED
  BY <1>2, <1>5, <1>6, <1>7, <1>8

\* A change of link that the module is told, or not: the keyboard is not connected
\* when the link changes, and the answer in the buffer is of the old link.
LEMMA SendLinkConsistent ==
    ASSUME NEW x, Consistent(x), NEW l \in Links, NEW c \in Wireless, NEW heard \in BOOLEAN
    PROVE  LET y == [x EXCEPT !.link_mode = l, !.rf_channel = c]
           IN  Consistent(SendLink(y, heard)) /\ SameKeys(x, SendLink(y, heard))
<1> DEFINE y == [x EXCEPT !.link_mode = l, !.rf_channel = c]
           z == [y EXCEPT !.rf_state = "RF_IDLE"]
           m == [z EXCEPT !.module_link = z.link_mode]
           w == ModuleSet(z, heard)
<1>1. /\ z \in LinkState /\ z.rf_state = "RF_IDLE" /\ SameKeys(x, z)
      /\ z.rx = x.rx /\ z.module_link = x.module_link
  BY DEF Consistent, LinkState, States, SameKeys
<1>2. Parsable(z)
  BY <1>1 DEF Parsable, Consistent, Connected, ReadWaits
<1> HIDE DEF z
<1>3. Parsable(m) /\ SameKeys(x, m)
  BY <1>1 DEF Parsable, Connected, ReadWaits, LinkState, SameKeys
<1> HIDE DEF m
<1>4. Parsable(Arrives(m, Alive)) /\ SameKeys(x, Arrives(m, Alive))
  BY <1>3, FrameKinds DEF Parsable, Connected, ReadWaits, LinkState, SameKeys, Arrives
<1>5. w \in {z, Arrives(m, Alive)}
  BY DEF ModuleSet, m
<1>6. Parsable(w) /\ SameKeys(x, w)
  BY <1>1, <1>2, <1>4, <1>5
<1>7. SendLink(y, heard) = Receive(w)
  BY DEF SendLink, z
<1> HIDE DEF w, y
<1>8. Consistent(SendLink(y, heard)) /\ SameKeys(x, SendLink(y, heard))
  BY <1>6, <1>7, ReceiveConsistent DEF SameKeys
<1> QED
  BY <1>8 DEF y

LEMMA SwitchConsistent ==
    ASSUME NEW x, Consistent(x), NEW l \in Links
    PROVE  Consistent(switch_dev_link(x, l)) /\ LeavesClean(x, switch_dev_link(x, l))
<1> DEFINE b == break_all_key(x)
           h == IF l = LINK_USB THEN "USB" ELSE "RF"
           y == [b EXCEPT !.link_mode = l, !.rf_state = "RF_IDLE", !.f_send_channel = TRUE,
                          !.host_mode = h, !.driver = h]
<1>1. Consistent(b) /\ (x.driver = "USB" => ~b.usb_down)
  BY BreakConsistent
<1>2. h \in {"USB", "RF"}
  OBVIOUS
<1>3. switch_dev_link(x, l) = y
  BY DEF switch_dev_link
<1> HIDE DEF b, h
<1>4. y \in LinkState /\ y.rf_state = "RF_IDLE" /\ y.rx = b.rx
      /\ y.module_link = b.module_link /\ y.usb_down = b.usb_down
  BY <1>1, <1>2 DEF Consistent, LinkState, States
<1> HIDE DEF y
<1> QED
  BY <1>1, <1>3, <1>4 DEF Consistent, Connected, ReadWaits, LeavesClean

LEMMA FollowConsistent ==
    ASSUME NEW x, Consistent(x), NEW d \in {"USB", "RF"}
    PROVE  Consistent(FollowDial(x, d)) /\ LeavesClean(x, FollowDial(x, d))
<1>1. DialLink(x, d) \in Links
  BY DEF Consistent, LinkState, DialLink, Links
<1>2. LeavesClean(x, x)
  BY DEF LeavesClean
<1> QED
  BY <1>1, <1>2, SwitchConsistent DEF FollowDial

LEMMA ResetConsistent ==
    ASSUME NEW x, Consistent(x), NEW heard \in BOOLEAN
    PROVE  Consistent(ResetOrResend(x, heard)) /\ SameKeys(x, ResetOrResend(x, heard))
<1>1. CASE x.f_rf_reset
  <2>1. ResetOrResend(x, heard) = [x EXCEPT !.f_rf_reset = FALSE, !.module_up = TRUE]
    BY <1>1 DEF ResetOrResend
  <2> QED
    BY <2>1 DEF Consistent, Connected, ReadWaits, LinkState, SameKeys
<1>2. CASE ~x.f_rf_reset /\ x.f_send_channel
  <2> DEFINE y == [x EXCEPT !.f_send_channel = FALSE]
             z == [y EXCEPT !.link_mode = y.link_mode, !.rf_channel = y.rf_channel]
  <2>1. Consistent(y) /\ SameKeys(x, y) /\ y.link_mode \in Links /\ y.rf_channel \in Wireless
    BY DEF Consistent, Connected, ReadWaits, LinkState, SameKeys
  <2>2. z = y
    BY DEF Consistent, LinkState
  <2>3. ResetOrResend(x, heard) = SendLink(y, heard)
    BY <1>2 DEF ResetOrResend
  <2> HIDE DEF y
  <2>4. Consistent(SendLink(z, heard)) /\ SameKeys(y, SendLink(z, heard))
    BY <2>1, SendLinkConsistent
  <2> QED
    BY <2>1, <2>2, <2>3, <2>4 DEF SameKeys
<1>3. CASE ~x.f_rf_reset /\ ~x.f_send_channel
  BY <1>3 DEF ResetOrResend, SameKeys
<1> QED
  BY <1>1, <1>2, <1>3

LEMMA SyncConsistent ==
    ASSUME NEW x, Consistent(x)
    PROVE  Consistent(SyncDriver(x)) /\ LeavesClean(x, SyncDriver(x))
<1>1. CASE SyncDriver(x) = x
  BY <1>1 DEF LeavesClean
<1>2. CASE SyncDriver(x) = break_all_key([x EXCEPT !.host_mode = "USB", !.driver = "USB"])
  <2> DEFINE y == [x EXCEPT !.host_mode = "USB", !.driver = "USB"]
  <2>1. Consistent(y) /\ y.driver = "USB"
    BY DEF Consistent, Connected, ReadWaits, LinkState
  <2> HIDE DEF y
  <2>2. Consistent(break_all_key(y)) /\ break_all_key(y).driver = "USB"
    BY <2>1, BreakConsistent
  <2> QED
    BY <1>2, <2>2 DEF LeavesClean, y
<1>3. CASE SyncDriver(x) = [break_all_key(x) EXCEPT !.host_mode = "RF", !.driver = "RF"]
  <2> DEFINE b == break_all_key(x)
             y == [b EXCEPT !.host_mode = "RF", !.driver = "RF"]
  <2>1. Consistent(b) /\ (x.driver = "USB" => ~b.usb_down)
    BY BreakConsistent
  <2> HIDE DEF b
  <2>2. Consistent(y) /\ y.usb_down = b.usb_down
    BY <2>1 DEF Consistent, Connected, ReadWaits, LinkState
  <2> QED
    BY <1>3, <2>1, <2>2 DEF LeavesClean, b
<1> QED
  BY <1>1, <1>2, <1>3 DEF SyncDriver

LEMMA PollConsistent ==
    ASSUME NEW x, Consistent(x), NEW st \in States, NEW answer \in Answers
    PROVE  Consistent(PollStatus(x, st, answer)) /\ SameKeys(x, PollStatus(x, st, answer))
<1> DEFINE f == Status(x.module_link, st)
<1>1. x.module_link \in Links /\ x.module_up \in BOOLEAN
  BY DEF Consistent, LinkState
<1>2. f \in Frames /\ f.type = "STS" /\ f.link = x.module_link
  BY <1>1, FrameKinds
<1> HIDE DEF f
<1>3. Consistent(Receive(x)) /\ SameKeys(x, Receive(x))
  BY ConsistentIsParsable, ReceiveConsistent
<1>4. Receive(x).module_link = x.module_link
  BY ConsistentIsParsable, ReceiveConsistent
<1>5. Consistent(Receive(Arrives(x, f))) /\ SameKeys(x, Receive(Arrives(x, f)))
  <2>1. Consistent(Arrives(x, f)) /\ SameKeys(x, Arrives(x, f))
    BY <1>2, ArrivesConsistent
  <2> QED
    BY <2>1, ConsistentIsParsable, ReceiveConsistent DEF SameKeys
<1>6. /\ Consistent(Arrives(Receive(x), f)) /\ SameKeys(x, Arrives(Receive(x), f))
      /\ Consistent(Arrives(Receive(x), Alive)) /\ SameKeys(x, Arrives(Receive(x), Alive))
  <2> DEFINE y == Receive(x)
  <2>1. Consistent(y) /\ SameKeys(x, y) /\ y.module_link = x.module_link
    BY <1>3, <1>4
  <2> HIDE DEF y
  <2>2. Consistent(Arrives(y, f)) /\ SameKeys(y, Arrives(y, f))
    BY <1>2, <2>1, ArrivesConsistent
  <2>3. Consistent(Arrives(y, Alive)) /\ SameKeys(y, Arrives(y, Alive))
    BY <2>1, ArrivesConsistent, FrameKinds
  <2> QED
    BY <2>1, <2>2, <2>3 DEF SameKeys, y
<1>7. PollStatus(x, st, answer) \in
        {Receive(x), Receive(Arrives(x, f)), Arrives(Receive(x), f), Arrives(Receive(x), Alive)}
  <2>1. CASE ~x.module_up \/ answer = "lost"
    BY <2>1 DEF PollStatus
  <2>2. CASE x.module_up /\ answer = "fast"
    BY <2>2 DEF PollStatus, f
  <2>3. CASE x.module_up /\ answer = "late"
    BY <2>3 DEF PollStatus, f
  <2>4. CASE x.module_up /\ answer = "garbled"
    BY <2>4 DEF PollStatus
  <2> QED
    BY <2>1, <2>2, <2>3, <2>4 DEF Answers
<1> QED
  BY <1>3, <1>5, <1>6, <1>7

LEMMA CountConsistent ==
    ASSUME NEW x, Consistent(x)
    PROVE  Consistent(CountLost(x)) /\ SameKeys(x, CountLost(x))
<1> SYNC_LOST \in Nat \ {0}
  BY LinkAssumption
<1>1. CASE CountLost(x) = x
  BY <1>1 DEF SameKeys
<1>2. CASE CountLost(x) = [x EXCEPT !.sync_lost = 0, !.f_rf_reset = TRUE]
  <2>1. 0 \in 0 .. SYNC_LOST - 1
    OBVIOUS
  <2> QED
    BY <1>2, <2>1 DEF Consistent, Connected, ReadWaits, LinkState, SameKeys
<1>3. CASE x.sync_lost + 1 < SYNC_LOST /\ CountLost(x) = [x EXCEPT !.sync_lost = @ + 1]
  <2>1. x.sync_lost + 1 \in 0 .. SYNC_LOST - 1
    BY <1>3 DEF Consistent, LinkState
  <2> QED
    BY <1>3, <2>1 DEF Consistent, Connected, ReadWaits, LinkState, SameKeys
<1>4. x.sync_lost \in Nat
  BY DEF Consistent, LinkState
<1> QED
  BY <1>1, <1>2, <1>3, <1>4 DEF CountLost

-----------------------------------------------------------------------------
(* The invariant *)

LEMMA BootConsistent ==
    ASSUME NEW d \in {"USB", "RF"}, NEW channel \in Wireless, NEW link \in Links,
           NEW st \in States
    PROVE  /\ Consistent(Booted(link, link, channel, st, d, NoFrame))
           /\ Consistent(Booted(link, LINK_USB, channel, "RF_IDLE", d, ReadData(link, channel)))
<1>1. SYNC_LOST \in Nat \ {0} /\ ERROR_CNT \in Nat \ {0}
  BY LinkAssumption
<1>2. ASSUME NEW own \in Links, NEW state \in States, NEW late \in Frames,
             \/ late.type = "NONE" /\ link = own
             \/ late.type = "READ" /\ state = "RF_IDLE"
      PROVE  Consistent(Booted(link, own, channel, state, d, late))
  <2> DEFINE x == [link_mode |-> own, rf_channel |-> channel, rf_state |-> state,
                   f_send_channel |-> FALSE, f_rf_reset |-> FALSE, sync_lost |-> 0,
                   error_cnt |-> 0, host_mode |-> "USB", driver |-> "USB",
                   usb_down |-> FALSE, module_link |-> link, module_up |-> TRUE,
                   rx |-> late]
             y == FollowDial(x, d)
  <2>1. 0 \in 0 .. SYNC_LOST - 1 /\ 0 \in 0 .. ERROR_CNT
    BY <1>1
  <2>2. x \in LinkState
    BY <2>1 DEF LinkState
  <2>3. Consistent(x)
    BY <1>2, <2>2 DEF Consistent, Connected, ReadWaits
  <2>4. Booted(link, own, channel, state, d, late) = [y EXCEPT !.driver = "USB"]
    BY DEF Booted
  <2> HIDE DEF x
  <2>5. Consistent(y)
    BY <2>3, FollowConsistent
  <2> HIDE DEF y
  <2> QED
    BY <2>4, <2>5 DEF Consistent, Connected, ReadWaits, LinkState
<1>3. "RF_IDLE" \in States /\ LINK_USB \in Links
  BY DEF States, Links
<1> QED
  BY <1>2, <1>3, FrameKinds

LEMMA InitEstablishesInv == Init => LinkInv
<1> SUFFICES ASSUME Init
             PROVE  LinkInv
  OBVIOUS
<1>1. Consistent(s)
  BY BootConsistent DEF Init
<1>2. s \in LinkState
  BY <1>1 DEF Consistent
<1>3. debounce \in 0 .. DIAL_DEBOUNCE /\ rf_sw_press_delay \in 0 .. RF_LONG_PRESS_DELAY
  BY LinkAssumption DEF Init
<1> QED
  BY <1>1, <1>2, <1>3 DEF Init, LinkInv, TypeOK

\* What a step does to s, and to the driver once the dial has settled.
LEMMA StepConsistent ==
    ASSUME LinkInv, Next
    PROVE  /\ Consistent(s')
           /\ f_dial_sw_init_ok => LeavesClean(s, s')
<1> USE DEF LinkInv
<1>0. /\ s \in LinkState /\ Consistent(s) /\ s.link_mode \in Links /\ s.rf_channel \in Wireless
      /\ \A y : SameKeys(s, y) => LeavesClean(s, y)
      /\ Wireless \subseteq Links /\ LINK_USB \in Links /\ LINK_BT_1 \in Wireless
  BY LinkAssumption DEF TypeOK, LinkState, SameKeys, LeavesClean, Links
<1>1. CASE uart_receive_pro
  BY <1>0, <1>1, ConsistentIsParsable, ReceiveConsistent DEF uart_receive_pro
<1>2. CASE dev_sts_sync(BOOLEAN, States, Answers)
  <2>0. PICK heard \in BOOLEAN, st \in States, answer \in Answers :
          s' = CountLost(PollStatus(SyncDriver(ResetOrResend(s, heard)), st, answer))
    BY <1>2 DEF dev_sts_sync
  <2> DEFINE a == ResetOrResend(s, heard)
             b == SyncDriver(a)
             c == PollStatus(b, st, answer)
  <2>1. Consistent(a) /\ SameKeys(s, a)
    BY <1>0, ResetConsistent
  <2>2. s' = CountLost(c)
    BY <2>0
  <2> HIDE DEF a
  <2>3. Consistent(b) /\ LeavesClean(a, b)
    BY <2>1, SyncConsistent
  <2> HIDE DEF b
  <2>4. Consistent(c) /\ SameKeys(b, c)
    BY <2>3, PollConsistent
  <2> HIDE DEF c
  <2>5. Consistent(CountLost(c)) /\ SameKeys(c, CountLost(c))
    BY <2>4, CountConsistent
  <2> QED
    BY <2>1, <2>2, <2>3, <2>4, <2>5 DEF SameKeys, LeavesClean
<1>3. CASE DialMoved
  BY <1>0, <1>3, BreakConsistent DEF DialMoved, LeavesClean
<1>4. CASE DialDebounce
  BY <1>0, <1>4 DEF DialDebounce, LeavesClean
<1>5. CASE DialSettled
  <2> DEFINE y == FollowDial(s, dial)
  <2>1. Consistent(y) /\ LeavesClean(s, y)
    BY <1>0, FollowConsistent DEF TypeOK
  <2>2. \/ s' = y
        \/ ~f_dial_sw_init_ok /\ s' = [y EXCEPT !.driver = "RF"]
    BY <1>5 DEF DialSettled, SettleDial
  <2> HIDE DEF y
  <2>3. Consistent([y EXCEPT !.driver = "RF"])
    BY <2>1 DEF Consistent, Connected, ReadWaits, LinkState
  <2> QED
    BY <2>1, <2>2, <2>3
<1>6. ASSUME NEW l \in Links, NEW c \in Wireless, NEW heard \in BOOLEAN,
             s' = SendLink([s EXCEPT !.link_mode = l, !.rf_channel = c], heard)
      PROVE  Consistent(s') /\ LeavesClean(s, s')
  BY <1>0, <1>6, SendLinkConsistent
<1>7. s' = s => Consistent(s') /\ LeavesClean(s, s')
  BY <1>0 DEF LeavesClean
<1>8. ASSUME NEW heard \in BOOLEAN, long_press_key(heard)
      PROVE  Consistent(s') /\ LeavesClean(s, s')
  <2>1. CASE s' = s
    BY <1>7, <2>1
  <2>2. CASE /\ rf_sw_temp # NoLink
             /\ s' = SendLink([s EXCEPT !.link_mode = rf_sw_temp, !.rf_channel = rf_sw_temp], heard)
    <3>1. rf_sw_temp \in Wireless /\ rf_sw_temp \in Links
      BY <1>0, <2>2 DEF TypeOK
    <3> QED
      BY <1>6, <2>2, <3>1
  <2> QED
    BY <1>8, <2>1, <2>2 DEF long_press_key
<1>9. ASSUME NEW heard \in BOOLEAN, FactoryReset(heard)
      PROVE  Consistent(s') /\ LeavesClean(s, s')
  <2> DEFINE l == IF s.link_mode \in {LINK_USB, LINK_RF_24} THEN s.link_mode ELSE LINK_BT_1
             c == IF s.link_mode = LINK_RF_24 THEN s.rf_channel ELSE LINK_BT_1
  <2>1. l \in Links /\ c \in Wireless
    BY <1>0
  <2>2. s' = SendLink([s EXCEPT !.link_mode = l, !.rf_channel = c], heard)
    BY <1>9 DEF FactoryReset
  <2> HIDE DEF l, c
  <2> QED
    BY <1>6, <2>1, <2>2
<1>10. CASE MoveDial
  BY <1>7, <1>10 DEF MoveDial
<1>11. ASSUME NEW l \in Wireless, LinkKeyPress(l)
       PROVE  Consistent(s') /\ LeavesClean(s, s')
  BY <1>0, <1>11, BreakConsistent DEF LinkKeyPress, LeavesClean
<1>12. ASSUME NEW heard \in BOOLEAN, LinkKeyRelease(heard)
       PROVE  Consistent(s') /\ LeavesClean(s, s')
  <2>1. rf_sw_temp \in Wireless /\ rf_sw_temp \in Links
    BY <1>0, <1>12 DEF TypeOK, LinkKeyRelease
  <2>2. \/ s' = s
        \/ s' = SendLink([s EXCEPT !.link_mode = rf_sw_temp, !.rf_channel = rf_sw_temp], heard)
    BY <1>12 DEF LinkKeyRelease
  <2> QED
    BY <1>6, <1>7, <2>1, <2>2
<1>13. ASSUME NEW heard \in BOOLEAN, LnkUsbRelease(heard)
       PROVE  Consistent(s') /\ LeavesClean(s, s')
  <2>1. [s EXCEPT !.link_mode = LINK_USB]
          = [s EXCEPT !.link_mode = LINK_USB, !.rf_channel = s.rf_channel]
    BY <1>0 DEF LinkState
  <2>2. s' = SendLink([s EXCEPT !.link_mode = LINK_USB, !.rf_channel = s.rf_channel], heard)
    BY <1>13, <2>1 DEF LnkUsbRelease
  <2> QED
    BY <1>0, <1>6, <2>2
<1>14. CASE KeyDown
  <2>1. s' = [s EXCEPT !.usb_down = TRUE]
    BY <1>14 DEF KeyDown
  <2> QED
    BY <1>0, <1>14, <2>1 DEF KeyDown, Consistent, Connected, ReadWaits, LinkState, LeavesClean
<1>15. CASE KeyUp
  BY <1>0, <1>15, BreakConsistent DEF KeyUp, LeavesClean
<1>16. CASE ModuleHangs
  <2>1. s' = [s EXCEPT !.module_up = FALSE]
    BY <1>16 DEF ModuleHangs
  <2> QED
    BY <1>0, <2>1 DEF Consistent, Connected, ReadWaits, LinkState, LeavesClean
<1> QED
  BY <1>1, <1>2, <1>3, <1>4, <1>5, <1>8, <1>9, <1>10, <1>11, <1>12, <1>13, <1>14, <1>15, <1>16
     DEF Next, ShippedNext, dial_sw_scan

LEMMA NextPreservesInv == LinkInv /\ [Next]_vars => LinkInv'
<1> SUFFICES ASSUME LinkInv, [Next]_vars
             PROVE  LinkInv'
  OBVIOUS
<1>1. CASE UNCHANGED vars
  BY <1>1 DEF vars, dialVars, keyVars, LinkInv, TypeOK, Consistent, Connected, ReadWaits
<1>2. CASE Next
  <2>1. Consistent(s') /\ s' \in LinkState
    BY <1>2, StepConsistent DEF Consistent
  <2>2. /\ dial \in {"USB", "RF"} /\ dial_save \in {"none", "USB", "RF"}
        /\ f_first \in BOOLEAN /\ f_dial_sw_init_ok \in BOOLEAN /\ polled \in BOOLEAN
        /\ debounce \in Nat /\ debounce <= DIAL_DEBOUNCE
        /\ rf_sw_temp \in Wireless \cup {NoLink}
        /\ rf_sw_press_delay \in Nat /\ rf_sw_press_delay <= RF_LONG_PRESS_DELAY
        /\ DIAL_DEBOUNCE \in Nat /\ RF_LONG_PRESS_DELAY \in Nat
    BY LinkAssumption DEF LinkInv, TypeOK
  <2>0. dev_sts_sync(BOOLEAN, States, Answers)
          => polled' = TRUE /\ UNCHANGED <<dialVars, keyVars>>
    BY DEF dev_sts_sync
  <2>3. /\ dial' \in {"USB", "RF"} /\ dial_save' \in {"none", "USB", "RF"}
        /\ debounce' \in Nat /\ debounce' <= DIAL_DEBOUNCE
    BY <1>2, <2>2, <2>0 DEF Next, ShippedNext, dialVars, uart_receive_pro, dial_sw_scan, DialMoved,
         DialDebounce, DialSettled, long_press_key, FactoryReset, MoveDial, LinkKeyPress,
         LinkKeyRelease, LnkUsbRelease, KeyDown, KeyUp, ModuleHangs
  <2>4. f_first' \in BOOLEAN /\ f_dial_sw_init_ok' \in BOOLEAN /\ polled' \in BOOLEAN
    BY <1>2, <2>2, <2>0 DEF Next, ShippedNext, dialVars, uart_receive_pro, dial_sw_scan, DialMoved,
         DialDebounce, DialSettled, long_press_key, FactoryReset, MoveDial, LinkKeyPress,
         LinkKeyRelease, LnkUsbRelease, KeyDown, KeyUp, ModuleHangs
  <2>5. /\ rf_sw_temp' \in Wireless \cup {NoLink}
        /\ rf_sw_press_delay' \in Nat /\ rf_sw_press_delay' <= RF_LONG_PRESS_DELAY
    BY <1>2, <2>2, <2>0 DEF Next, ShippedNext, keyVars, uart_receive_pro, dial_sw_scan, DialMoved,
         DialDebounce, DialSettled, long_press_key, FactoryReset, MoveDial, LinkKeyPress,
         LinkKeyRelease, LnkUsbRelease, KeyDown, KeyUp, ModuleHangs
  <2>6. TypeOK'
    BY <2>1, <2>2, <2>3, <2>4, <2>5 DEF TypeOK
  <2>7. Consistent(s)'
    BY <2>1 DEF Consistent, Connected, ReadWaits
  <2> QED
    BY <2>6, <2>7 DEF LinkInv
<1> QED
  BY <1>1, <1>2

-----------------------------------------------------------------------------
(* Theorems *)

\* rf.c:200-270 and 460-535: between two calls of the main loop, what waits in the
\* UART buffer cannot connect the keyboard on a link the module is not on.
THEOREM Invariance == Spec => []LinkInv
<1> QED
  BY InitEstablishesInv, NextPreservesInv, PTL DEF Spec

\* rf.c and user_kb.c: no counter of lost polls, of mismatches, of the dial or of
\* a link key leaves its range, and only links reach dev_info.link_mode.
THEOREM TypeCorrect == Spec => []TypeOK
<1>1. LinkInv => TypeOK
  BY DEF LinkInv
<1> QED
  BY <1>1, Invariance, PTL

\* rf.c:212-245 with user_kb.c:217-235: with any number of links, the keyboard
\* takes itself for connected only on the link the module is on.
THEOREM ConnectedOnlyOnCurrentLink == Spec => []ConnectedLinkIsCurrent
<1>1. LinkInv => ConnectedLinkIsCurrent
  BY DEF LinkInv, Consistent, Connected, ConnectedLinkIsCurrent
<1> QED
  BY <1>1, Invariance, PTL

\* rf.c:493-497, user_kb.c:217-235: once the dial has settled, no step takes the
\* driver from USB with a key down on the USB host.
THEOREM UsbKeysAlwaysReleased == Spec => UsbKeysReleased
<1>1. LinkInv /\ [Next]_vars
        => [f_dial_sw_init_ok /\ s.driver = "USB" /\ s'.driver = "RF" => ~s'.usb_down]_vars
  <2> SUFFICES ASSUME LinkInv, Next
               PROVE  f_dial_sw_init_ok /\ s.driver = "USB" /\ s'.driver = "RF" => ~s'.usb_down
    OBVIOUS
  <2> QED
    BY StepConsistent DEF LeavesClean
<1> QED
  BY <1>1, Invariance, PTL DEF Spec, UsbKeysReleased
=============================================================================
