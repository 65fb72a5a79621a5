------------------------------- MODULE RfLink --------------------------------
(***************************************************************************)
(* Which link the keyboard is on: the dial and the link keys choose it     *)
(* (user_kb.c, ansi.c), the RF module is told and polled for it (rf.c),    *)
(* and the host driver is exchanged to match.                              *)
(*                                                                         *)
(* The RF module is external: it may hang until it is reset, lose a        *)
(* command, leave a poll unanswered, answer late or garbled.  After a      *)
(* reset it is on the link it had.  The handlers run to completion, but    *)
(* uart_send_cmd polls the UART while it waits for an acknowledgement, so  *)
(* frames are also handled inside of it.                                   *)
(*                                                                         *)
(* Left out: what the status lights show (disconnect_delay, rf_blink_cnt), *)
(* the names sent to the module, the Mac/Windows dial, idle times.         *)
(***************************************************************************)
EXTENDS Naturals

CONSTANTS
    Wireless,              \* LINK_RF_24, LINK_BT_1, LINK_BT_2, LINK_BT_3
    LINK_USB,
    LINK_RF_24, LINK_BT_1, \* the 2.4 GHz link, the first Bluetooth link
    NoLink,                \* not a link
    DIAL_DEBOUNCE,         \* scans until a dial position counts (25)
    RF_LONG_PRESS_DELAY,   \* ticks until a link key pairs (30)
    SYNC_LOST,             \* unanswered polls until the module is reset (5)
    ERROR_CNT,             \* mismatches tolerated before the link is sent again (5)
    LnkUsbBound            \* the keymap has the key LNK_USB (the shipped one has not)

ASSUME LinkAssumption ==
    /\ LINK_USB \notin Wireless
    /\ LINK_BT_1 \in Wireless
    /\ LINK_RF_24 \notin {LINK_USB, LINK_BT_1}
    /\ NoLink \notin Wireless \cup {LINK_USB}
    /\ DIAL_DEBOUNCE \in Nat
    /\ LnkUsbBound \in BOOLEAN
    /\ {RF_LONG_PRESS_DELAY, SYNC_LOST, ERROR_CNT} \subseteq Nat \ {0}

Links == Wireless \cup {LINK_USB}

VARIABLES
    dial,                \* DEV_MODE_PIN: "USB" or "RF"
    dial_save, debounce, \* statics of dial_sw_scan
    f_first,             \* static of dial_sw_scan: the dial never settled so far
    f_dial_sw_init_ok,
    polled,              \* dev_sts_sync ran since the dial moved: see DialMoved
    rf_sw_temp,          \* the link key held, NoLink if not f_rf_sw_press
    rf_sw_press_delay,
    s                    \* the link, the module and the UART: see LinkState

dialVars == <<dial, dial_save, debounce, f_first, f_dial_sw_init_ok>>
keyVars == <<rf_sw_temp, rf_sw_press_delay>>
vars == <<dialVars, polled, keyVars, s>>

States == {"RF_IDLE", "RF_CONNECT"}   \* RF_IDLE: any other than RF_CONNECT

\* A frame from the module: a status, an answer to READ_DATA, or one that only
\* shows that the module is alive (an acknowledgement, a garbled frame).
Status(l, st) == [type |-> "STS", link |-> l, state |-> st]
ReadData(l, ch) == [type |-> "READ", link |-> l, channel |-> ch]
Alive == [type |-> "ALIVE"]
NoFrame == [type |-> "NONE"]
Frames == {Alive, NoFrame} \cup {Status(l, st) : l \in Links, st \in States}
                           \cup {ReadData(l, ch) : l \in Links, ch \in Wireless}

LinkState ==
    [link_mode : Links,                  \* dev_info
     rf_channel : Wireless,
     rf_state : States,
     f_send_channel : BOOLEAN,
     f_rf_reset : BOOLEAN,
     sync_lost : 0 .. SYNC_LOST - 1,
     error_cnt : 0 .. ERROR_CNT,
     host_mode : {"USB", "RF"},
     driver : {"USB", "RF"},
     usb_down : BOOLEAN,                 \* the USB host was told of a key down
     module_link : Links,                \* the module
     module_up : BOOLEAN,
     rx : Frames]                        \* what uart_receive_pro will parse

-----------------------------------------------------------------------------
(* Operators from the state x to the state after the call *)

break_all_key(x) ==
    [x EXCEPT !.usb_down = IF x.driver = "USB" THEN FALSE ELSE @]

\* A frame behind one that was not read yet is dropped with it.
Arrives(x, f) == IF x.rx = NoFrame THEN [x EXCEPT !.rx = f] ELSE x

\* Slips: any status is taken for one of this link; mismatches are never counted.
StatusOfAnyLink(x, f) == [x EXCEPT !.error_cnt = 0, !.rf_state = f.state]

StatusMismatchIgnored(x, f) ==
    IF f.link = x.link_mode
    THEN [x EXCEPT !.error_cnt = 0, !.rf_state = f.state]
    ELSE x

\* rf_protocol_receive, CMD_RF_STS_SYSC.  (The module does not report RF_INVAILD.)
ReceiveStatus(x, f) ==
    IF f.link = x.link_mode
    THEN [x EXCEPT !.error_cnt = 0, !.rf_state = f.state]
    ELSE IF x.error_cnt >= ERROR_CNT
         THEN [x EXCEPT !.error_cnt = 0, !.f_send_channel = TRUE]
         ELSE [x EXCEPT !.error_cnt = @ + 1]

\* uart_receive_pro and rf_protocol_receive: every frame shows that the module
\* is alive, even one that fails the checksum.
Receive(x) ==
    LET y == [x EXCEPT !.rx = NoFrame, !.sync_lost = 0]
    IN  CASE x.rx.type = "NONE" -> x
          [] x.rx.type = "ALIVE" -> y
          [] x.rx.type = "STS" -> ReceiveStatus(y, x.rx)
          [] x.rx.type = "READ" -> [y EXCEPT !.link_mode = x.rx.link,
                                             !.rf_channel = x.rx.channel]

\* The module takes the link it is told, if it hears the command.
ModuleSet(x, heard) ==
    IF heard /\ x.module_up
    THEN Arrives([x EXCEPT !.module_link = x.link_mode], Alive)
    ELSE x

\* uart_send_cmd of CMD_SET_LINK or CMD_NEW_ADV, with the wait that follows.
SendLink(x, heard) ==
    Receive(ModuleSet([x EXCEPT !.rf_state = "RF_IDLE"], heard))

switch_dev_link(x, l) ==
    [break_all_key(x) EXCEPT
        !.link_mode = l, !.rf_state = "RF_IDLE", !.f_send_channel = TRUE,
        !.host_mode = IF l = LINK_USB THEN "USB" ELSE "RF",
        !.driver = IF l = LINK_USB THEN "USB" ELSE "RF"]

\* The link the dial stands for.
DialLink(x, d) == IF d = "USB" THEN LINK_USB ELSE x.rf_channel

FollowDial(x, d) ==
    IF x.link_mode = DialLink(x, d) THEN x ELSE switch_dev_link(x, DialLink(x, d))

-----------------------------------------------------------------------------
(* Boot: rf_device_init asks the module for the stored link and its state,  *)
(* with or without an answer (which may still come); dial_sw_fast_scan     *)
(* follows the dial; then protocol_post_init installs the USB driver.      *)

Booted(module, link, channel, st, d, late) ==
    LET x == [link_mode |-> link, rf_channel |-> channel, rf_state |-> st,
              f_send_channel |-> FALSE, f_rf_reset |-> FALSE, sync_lost |-> 0,
              error_cnt |-> 0, host_mode |-> "USB", driver |-> "USB",
              usb_down |-> FALSE, module_link |-> module, module_up |-> TRUE,
              rx |-> late]
    IN  [FollowDial(x, d) EXCEPT !.driver = "USB"]

Init ==
    /\ dial \in {"USB", "RF"}
    /\ dial_save = "none"
    /\ debounce = 0
    /\ f_first = TRUE
    /\ f_dial_sw_init_ok = FALSE
    /\ polled = FALSE
    /\ rf_sw_temp = NoLink
    /\ rf_sw_press_delay = 0
    /\ \E channel \in Wireless, link \in Links, st \in States :
         s \in {Booted(link, link, channel, st, dial, NoFrame),
                Booted(link, LINK_USB, channel, "RF_IDLE", dial, ReadData(link, channel))}

-----------------------------------------------------------------------------
(* The main loop *)

uart_receive_pro ==
    /\ s.rx # NoFrame
    /\ UNCHANGED <<dialVars, polled, keyVars>>
    /\ s' = Receive(s)

\* The reset pulse, or else the link once more.
ResetOrResend(x, heard) ==
    IF x.f_rf_reset THEN [x EXCEPT !.f_rf_reset = FALSE, !.module_up = TRUE]
    ELSE IF x.f_send_channel THEN SendLink([x EXCEPT !.f_send_channel = FALSE], heard)
    ELSE x

\* Slip: the driver is exchanged before the keys are released.
DriverBeforeBreak(x) ==
    LET wanted == IF x.link_mode = LINK_USB THEN "USB" ELSE "RF"
    IN  IF x.host_mode = wanted THEN x
        ELSE break_all_key([x EXCEPT !.host_mode = wanted, !.driver = wanted])

\* The driver follows link_mode.  Towards USB it is set before the keys are
\* released, away from USB after.
SyncDriver(x) ==
    IF x.link_mode = LINK_USB
    THEN IF x.host_mode = "USB" THEN x
         ELSE break_all_key([x EXCEPT !.host_mode = "USB", !.driver = "USB"])
    ELSE IF x.host_mode = "RF" THEN x
         ELSE [break_all_key(x) EXCEPT !.host_mode = "RF", !.driver = "RF"]

\* CMD_RF_STS_SYSC and the millisecond of waiting: the answer comes within it
\* ("fast"), later, garbled, or not at all.
PollStatus(x, st, answer) ==
    LET f == Status(x.module_link, st)
    IN  CASE ~x.module_up \/ answer = "lost" -> Receive(x)
          [] x.module_up /\ answer = "fast" -> Receive(Arrives(x, f))
          [] x.module_up /\ answer = "late" -> Arrives(Receive(x), f)
          [] x.module_up /\ answer = "garbled" -> Arrives(Receive(x), Alive)

\* Slips: unanswered polls are not counted; the counter is not cleared.
CountNoLost(x) == x

CountLostKeeps(x) ==
    IF x.link_mode = LINK_USB THEN x
    ELSE [x EXCEPT !.sync_lost = @ + 1, !.f_rf_reset = @ \/ x.sync_lost + 1 >= SYNC_LOST]

\* Too many polls without a frame in between: the module will be reset.
CountLost(x) ==
    IF x.link_mode = LINK_USB THEN x
    ELSE IF x.sync_lost + 1 >= SYNC_LOST THEN [x EXCEPT !.sync_lost = 0, !.f_rf_reset = TRUE]
    ELSE [x EXCEPT !.sync_lost = @ + 1]

\* heard, sts, answers: what may become of the command, what the module's state
\* may be, and what may become of the poll.
dev_sts_sync(heard, sts, answers) ==
    /\ polled' = TRUE
    /\ UNCHANGED <<dialVars, keyVars>>
    /\ s' \in {CountLost(PollStatus(x, st, answer)) :
                 x \in {SyncDriver(ResetOrResend(s, h)) : h \in heard},
                 st \in sts, answer \in answers}

\* dial_sw_scan: the dial is not where it was.  dev_sts_sync runs every 200 ms and
\* in the first turn of the main loop before the first scan, and a dial takes
\* 500 ms to settle (only at boot it is scanned without a pause), so there is a
\* dev_sts_sync before it has settled.
DialMoved ==
    /\ dial_save # dial
    /\ f_first => polled
    /\ polled' = f_first
    /\ dial_save' = dial
    /\ debounce' = DIAL_DEBOUNCE
    /\ f_dial_sw_init_ok' = FALSE
    /\ s' = break_all_key(s)
    /\ UNCHANGED <<dial, f_first, keyVars>>

DialDebounce ==
    /\ dial_save = dial
    /\ debounce > 0
    /\ debounce' = debounce - 1
    /\ UNCHANGED <<dial, dial_save, f_first, f_dial_sw_init_ok, polled, keyVars, s>>

\* Slips: the dial is only followed when it has moved; the driver that boot left
\* behind is not looked at.
SettleMovedDial(x) ==
    IF f_dial_sw_init_ok THEN x
    ELSE LET y == FollowDial(x, dial)
         IN  IF y.link_mode # LINK_USB THEN [y EXCEPT !.driver = "RF"] ELSE y

SettleWithoutDriver(x) == FollowDial(x, dial)

\* The dial decides; once after it moved, the RF driver is installed whatever
\* host_mode says.
SettleDial(x) ==
    LET y == FollowDial(x, dial)
    IN  IF ~f_dial_sw_init_ok /\ y.link_mode # LINK_USB THEN [y EXCEPT !.driver = "RF"] ELSE y

DialSettled ==
    /\ dial_save = dial
    /\ debounce = 0
    /\ polled
    /\ f_dial_sw_init_ok' = TRUE
    /\ f_first' = FALSE
    /\ UNCHANGED <<dial, dial_save, debounce, polled, keyVars>>
    /\ s' = SettleDial(s)

dial_sw_scan == DialMoved \/ DialDebounce \/ DialSettled

\* long_press_key: a link key held for long starts pairing on that link.
long_press_key(heard) ==
    /\ rf_sw_press_delay' = IF rf_sw_temp = NoLink THEN 0
                            ELSE IF rf_sw_press_delay >= RF_LONG_PRESS_DELAY THEN rf_sw_press_delay
                            ELSE rf_sw_press_delay + 1
    /\ IF rf_sw_temp # NoLink /\ rf_sw_press_delay' >= RF_LONG_PRESS_DELAY
       THEN /\ s' = SendLink([s EXCEPT !.link_mode = rf_sw_temp,
                                       !.rf_channel = rf_sw_temp], heard)
            /\ rf_sw_temp' = NoLink
       ELSE UNCHANGED <<s, rf_sw_temp>>
    /\ UNCHANGED <<dialVars, polled>>

\* long_press_key: DEV_RESET held for long makes the first Bluetooth link the
\* wireless one, unless the keyboard is on 2.4 GHz, and sends the link again.
FactoryReset(heard) ==
    /\ s' = SendLink([s EXCEPT
                         !.link_mode = IF @ \in {LINK_USB, LINK_RF_24} THEN @ ELSE LINK_BT_1,
                         !.rf_channel = IF s.link_mode = LINK_RF_24 THEN @ ELSE LINK_BT_1], heard)
    /\ UNCHANGED <<dialVars, polled, keyVars>>

-----------------------------------------------------------------------------
(* The user *)

MoveDial ==
    /\ dial' = IF dial = "USB" THEN "RF" ELSE "USB"
    /\ UNCHANGED <<dial_save, debounce, f_first, f_dial_sw_init_ok, polled, keyVars, s>>

\* LNK_RF, LNK_BLE1 to LNK_BLE3.
LinkKeyPress(l) ==
    /\ s.link_mode # LINK_USB
    /\ rf_sw_temp' = l
    /\ s' = break_all_key(s)
    /\ UNCHANGED <<dialVars, polled, rf_sw_press_delay>>

LinkKeyRelease(heard) ==
    /\ rf_sw_temp # NoLink
    /\ rf_sw_temp' = NoLink
    /\ s' = IF rf_sw_press_delay < RF_LONG_PRESS_DELAY
            THEN SendLink([s EXCEPT !.link_mode = rf_sw_temp, !.rf_channel = rf_sw_temp], heard)
            ELSE s
    /\ UNCHANGED <<dialVars, polled, rf_sw_press_delay>>

\* LNK_USB acts on its release.
LnkUsbRelease(heard) ==
    /\ LnkUsbBound
    /\ s' = SendLink([s EXCEPT !.link_mode = LINK_USB], heard)
    /\ UNCHANGED <<dialVars, polled, keyVars>>

\* An ordinary key, on whichever host the driver reaches.
KeyDown ==
    /\ s.driver = "USB"
    /\ s' = [s EXCEPT !.usb_down = TRUE]
    /\ UNCHANGED <<dialVars, polled, keyVars>>

KeyUp ==
    /\ s' = break_all_key(s)
    /\ UNCHANGED <<dialVars, polled, keyVars>>

\* The module stops reacting, until it is reset.
ModuleHangs ==
    /\ s.module_up
    /\ s' = [s EXCEPT !.module_up = FALSE]
    /\ UNCHANGED <<dialVars, polled, keyVars>>

Answers == {"fast", "late", "garbled", "lost"}

\* With the shipped keymap.
ShippedNext ==
    \/ uart_receive_pro
    \/ dev_sts_sync(BOOLEAN, States, Answers)
    \/ dial_sw_scan
    \/ \E heard \in BOOLEAN : long_press_key(heard)
    \/ \E heard \in BOOLEAN : FactoryReset(heard)
    \/ MoveDial
    \/ \E l \in Wireless : LinkKeyPress(l)
    \/ \E heard \in BOOLEAN : LinkKeyRelease(heard)
    \/ KeyDown
    \/ KeyUp
    \/ ModuleHangs

Next == ShippedNext \/ \E heard \in BOOLEAN : LnkUsbRelease(heard)

\* A poll on an idle UART whose commands and answer get through.
GoodPoll == s.rx = NoFrame /\ dev_sts_sync({TRUE}, States, {"fast"})

\* One that gets the link through.
GoodResend ==
    /\ s.f_send_channel /\ ~s.f_rf_reset
    /\ dev_sts_sync({TRUE}, States, Answers)

\* The main loop polls the UART, the module, the dial and the link keys for
\* ever.  The UART is not broken: a poll, or a link, that is sent again and again
\* gets through again and again.
Fairness ==
    /\ WF_vars(uart_receive_pro)
    /\ SF_vars(GoodPoll)
    /\ SF_vars(GoodResend)
    /\ WF_vars(dial_sw_scan)
    /\ WF_vars(\E heard \in BOOLEAN : long_press_key(heard))

Spec == Init /\ [][Next]_vars /\ Fairness

-----------------------------------------------------------------------------
(* Properties *)

TypeOK ==
    /\ dial \in {"USB", "RF"}
    /\ dial_save \in {"none", "USB", "RF"}
    /\ debounce \in 0 .. DIAL_DEBOUNCE
    /\ f_first \in BOOLEAN
    /\ f_dial_sw_init_ok \in BOOLEAN
    /\ polled \in BOOLEAN
    /\ rf_sw_temp \in Wireless \cup {NoLink}
    /\ rf_sw_press_delay \in 0 .. RF_LONG_PRESS_DELAY
    /\ s \in LinkState

\* rf.c:212-245 with user_kb.c:217-235: the keyboard takes itself for connected
\* only on the link the module is on.  No late status, lost SET_LINK or reset
\* makes it send keys to the host of another link.
ConnectedLinkIsCurrent == s.rf_state = "RF_CONNECT" => s.module_link = s.link_mode

\* rf.c:493-497, user_kb.c:217-235: once the dial has settled, the driver leaves
\* USB only with no key down on the USB host.
UsbKeysReleased ==
    [][f_dial_sw_init_ok /\ s.driver = "USB" /\ s'.driver = "RF" => ~s'.usb_down]_vars

\* user_kb.c:240-309: a dial that is left alone has its way again and again,
\* whatever the link keys, LNK_USB, a factory reset or a late answer to READ_DATA
\* do.
DialHasItsWay ==
    \A d \in {"USB", "RF"} : <>[](dial = d) => []<>(s.link_mode = DialLink(s, d))

\* rf.c:232-241 and 473-483: on a link that stays, a module that stays up is
\* brought to that link, even if it missed the command.
ModuleFollows ==
    \A l \in Wireless :
      <>[](s.link_mode = l /\ s.module_up) => <>[](s.module_link = l)

\* rf.c:527-532: on a wireless link a module that hangs does not hang for ever.
ModuleRecovers == <>[](s.link_mode # LINK_USB) => []<>s.module_up
=============================================================================
