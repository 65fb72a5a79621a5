-------------------------------- MODULE Sleep --------------------------------
(***************************************************************************)
(* Light sleep: sleep.c decides on it every 50 ms and takes it one turn    *)
(* later, the next key event ends it (ansi.c), the LED supplies go off and *)
(* on with it (user_kb.c).                                                 *)
(*                                                                         *)
(* Times are counters up to the threshold the code compares them with.     *)
(* The module, the hosts and the VIA application are external: rf_state,   *)
(* the USB bus and caps lock change at will, VIA writes the settings       *)
(* without a key event.  The flags *_led_powered_off are left out: leaving *)
(* sleep overwrites them.                                                  *)
(***************************************************************************)
EXTENDS Naturals

CONSTANTS
    SLEEP_TIMEOUT,      \* get_sleep_timeout, in no_act_time
    LINK_TIMEOUT,       \* LINK_TIMEOUT_ALT, in rf_linking_time
    SUSPEND_DEBOUNCE,   \* turns the bus must be suspended (20)
    DISCONNECT_TURNS    \* turns without a link (100)

ASSUME SleepAssumption ==
    {SLEEP_TIMEOUT, LINK_TIMEOUT, SUSPEND_DEBOUNCE, DISCONNECT_TURNS} \subseteq Nat \ {0}

VARIABLES
    link_mode, rf_state, usb_suspended,
    caps_lock,                           \* of the link's host, as the keyboard knows it
    sleep_enable, usb_sleep_toggle,      \* g_config
    caps_under_key,                      \* caps_indication_type is UNDER_KEY or BOTH
    f_goto_sleep, f_wakeup_prepare,
    no_act_time, rf_linking_time,
    usb_suspend_debounce, rf_disconnect_time,
    rf_blink,                            \* rf_blink_cnt # 0
    rgb_led_on, side_led_on,             \* the LED supplies
    asked                                \* history: what came up in the last sleep, "via"
                                         \* wrote sleep_enable, "blink" and "caps" lit a key

outside == <<link_mode, rf_state, usb_suspended, caps_lock>>
config == <<sleep_enable, usb_sleep_toggle, caps_under_key>>
idle == <<no_act_time, rf_linking_time>>
turns == <<usb_suspend_debounce, rf_disconnect_time>>
leds == <<rgb_led_on, side_led_on>>
vars == <<outside, config, f_goto_sleep, f_wakeup_prepare, idle, turns, rf_blink, leds, asked>>

LinkModes == {"USB", "RF_24", "BT"}
RfStates == {"RF_CONNECT", "RF_DISCONNECT", "other"}   \* other: RF_LINKING, RF_WAKE ...

\* A counter that saturates where the code stops telling its values apart.
Upto(n, max) == IF n >= max THEN max ELSE n + 1

Init ==
    /\ link_mode \in LinkModes
    /\ rf_state = "other"
    /\ usb_suspended = FALSE
    /\ caps_lock = FALSE
    /\ sleep_enable \in BOOLEAN
    /\ usb_sleep_toggle \in BOOLEAN
    /\ caps_under_key \in BOOLEAN
    /\ f_goto_sleep = FALSE
    /\ f_wakeup_prepare = FALSE
    /\ no_act_time = 0
    /\ rf_linking_time = 0
    /\ usb_suspend_debounce = 0
    /\ rf_disconnect_time = 0
    /\ rf_blink = FALSE
    /\ rgb_led_on = TRUE
    /\ side_led_on = TRUE
    /\ asked = {}

-----------------------------------------------------------------------------
(* sleep_handle: one of the following per turn *)

\* Slip: only the supply of the keys.
SuppliesRgbOff == rgb_led_on' = FALSE /\ UNCHANGED side_led_on

\* led_pwr_sleep_handle
SuppliesOff == rgb_led_on' = FALSE /\ side_led_on' = FALSE

\* enter_light_sleep
GoToSleep ==
    /\ sleep_enable
    /\ f_goto_sleep
    /\ f_goto_sleep' = FALSE
    /\ f_wakeup_prepare' = TRUE
    /\ rf_linking_time' = 0
    /\ rf_disconnect_time' = 0
    /\ SuppliesOff
    /\ asked' = {}
    /\ UNCHANGED <<outside, config, no_act_time, usb_suspend_debounce, rf_blink>>

Awake == sleep_enable /\ ~f_goto_sleep /\ ~f_wakeup_prepare

SuspendTurn ==
    /\ Awake
    /\ link_mode = "USB" /\ usb_suspended
    /\ usb_suspend_debounce' = Upto(usb_suspend_debounce, SUSPEND_DEBOUNCE)
    /\ f_goto_sleep' = (usb_suspend_debounce' >= SUSPEND_DEBOUNCE)
    /\ UNCHANGED <<outside, config, f_wakeup_prepare, idle, rf_disconnect_time, rf_blink, leds, asked>>

UsbTurn ==
    /\ Awake
    /\ link_mode = "USB" /\ ~usb_suspended
    /\ usb_suspend_debounce' = 0
    /\ f_goto_sleep' = (usb_sleep_toggle /\ no_act_time >= SLEEP_TIMEOUT)
    /\ UNCHANGED <<outside, config, f_wakeup_prepare, idle, rf_disconnect_time, rf_blink, leds, asked>>

\* Slip: only a connected keyboard times out.
IdleWhenConnected == rf_state = "RF_CONNECT" /\ no_act_time >= SLEEP_TIMEOUT

IdleLongEnough == no_act_time >= SLEEP_TIMEOUT

RfTurn ==
    LET linking == ~IdleLongEnough /\ rf_linking_time >= LINK_TIMEOUT
        disconnected == ~IdleLongEnough /\ ~linking /\ rf_state = "RF_DISCONNECT"
        connected == ~IdleLongEnough /\ ~linking /\ rf_state = "RF_CONNECT"
    IN  /\ Awake
        /\ link_mode # "USB"
        /\ rf_linking_time' = IF linking THEN 0 ELSE rf_linking_time
        /\ rf_disconnect_time' = IF disconnected THEN Upto(rf_disconnect_time, DISCONNECT_TURNS + 1)
                                 ELSE IF connected THEN 0
                                 ELSE rf_disconnect_time
        /\ f_goto_sleep' = (\/ IdleLongEnough
                            \/ linking
                            \/ disconnected /\ rf_disconnect_time' > DISCONNECT_TURNS)
        /\ UNCHANGED <<outside, config, f_wakeup_prepare, no_act_time, usb_suspend_debounce,
                       rf_blink, leds, asked>>

sleep_handle == GoToSleep \/ SuspendTurn \/ UsbTurn \/ RfTurn

-----------------------------------------------------------------------------
(* Key events *)

\* Slip: a supply that sleep did not turn off itself stays as it is.
WakesRgbOnly ==
    /\ f_wakeup_prepare /\ sleep_enable
    /\ rgb_led_on' = TRUE
    /\ UNCHANGED side_led_on

\* exit_light_sleep: the supplies are turned on, the host is woken.
Wakes ==
    /\ f_wakeup_prepare /\ sleep_enable
    /\ rgb_led_on' = TRUE
    /\ side_led_on' = TRUE

\* pre_process_record_kb.  The key may be SLEEP_MODE, TOG_USB_SLP or TOG_CAPS_IND.
KeyEvent(enable, toggle, under_key) ==
    /\ <<enable, toggle, under_key>> \in
           {config,
            <<~sleep_enable, usb_sleep_toggle, caps_under_key>>,
            <<sleep_enable, ~usb_sleep_toggle, caps_under_key>>,
            <<sleep_enable, usb_sleep_toggle, ~caps_under_key>>}
    /\ no_act_time' = 0
    /\ rf_linking_time' = 0
    /\ f_wakeup_prepare' = FALSE
    /\ \/ /\ Wakes
          /\ rf_state' = "other"                           \* RF_WAKE
          /\ usb_suspended' = (usb_suspended /\ link_mode # "USB")
       \/ /\ ~(f_wakeup_prepare /\ sleep_enable)
          /\ UNCHANGED <<leds, rf_state, usb_suspended>>
    /\ sleep_enable' = enable
    /\ usb_sleep_toggle' = toggle
    /\ caps_under_key' = under_key
    /\ UNCHANGED <<link_mode, caps_lock, f_goto_sleep, turns, rf_blink, asked>>

-----------------------------------------------------------------------------
(* Surroundings *)

\* timer_pro
timer_pro ==
    /\ no_act_time' = Upto(no_act_time, SLEEP_TIMEOUT)
    /\ rf_linking_time' = Upto(rf_linking_time, LINK_TIMEOUT)
    /\ UNCHANGED <<outside, config, f_goto_sleep, f_wakeup_prepare, turns, rf_blink, leds, asked>>

\* dev_sts_sync: a link that has been down for a while blinks.
dev_sts_sync(blinks) ==
    /\ rf_blink' = CASE link_mode = "USB" \/ rf_state = "RF_CONNECT" -> FALSE
                     [] OTHER -> rf_blink \/ blinks
    /\ rf_linking_time' = IF link_mode # "USB" /\ rf_state = "RF_CONNECT" THEN 0 ELSE rf_linking_time
    /\ UNCHANGED <<outside, config, f_goto_sleep, f_wakeup_prepare, no_act_time, turns, leds, asked>>

\* rf_show_blink counts down.
BlinkEnds ==
    /\ rf_blink
    /\ rf_blink' = FALSE
    /\ UNCHANGED <<outside, config, f_goto_sleep, f_wakeup_prepare, idle, turns, leds, asked>>

\* rgb_matrix_indicators_kb colours the Bluetooth key, and user_set_rgb_color
\* turns the supply on for it.
BlinkKey ==
    /\ rf_blink
    /\ link_mode = "BT"
    /\ rgb_led_on' = TRUE
    /\ asked' = IF f_wakeup_prepare THEN asked \cup {"blink"} ELSE asked
    /\ UNCHANGED <<outside, config, f_goto_sleep, f_wakeup_prepare, idle, turns, rf_blink, side_led_on>>

\* sys_led_show colours the caps lock key on any link, and user_set_rgb_color
\* turns the supply on for it.
CapsKey ==
    /\ caps_lock
    /\ caps_under_key
    /\ rgb_led_on' = TRUE
    /\ asked' = IF f_wakeup_prepare THEN asked \cup {"caps"} ELSE asked
    /\ UNCHANGED <<outside, config, f_goto_sleep, f_wakeup_prepare, idle, turns, rf_blink, side_led_on>>

\* rf_protocol_receive: CMD_24G_SUSPEND.
DongleSuspends ==
    /\ link_mode = "RF_24"
    /\ f_goto_sleep' = TRUE
    /\ UNCHANGED <<outside, config, f_wakeup_prepare, idle, turns, rf_blink, leds, asked>>

RfStateChanges(st) ==
    /\ rf_state' = st
    /\ UNCHANGED <<link_mode, usb_suspended, caps_lock, config, f_goto_sleep, f_wakeup_prepare,
                   idle, turns, rf_blink, leds, asked>>

BusChanges ==
    /\ usb_suspended' = ~usb_suspended
    /\ UNCHANGED <<link_mode, rf_state, caps_lock, config, f_goto_sleep, f_wakeup_prepare, idle,
                   turns, rf_blink, leds, asked>>

\* The host's caps lock, or another host with the link.
CapsLockChanges ==
    /\ caps_lock' = ~caps_lock
    /\ UNCHANGED <<link_mode, rf_state, usb_suspended, config, f_goto_sleep, f_wakeup_prepare,
                   idle, turns, rf_blink, leds, asked>>

\* dial_sw_scan: the dial has moved, and its contacts are left to settle.
DialMoved ==
    /\ no_act_time' = 0
    /\ rf_linking_time' = 0
    /\ UNCHANGED <<outside, config, f_goto_sleep, f_wakeup_prepare, turns, rf_blink, leds, asked>>

\* switch_dev_link: the settled dial, or a link key, selects another link.
LinkChanges(l) ==
    /\ l # link_mode
    /\ link_mode' = l
    /\ rf_state' = "other"
    /\ UNCHANGED <<usb_suspended, caps_lock, config, f_goto_sleep, f_wakeup_prepare, idle, turns,
                   rf_blink, leds, asked>>

\* via_config_set_value: no key event, no wake-up.
ViaUsbSleepToggle ==
    /\ usb_sleep_toggle' = ~usb_sleep_toggle
    /\ UNCHANGED <<outside, sleep_enable, caps_under_key, f_goto_sleep, f_wakeup_prepare, idle,
                   turns, rf_blink, leds, asked>>

ViaCapsIndication ==
    /\ caps_under_key' = ~caps_under_key
    /\ UNCHANGED <<outside, sleep_enable, usb_sleep_toggle, f_goto_sleep, f_wakeup_prepare, idle,
                   turns, rf_blink, leds, asked>>

ViaSleepToggle ==
    /\ sleep_enable' = ~sleep_enable
    /\ asked' = IF f_wakeup_prepare THEN asked \cup {"via"} ELSE asked
    /\ UNCHANGED <<outside, usb_sleep_toggle, caps_under_key, f_goto_sleep, f_wakeup_prepare, idle,
                   turns, rf_blink, leds>>

Next ==
    \/ sleep_handle
    \/ \E enable, toggle, under_key \in BOOLEAN : KeyEvent(enable, toggle, under_key)
    \/ timer_pro
    \/ \E blinks \in BOOLEAN : dev_sts_sync(blinks)
    \/ BlinkEnds
    \/ BlinkKey
    \/ CapsKey
    \/ DongleSuspends
    \/ \E st \in RfStates : RfStateChanges(st)
    \/ BusChanges
    \/ CapsLockChanges
    \/ DialMoved
    \/ \E l \in LinkModes : LinkChanges(l)
    \/ ViaUsbSleepToggle
    \/ ViaSleepToggle
    \/ ViaCapsIndication

\* The main loop does not stop, and time passes.
Fairness == WF_vars(sleep_handle) /\ WF_vars(timer_pro)

Spec == Init /\ [][Next]_vars /\ Fairness

-----------------------------------------------------------------------------
(* Properties *)

TypeOK ==
    /\ link_mode \in LinkModes
    /\ rf_state \in RfStates
    /\ usb_suspended \in BOOLEAN /\ caps_lock \in BOOLEAN
    /\ sleep_enable \in BOOLEAN /\ usb_sleep_toggle \in BOOLEAN /\ caps_under_key \in BOOLEAN
    /\ f_goto_sleep \in BOOLEAN /\ f_wakeup_prepare \in BOOLEAN /\ rf_blink \in BOOLEAN
    /\ rgb_led_on \in BOOLEAN /\ side_led_on \in BOOLEAN
    /\ asked \subseteq {"via", "blink", "caps"}
    /\ no_act_time \in 0 .. SLEEP_TIMEOUT
    /\ rf_linking_time \in 0 .. LINK_TIMEOUT
    /\ usb_suspend_debounce \in 0 .. SUSPEND_DEBOUNCE
    /\ rf_disconnect_time \in 0 .. DISCONNECT_TURNS + 1

\* sleep.c:55 "Power back up LEDs on exiting light sleep.": a keyboard that is not
\* asleep has both LED supplies on, however it came out of sleep, unless VIA
\* wrote sleep_enable while it slept (ansi.c:66 then leaves it dark).
AwakeIsLit == ~f_wakeup_prepare /\ "via" \notin asked => rgb_led_on /\ side_led_on

\* user_kb.c:696-710: while the keyboard sleeps nothing turns the side supply on,
\* and the supply of the keys comes on only for the blinking key of a Bluetooth
\* link that is down (ansi.c:443-447) and for the caps lock key (side.c:326-339),
\* both through user_set_rgb_color (user_kb.c:497-503).
AsleepIsDark ==
    f_wakeup_prepare => ~side_led_on /\ (rgb_led_on => asked \cap {"blink", "caps"} # {})

\* sleep.c:82-146: a keyboard that may sleep and is left alone is asleep in the
\* end, whatever its link, the bus, the module and VIA do.
IdleSleeps ==
    <>[](/\ sleep_enable
         /\ no_act_time >= SLEEP_TIMEOUT
         /\ link_mode = "USB" => usb_sleep_toggle \/ usb_suspended)
      => <>[]f_wakeup_prepare
=============================================================================
