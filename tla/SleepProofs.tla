----------------------------- MODULE SleepProofs -----------------------------
(***************************************************************************)
(* Theorems about Sleep, for all thresholds: the counters stay in range,   *)
(* and the LED supplies follow the sleep.                                  *)
(***************************************************************************)
EXTENDS Sleep, TLAPS

\* While the keyboard sleeps, only VIA can have cleared sleep_enable: this is what
\* makes the next key event turn the supplies on.
SleepsEnabled == f_wakeup_prepare /\ "via" \notin asked => sleep_enable

\* The inductive invariant.
SleepInv == TypeOK /\ AwakeIsLit /\ AsleepIsDark /\ SleepsEnabled

LEMMA UptoInRange ==
    ASSUME NEW max \in Nat, NEW n \in 0 .. max
    PROVE  Upto(n, max) \in 0 .. max
BY DEF Upto

-----------------------------------------------------------------------------
(* Types *)

LEMMA TypeStep == TypeOK /\ [Next]_vars => TypeOK'
<1> SUFFICES ASSUME TypeOK, [Next]_vars PROVE TypeOK'
  OBVIOUS
<1>0. /\ SLEEP_TIMEOUT \in Nat /\ LINK_TIMEOUT \in Nat
      /\ SUSPEND_DEBOUNCE \in Nat /\ DISCONNECT_TURNS \in Nat
  BY SleepAssumption
<1> USE <1>0 DEF TypeOK, LinkModes, RfStates
<1>1. CASE GoToSleep
  <2>1. f_goto_sleep' = FALSE /\ f_wakeup_prepare' = TRUE /\ rgb_led_on' = FALSE /\ side_led_on' = FALSE
    BY <1>1 DEF GoToSleep, SuppliesOff
  <2>2. asked' \subseteq {"via", "blink", "caps"}
    BY <1>1 DEF GoToSleep
  <2>3. rf_linking_time' \in 0 .. LINK_TIMEOUT /\ rf_disconnect_time' \in 0 .. DISCONNECT_TURNS + 1
    BY <1>1 DEF GoToSleep
  <2>4. UNCHANGED <<outside, config, no_act_time, usb_suspend_debounce, rf_blink>>
    BY <1>1 DEF GoToSleep
  <2> QED
    BY <2>1, <2>2, <2>3, <2>4 DEF outside, config
<1>2. CASE SuspendTurn
  <2>1. usb_suspend_debounce' \in 0 .. SUSPEND_DEBOUNCE
    BY <1>2, UptoInRange DEF SuspendTurn
  <2>2. f_goto_sleep' \in BOOLEAN
    BY <1>2 DEF SuspendTurn
  <2> QED
    BY <1>2, <2>1, <2>2 DEF SuspendTurn, outside, config, idle, leds
<1>3. CASE UsbTurn
  <2>1. f_goto_sleep' \in BOOLEAN
    BY <1>3 DEF UsbTurn
  <2> QED
    BY <1>3, <2>1 DEF UsbTurn, outside, config, idle, leds
<1>4. CASE RfTurn
  <2>1. rf_disconnect_time' \in 0 .. DISCONNECT_TURNS + 1
    BY <1>4, UptoInRange DEF RfTurn
  <2>2. rf_linking_time' \in 0 .. LINK_TIMEOUT
    BY <1>4 DEF RfTurn
  <2>3. f_goto_sleep' \in BOOLEAN
    BY <1>4 DEF RfTurn
  <2> QED
    BY <1>4, <2>1, <2>2, <2>3 DEF RfTurn, outside, config, leds
<1>5. ASSUME NEW enable \in BOOLEAN, NEW toggle \in BOOLEAN, NEW under_key \in BOOLEAN,
             KeyEvent(enable, toggle, under_key)
      PROVE  TypeOK'
  <2>1. /\ usb_suspended' \in BOOLEAN /\ rgb_led_on' \in BOOLEAN /\ side_led_on' \in BOOLEAN
        /\ rf_state' \in RfStates
    BY <1>5 DEF KeyEvent, Wakes, leds
  <2>2. /\ no_act_time' = 0 /\ rf_linking_time' = 0 /\ f_wakeup_prepare' = FALSE
        /\ sleep_enable' = enable /\ usb_sleep_toggle' = toggle /\ caps_under_key' = under_key
        /\ UNCHANGED <<link_mode, caps_lock, f_goto_sleep, turns, rf_blink, asked>>
    BY <1>5 DEF KeyEvent
  <2> QED
    <3>1. /\ sleep_enable' \in BOOLEAN /\ usb_sleep_toggle' \in BOOLEAN
          /\ caps_under_key' \in BOOLEAN
          /\ f_wakeup_prepare' \in BOOLEAN
      BY <1>5, <2>2
    <3>2. UNCHANGED <<link_mode, caps_lock, f_goto_sleep, usb_suspend_debounce, rf_disconnect_time,
                      rf_blink, asked>>
      BY <2>2 DEF turns
    <3>3. no_act_time' \in 0 .. SLEEP_TIMEOUT /\ rf_linking_time' \in 0 .. LINK_TIMEOUT
      BY <2>2
    <3> QED
      BY <2>1, <3>1, <3>2, <3>3
<1>6. CASE timer_pro
  BY <1>6, UptoInRange DEF timer_pro, outside, config, turns, leds
<1>7. ASSUME NEW blinks \in BOOLEAN, dev_sts_sync(blinks)
      PROVE  TypeOK'
  <2>1. rf_blink' \in BOOLEAN
    BY <1>7, Zenon DEF dev_sts_sync
  <2>2. rf_linking_time' \in 0 .. LINK_TIMEOUT
    BY <1>7 DEF dev_sts_sync
  <2>3. /\ UNCHANGED <<link_mode, rf_state, usb_suspended, caps_lock, sleep_enable,
                        usb_sleep_toggle, caps_under_key>>
        /\ UNCHANGED <<f_goto_sleep, f_wakeup_prepare, no_act_time, usb_suspend_debounce,
                        rf_disconnect_time, rgb_led_on, side_led_on, asked>>
    BY <1>7 DEF dev_sts_sync, outside, config, turns, leds
  <2> QED
    BY <2>1, <2>2, <2>3
<1>8. CASE BlinkEnds
  <2>1. rf_blink' \in BOOLEAN
    BY <1>8 DEF BlinkEnds
  <2>2. /\ UNCHANGED <<link_mode, rf_state, usb_suspended, caps_lock, sleep_enable,
                        usb_sleep_toggle, caps_under_key>>
        /\ UNCHANGED <<f_goto_sleep, f_wakeup_prepare, no_act_time, rf_linking_time,
                        usb_suspend_debounce, rf_disconnect_time, rgb_led_on, side_led_on, asked>>
    BY <1>8 DEF BlinkEnds, outside, config, idle, turns, leds
  <2> QED
    BY <2>1, <2>2
<1>9. CASE BlinkKey
  BY <1>9 DEF BlinkKey, outside, config, idle, turns
<1>10. CASE DongleSuspends
  BY <1>10 DEF DongleSuspends, outside, config, idle, turns, leds
<1>11. ASSUME NEW st \in RfStates, RfStateChanges(st)
       PROVE  TypeOK'
  BY <1>11 DEF RfStateChanges, config, idle, turns, leds
<1>12. CASE BusChanges
  BY <1>12 DEF BusChanges, config, idle, turns, leds
<1>13. ASSUME NEW l \in LinkModes, LinkChanges(l)
       PROVE  TypeOK'
  BY <1>13 DEF LinkChanges, config, idle, turns, leds
<1>14. CASE CapsKey
  BY <1>14 DEF CapsKey, outside, config, idle, turns
<1>15. CASE CapsLockChanges
  BY <1>15 DEF CapsLockChanges, config, idle, turns, leds
<1>16. CASE DialMoved
  BY <1>16 DEF DialMoved, outside, config, turns, leds
<1>17. CASE ViaCapsIndication
  BY <1>17 DEF ViaCapsIndication, outside, idle, turns, leds
<1>18. CASE ViaUsbSleepToggle
  BY <1>18 DEF ViaUsbSleepToggle, outside, idle, turns, leds
<1>19. CASE ViaSleepToggle
  BY <1>19 DEF ViaSleepToggle, outside, idle, turns, leds
<1>20. CASE UNCHANGED vars
  BY <1>20 DEF vars, outside, config, idle, turns, leds
<1> QED
  BY <1>1, <1>2, <1>3, <1>4, <1>5, <1>6, <1>7, <1>8, <1>9, <1>10, <1>11, <1>12, <1>13,
     <1>14, <1>15, <1>16, <1>17, <1>18, <1>19, <1>20 DEF Next, sleep_handle

-----------------------------------------------------------------------------
(* Supplies *)

\* Only going to sleep, a key event, a key lit by an indicator and VIA touch what the
\* supplies are tied to.
LEMMA LedStep ==
    SleepInv /\ [Next]_vars => AwakeIsLit' /\ AsleepIsDark' /\ SleepsEnabled'
<1> SUFFICES ASSUME SleepInv, [Next]_vars
             PROVE  AwakeIsLit' /\ AsleepIsDark' /\ SleepsEnabled'
  OBVIOUS
<1> DEFINE Tied == <<leds, f_wakeup_prepare, sleep_enable, asked>>
<1> USE DEF SleepInv, AwakeIsLit, AsleepIsDark, SleepsEnabled
<1>1. CASE GoToSleep
  BY <1>1 DEF GoToSleep, SuppliesOff, config
<1>2. ASSUME NEW enable \in BOOLEAN, NEW toggle \in BOOLEAN, NEW under_key \in BOOLEAN,
             KeyEvent(enable, toggle, under_key)
      PROVE  AwakeIsLit' /\ AsleepIsDark' /\ SleepsEnabled'
  <2>1. ~f_wakeup_prepare' /\ asked' = asked
    BY <1>2 DEF KeyEvent
  <2>2. "via" \notin asked => rgb_led_on' /\ side_led_on'
    BY <1>2 DEF KeyEvent, Wakes, leds
  <2> QED
    BY <2>1, <2>2
<1>3. CASE BlinkKey
  BY <1>3 DEF BlinkKey, config
<1>4. CASE ViaSleepToggle
  BY <1>4 DEF ViaSleepToggle, leds
<1>5. CASE CapsKey
  BY <1>5 DEF CapsKey, config
<1>6. ASSUME UNCHANGED Tied
      PROVE  AwakeIsLit' /\ AsleepIsDark' /\ SleepsEnabled'
  BY <1>6 DEF leds
<1>7. SuspendTurn \/ UsbTurn \/ RfTurn => UNCHANGED Tied
  BY DEF SuspendTurn, UsbTurn, RfTurn, config
<1>8. timer_pro \/ BlinkEnds \/ DongleSuspends \/ BusChanges \/ ViaUsbSleepToggle
        => UNCHANGED Tied
  BY DEF timer_pro, BlinkEnds, DongleSuspends, BusChanges, ViaUsbSleepToggle, config
<1>9. CapsLockChanges \/ DialMoved \/ ViaCapsIndication => UNCHANGED Tied
  BY DEF CapsLockChanges, DialMoved, ViaCapsIndication, config
<1>10. \A blinks \in BOOLEAN : dev_sts_sync(blinks) => UNCHANGED Tied
  BY DEF dev_sts_sync, config
<1>11. \A st \in RfStates : RfStateChanges(st) => UNCHANGED Tied
  BY DEF RfStateChanges, config
<1>12. \A l \in LinkModes : LinkChanges(l) => UNCHANGED Tied
  BY DEF LinkChanges, config
<1>13. UNCHANGED vars => UNCHANGED Tied
  BY DEF vars, config
<1> QED
  BY <1>1, <1>2, <1>3, <1>4, <1>5, <1>6, <1>7, <1>8, <1>9, <1>10, <1>11, <1>12, <1>13
     DEF Next, sleep_handle

LEMMA InitEstablishes == Init => SleepInv
<1> SUFFICES ASSUME Init PROVE SleepInv
  OBVIOUS
<1>1. TypeOK
  <2>1. /\ SLEEP_TIMEOUT \in Nat /\ LINK_TIMEOUT \in Nat
        /\ SUSPEND_DEBOUNCE \in Nat /\ DISCONNECT_TURNS \in Nat
    BY SleepAssumption
  <2>2. /\ link_mode \in LinkModes /\ rf_state \in RfStates
        /\ asked \subseteq {"via", "blink", "caps"}
    BY DEF Init, RfStates
  <2>3. /\ usb_suspended \in BOOLEAN /\ caps_lock \in BOOLEAN
        /\ sleep_enable \in BOOLEAN /\ usb_sleep_toggle \in BOOLEAN /\ caps_under_key \in BOOLEAN
        /\ f_goto_sleep \in BOOLEAN /\ f_wakeup_prepare \in BOOLEAN /\ rf_blink \in BOOLEAN
        /\ rgb_led_on \in BOOLEAN /\ side_led_on \in BOOLEAN
    BY DEF Init
  <2>4. /\ no_act_time \in 0 .. SLEEP_TIMEOUT
        /\ rf_linking_time \in 0 .. LINK_TIMEOUT
        /\ usb_suspend_debounce \in 0 .. SUSPEND_DEBOUNCE
        /\ rf_disconnect_time \in 0 .. DISCONNECT_TURNS + 1
    BY <2>1 DEF Init
  <2> QED
    BY <2>2, <2>3, <2>4 DEF TypeOK
<1>2. AwakeIsLit /\ AsleepIsDark /\ SleepsEnabled
  BY DEF Init, AwakeIsLit, AsleepIsDark, SleepsEnabled
<1> QED
  BY <1>1, <1>2 DEF SleepInv

\* sleep.c, ansi.c:54-73, user_kb.c:654-719: types, supplies and the setting that
\* the wake-up depends on, at once.
THEOREM SleepInvariant == Spec => []SleepInv
<1>1. SleepInv /\ [Next]_vars => SleepInv'
  BY TypeStep, LedStep DEF SleepInv
<1> QED
  BY <1>1, InitEstablishes, PTL DEF Spec

\* sleep.c:79-146, user_kb.c:391-399: every counter stays between 0 and the
\* threshold it is compared with.
THEOREM TypeCorrect == Spec => []TypeOK
BY SleepInvariant, PTL DEF SleepInv

\* ansi.c:54-73, sleep.c:54-77: a keyboard that is not asleep has both supplies
\* on, unless VIA wrote sleep_enable while it slept.
THEOREM AlwaysLit == Spec => []AwakeIsLit
BY SleepInvariant, PTL DEF SleepInv

\* user_kb.c:497-503, 696-710: a sleeping keyboard has its side supply off, and the
\* one of the keys but for a blinking Bluetooth key or a lit caps lock key.
THEOREM AlwaysDark == Spec => []AsleepIsDark
BY SleepInvariant, PTL DEF SleepInv
=============================================================================
