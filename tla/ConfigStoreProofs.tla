--------------------------- MODULE ConfigStoreProofs ---------------------------
(***************************************************************************)
(* Proofs about ConfigStore: settings stay in their ranges field by field, *)
(* the marks of the EEPROM and the settings fit together in every phase of *)
(* start-up and of the factory reset, and so a restart restores what it    *)
(* owes.                                                                   *)
(***************************************************************************)
EXTENDS ConfigStore, TLAPS

-----------------------------------------------------------------------------
(* The inductive invariant *)

\* The values a field can have wherever it is kept, a torn save included: 0 is
\* what erased memory reads as.
Legal(f, v) ==
    /\ v \in 0 .. 255
    /\ f = Initiated => v \in {0, MARK}
    /\ f \in Toggles => v \in 0 .. 1
    /\ f \in Debounces => v <= DEBOUNCE_MAX
    /\ f = Timeout => v <= TIMEOUT_MAX
    /\ f = Caps => v <= CAPS_INDICATOR_OFF
    /\ f[2] = "mode" => v <= SIDE_OFF
    /\ f[2] = "brightness" => v <= BRIGHTNESS_MAX
    /\ f[2] = "speed" => v <= LIGHT_SPEED_MAX
    /\ f[2] = "rgb" => v \in 0 .. 1
    /\ f[2] = "color" => v < LIGHT_COLOUR_MAX

Settings == {c \in [Field -> 0 .. 255] : \A f \in Field : Legal(f, c[f])}

Phases == {"off", "via_init", "quantum_init", "eeconfig_init", "eeconfig_via", "post_init",
           "run", "reset_via", "device_reset_show"}

Typed ==
    /\ phase \in Phases
    /\ cfg \in Settings
    /\ rom \in [cfg : Settings, eeconfig : BOOLEAN, via : BOOLEAN]
    /\ unsaved \in 0 .. MaxUnsaved
    /\ due \in Settings
    /\ cut \in BOOLEAN

\* Which marks the EEPROM has in which phase.
Marks ==
    /\ phase \in {"eeconfig_via", "reset_via", "post_init", "run", "device_reset_show"} => rom.eeconfig
    /\ phase \in {"quantum_init", "eeconfig_init", "post_init", "run", "device_reset_show"} => rom.via
    /\ ~rom.eeconfig => rom.cfg[Initiated] # MARK
    /\ ~rom.via => due = Defaults

\* What g_config has to do with the EEPROM in which phase.
Loaded ==
    /\ phase \in {"via_init", "quantum_init"} => cfg = rom.cfg
    /\ phase \in {"eeconfig_init", "eeconfig_via"} => cfg[Initiated] # MARK
    /\ phase = "post_init" /\ cfg[Initiated] = MARK => cfg = rom.cfg
    /\ phase = "run" => cfg[Initiated] = MARK

\* Unless a save was cut off, what start-up will find is what the user is owed:
\* settings that count as initiated are due, and others give the defaults.
Owed ==
    ~cut /\ (rom.via \/ phase # "off")
      => IF rom.cfg[Initiated] = MARK
         THEN rom.cfg = due /\ rom.cfg[Timeout] # 0
         ELSE due = Defaults

Running == phase = "run" /\ ~cut => cfg[Timeout] # 0

ConfigInv == Typed /\ Marks /\ Loaded /\ Owed /\ Running

-----------------------------------------------------------------------------
(* Fields and their ranges *)

\* The fields the operators name are fields, and all different.
LEMMA FieldFacts ==
    /\ Initiated \in Field /\ Timeout \in Field /\ Caps \in Field
    /\ Toggles \subseteq Field /\ Debounces \subseteq Field /\ SleepEnable \in Toggles
    /\ \A l \in Lights : /\ <<l, "mode">> \in Field /\ <<l, "brightness">> \in Field
                         /\ <<l, "speed">> \in Field /\ <<l, "rgb">> \in Field
                         /\ <<l, "color">> \in Field
    /\ Initiated # Timeout /\ Initiated # Caps /\ Timeout # Caps
    /\ Initiated \notin Toggles \cup Debounces
    /\ Timeout \notin Toggles \cup Debounces
    /\ Caps \notin Toggles \cup Debounces
    /\ Toggles \cap Debounces = {}
    /\ \A f \in Field : f[2] = "rgb" => \E l \in Lights : f = <<l, "rgb">>
    /\ \A l \in Lights, n \in STRING :
          <<l, n>> \notin {Initiated, Timeout, Caps} \cup Toggles \cup Debounces
    /\ \A f \in {Initiated, Timeout, Caps} \cup Toggles \cup Debounces :
          f[2] \notin {"mode", "brightness", "speed", "rgb", "color"}
    /\ \A f \in Field : \/ f \in {Initiated, Timeout, Caps} \cup Toggles \cup Debounces
                        \/ f[2] \in {"mode", "brightness", "speed", "rgb", "color"}
<1>1. /\ KbField = {<<"kb", "been_initiated">>, <<"kb", "usb_sleep_toggle">>, <<"kb", "sleep_enable">>,
                     <<"kb", "debounce_press_ms">>, <<"kb", "debounce_release_ms">>,
                     <<"kb", "sleep_timeout">>, <<"kb", "caps_indication_type">>}
  <2>1. DOMAIN KbFields = 1 .. 7
    BY DEF KbFields
  <2>2. DOMAIN KbFields = {1, 2, 3, 4, 5, 6, 7}
    BY <2>1
  <2> QED
    BY <2>2 DEF KbField, KbFields
<1>2. \A f : f \in LightField <=>
         \E l \in Lights : \/ f = <<l, "mode">> \/ f = <<l, "brightness">> \/ f = <<l, "speed">>
                          \/ f = <<l, "rgb">> \/ f = <<l, "color">>
  <2>1. DOMAIN LightFields = 1 .. 5
    BY DEF LightFields
  <2>2. DOMAIN LightFields = {1, 2, 3, 4, 5}
    BY <2>1
  <2>3. \A f : f \in LightField <=> \E l \in Lights, i \in {1, 2, 3, 4, 5} : f = <<l, LightFields[i]>>
    BY <2>2 DEF LightField
  <2>4. /\ LightFields[1] = "mode" /\ LightFields[2] = "brightness" /\ LightFields[3] = "speed"
        /\ LightFields[4] = "rgb" /\ LightFields[5] = "color"
    BY DEF LightFields
  <2> QED
    BY <2>3, <2>4
<1>3. \A l \in Lights : l # "kb"
  BY ConfigAssumption
<1>4. /\ Initiated \in Field /\ Timeout \in Field /\ Caps \in Field
      /\ Toggles \subseteq Field /\ Debounces \subseteq Field /\ SleepEnable \in Toggles
  BY <1>1 DEF Field, Initiated, Timeout, Caps, Toggles, Debounces, SleepEnable
<1>5. \A l \in Lights : /\ <<l, "mode">> \in Field /\ <<l, "brightness">> \in Field
                         /\ <<l, "speed">> \in Field /\ <<l, "rgb">> \in Field
                         /\ <<l, "color">> \in Field
  BY <1>2 DEF Field
<1>6. /\ Initiated # Timeout /\ Initiated # Caps /\ Timeout # Caps
      /\ Initiated \notin Toggles \cup Debounces
      /\ Timeout \notin Toggles \cup Debounces
      /\ Caps \notin Toggles \cup Debounces
  BY DEF Initiated, Timeout, Caps, Toggles, Debounces, SleepEnable
<1>7. \A l \in Lights, n \in STRING :
          <<l, n>> \notin {Initiated, Timeout, Caps} \cup Toggles \cup Debounces
  BY <1>3 DEF Initiated, Timeout, Caps, Toggles, Debounces, SleepEnable
<1>8. \A f \in {Initiated, Timeout, Caps} \cup Toggles \cup Debounces :
          f[2] \notin {"mode", "brightness", "speed", "rgb", "color"}
  BY DEF Initiated, Timeout, Caps, Toggles, Debounces, SleepEnable
<1>9. Toggles \cap Debounces = {}
  BY DEF Toggles, Debounces, SleepEnable
<1>10. \A f \in Field : f[2] = "rgb" => \E l \in Lights : f = <<l, "rgb">>
  <2> SUFFICES ASSUME NEW f \in Field, f[2] = "rgb"
               PROVE  \E l \in Lights : f = <<l, "rgb">>
    OBVIOUS
  <2>1. f \notin KbField
    BY <1>1
  <2> QED
    BY <1>2, <2>1 DEF Field
<1>11. ASSUME NEW f \in Field
       PROVE  \/ f \in {Initiated, Timeout, Caps} \cup Toggles \cup Debounces
              \/ f[2] \in {"mode", "brightness", "speed", "rgb", "color"}
  <2>1. CASE f \in KbField
    BY <1>1, <2>1 DEF Initiated, Timeout, Caps, Toggles, Debounces, SleepEnable
  <2>2. CASE f \in LightField
    BY <1>2, <2>2
  <2> QED
    BY <2>1, <2>2 DEF Field
<1> QED
  BY <1>4, <1>5, <1>6, <1>7, <1>8, <1>9, <1>10, <1>11

\* Erased memory and the two sets of defaults are settings.
LEMMA DefaultSettings ==
    /\ Blank \in Settings /\ Blank[Initiated] # MARK
    /\ init_g_config \in Settings /\ init_g_config[Initiated] # MARK
    /\ Defaults \in Settings /\ Defaults[Initiated] = MARK /\ Defaults[Timeout] # 0
<1>1. Blank \in Settings /\ Blank[Initiated] # MARK
  BY FieldFacts, ConfigAssumption, SMTT(20) DEF Blank, Settings, MARK, Legal
<1>2. init_g_config \in Settings
  <2>1. ASSUME NEW f \in Field
        PROVE  Legal(f, init_g_config[f])
    <3> DEFINE v == init_g_config[f]
    <3>1. v = CASE f \in Toggles -> 1
                [] f \in Debounces -> DEBOUNCE
                [] f = Timeout -> TIMEOUT
                [] f[2] = "brightness" -> BRIGHTNESS
                [] f[2] = "speed" -> SPEED
                [] f[2] = "rgb" -> 1
                [] OTHER -> 0
      BY DEF init_g_config
    <3> HIDE DEF v
    <3>2. /\ f = Initiated => v = 0
          /\ f \in Toggles => v = 1
          /\ f \in Debounces => v = DEBOUNCE
          /\ f = Timeout => v = TIMEOUT
          /\ f = Caps => v = 0
      BY <3>1, FieldFacts
    <3>3. /\ f[2] = "brightness" => v = BRIGHTNESS
          /\ f[2] = "speed" => v = SPEED
          /\ f[2] = "rgb" => v = 1
          /\ f[2] \in {"mode", "color"} => v = 0
      BY <3>1, FieldFacts
    <3>4. v \in {1, DEBOUNCE, TIMEOUT, BRIGHTNESS, SPEED, 0}
      BY <3>1
    <3>5. v \in 0 .. 255
      BY <3>4, ConfigAssumption
    <3> QED
      BY <3>2, <3>3, <3>5, ConfigAssumption, SMTT(20) DEF Legal, v
  <2>2. \A f \in Field : init_g_config[f] \in 0 .. 255
    BY <2>1 DEF Legal
  <2> QED
    BY <2>1, <2>2 DEF Settings, init_g_config
<1>3. init_g_config[Initiated] = 0 /\ init_g_config[Timeout] = TIMEOUT
  BY FieldFacts DEF init_g_config
<1>4. Defaults \in Settings
  BY <1>2, FieldFacts DEF Defaults, Settings, Legal, MARK
<1>5. Defaults[Initiated] = MARK /\ Defaults[Timeout] # 0
  BY <1>2, <1>3, FieldFacts, ConfigAssumption DEF Defaults, Settings
<1> QED
  BY <1>1, <1>2, <1>3, <1>4, <1>5 DEF MARK

\* A save that is cut off leaves settings, and no mark that was not there.
LEMMA CutSettings ==
    ASSUME NEW old \in Settings, NEW new \in Settings, NEW f \in Field
    PROVE  /\ CutAt(old, new, f) \in Settings
           /\ old[Initiated] # MARK /\ new[Initiated] # MARK => CutAt(old, new, f)[Initiated] # MARK
  BY FieldFacts DEF CutAt, Settings

\* What keys, VIA and the battery keep of the settings.
Keeps(c, d) ==
    /\ d \in Settings
    /\ d[Initiated] = c[Initiated]
    /\ c[Timeout] # 0 => d[Timeout] # 0

LEMMA UpdateKeeps ==
    ASSUME NEW c \in Settings, NEW f \in Field, NEW v, Legal(f, v),
           f # Initiated, f = Timeout => v # 0 \/ c[f] = 0
    PROVE  Keeps(c, [c EXCEPT ![f] = v])
<1> DEFINE d == [c EXCEPT ![f] = v]
<1>1. d \in [Field -> 0 .. 255] /\ \A g \in Field : d[g] = IF g = f THEN v ELSE c[g]
  BY DEF Settings, Legal
<1> HIDE DEF d
<1>2. d \in Settings
  BY <1>1 DEF Settings
<1>3. Keeps(c, d)
  BY <1>1, <1>2, FieldFacts DEF Keeps
<1> QED
  BY <1>3 DEF d

\* What a setting is known to be.
LEMMA SettingFacts ==
    ASSUME NEW c \in Settings, NEW f \in Field
    PROVE  Legal(f, c[f]) /\ c[f] \in 0 .. 255
  BY DEF Settings

\* Each key keeps the settings in their ranges, initiated if they were, and the
\* time until sleep above 0 (user_kb.c:443-463, 619-647, side.c:87-191).
LEMMA KeysKeep ==
    ASSUME NEW c \in Settings
    PROVE  /\ \A f \in Toggles : Keeps(c, Toggle(c, f))
           /\ Keeps(c, toggle_caps_indication(c))
           /\ \A f \in Debounces, dir \in 0 .. 1 : Keeps(c, adjust_debounce(c, f, dir))
           /\ \A dir \in 0 .. 1 : Keeps(c, adjust_sleep_timeout(c, dir))
           /\ \A l \in Lights, b \in 0 .. 1 :
                 c[<<l, "brightness">>] # (IF b = 1 THEN BRIGHTNESS_MAX ELSE 0)
                   => Keeps(c, light_level_control(c, l, b))
           /\ \A l \in Lights, b \in 0 .. 1 : Keeps(c, light_speed_contol(c, l, b))
           /\ \A l \in Lights : Keeps(c, side_colour_control(c, l)) /\ Keeps(c, side_mode_control(c, l))
<1>1. ASSUME NEW f \in Toggles
      PROVE  Keeps(c, Toggle(c, f))
  <2>1. f \in Field /\ f \notin {Initiated, Timeout, Caps} \cup Debounces
    BY FieldFacts DEF Toggles, Debounces, SleepEnable
  <2>2. Legal(f, 1 - c[f])
    BY <2>1, SettingFacts, FieldFacts DEF Legal
  <2> QED
    BY <2>1, <2>2, UpdateKeeps DEF Toggle
<1>2. Keeps(c, toggle_caps_indication(c))
  <2> DEFINE v == IF c[Caps] = CAPS_INDICATOR_OFF THEN 0 ELSE c[Caps] + 1
  <2>1. Legal(Caps, v)
    <3>1. Caps \in Field
      BY FieldFacts
    <3>2. c[Caps] \in 0 .. CAPS_INDICATOR_OFF
      BY <3>1, SettingFacts, ConfigAssumption DEF Legal
    <3>3. v \in 0 .. CAPS_INDICATOR_OFF
      BY <3>2, ConfigAssumption
    <3> QED
      BY <3>3, FieldFacts, ConfigAssumption, SMTT(20) DEF Legal
  <2>2. toggle_caps_indication(c) = [c EXCEPT ![Caps] = v]
    BY FieldFacts DEF toggle_caps_indication, Settings
  <2> HIDE DEF v
  <2>3. Keeps(c, [c EXCEPT ![Caps] = v])
    BY <2>1, UpdateKeeps, FieldFacts
  <2> QED
    BY <2>2, <2>3
<1>3. ASSUME NEW f \in Debounces, NEW dir \in 0 .. 1
      PROVE  Keeps(c, adjust_debounce(c, f, dir))
  <2> DEFINE v == CASE dir = 1 /\ c[f] < DEBOUNCE_MAX -> c[f] + 1
                    [] dir = 0 /\ c[f] > 0 -> c[f] - 1
                    [] OTHER -> c[f]
  <2>1. f \in Field /\ f \notin {Initiated, Timeout, Caps} \cup Toggles
    BY FieldFacts DEF Toggles, Debounces, SleepEnable
  <2>2. v \in 0 .. DEBOUNCE_MAX
    <3>1. c[f] \in 0 .. DEBOUNCE_MAX
      BY <2>1, SettingFacts, ConfigAssumption DEF Legal
    <3> QED
      BY <3>1, ConfigAssumption
  <2>3. adjust_debounce(c, f, dir) = [c EXCEPT ![f] = v]
    BY <2>1 DEF adjust_debounce, Settings
  <2> HIDE DEF v
  <2>4. Legal(f, v)
    BY <2>1, <2>2, FieldFacts, ConfigAssumption DEF Legal
  <2>5. Keeps(c, [c EXCEPT ![f] = v])
    BY <2>1, <2>4, UpdateKeeps
  <2> QED
    BY <2>3, <2>5
<1>4. ASSUME NEW dir \in 0 .. 1
      PROVE  Keeps(c, adjust_sleep_timeout(c, dir))
  <2> DEFINE v == CASE dir = 0 /\ c[Timeout] > 1 -> c[Timeout] - 1
                    [] dir = 1 /\ c[Timeout] < TIMEOUT_MAX -> c[Timeout] + 1
                    [] OTHER -> c[Timeout]
  <2>1. v \in 0 .. TIMEOUT_MAX /\ (v # 0 \/ c[Timeout] = 0)
    <3>1. c[Timeout] \in 0 .. TIMEOUT_MAX
      <4>1. Timeout \in Field
        BY FieldFacts
      <4>2. Legal(Timeout, c[Timeout]) /\ c[Timeout] \in 0 .. 255
        BY <4>1, SettingFacts
      <4> QED
        BY <4>2, ConfigAssumption DEF Legal
    <3> QED
      BY <3>1, ConfigAssumption
  <2>2. adjust_sleep_timeout(c, dir) = [c EXCEPT ![Timeout] = v]
    BY FieldFacts DEF adjust_sleep_timeout, Settings
  <2> HIDE DEF v
  <2>3. Legal(Timeout, v)
    BY <2>1, FieldFacts, ConfigAssumption DEF Legal
  <2>4. Keeps(c, [c EXCEPT ![Timeout] = v])
    BY <2>1, <2>3, UpdateKeeps, FieldFacts
  <2> QED
    BY <2>2, <2>4
<1>5. ASSUME NEW l \in Lights, NEW b \in 0 .. 1,
             c[<<l, "brightness">>] # (IF b = 1 THEN BRIGHTNESS_MAX ELSE 0)
      PROVE  Keeps(c, light_level_control(c, l, b))
  <2> DEFINE f == <<l, "brightness">>
             v == IF b = 1 THEN c[f] + 1 ELSE c[f] - 1
  <2>1. /\ f \in Field /\ f[2] = "brightness"
        /\ f \notin {Initiated, Timeout, Caps} \cup Toggles \cup Debounces
    BY FieldFacts
  <2>2. light_level_control(c, l, b) = [c EXCEPT ![f] = v]
    BY <2>1 DEF light_level_control, Settings
  <2>3. c[f] \in 0 .. BRIGHTNESS_MAX /\ c[f] # (IF b = 1 THEN BRIGHTNESS_MAX ELSE 0)
    BY <2>1, <1>5, SettingFacts, ConfigAssumption DEF Legal
  <2> HIDE DEF f
  <2>4. v \in 0 .. BRIGHTNESS_MAX
    BY <2>3, ConfigAssumption
  <2> HIDE DEF v
  <2>5. Legal(f, v)
    BY <2>1, <2>4, ConfigAssumption DEF Legal
  <2>6. Keeps(c, [c EXCEPT ![f] = v])
    BY <2>1, <2>5, UpdateKeeps
  <2> QED
    BY <2>2, <2>6
<1>6. ASSUME NEW l \in Lights, NEW b \in 0 .. 1
      PROVE  Keeps(c, light_speed_contol(c, l, b))
  <2> DEFINE f == <<l, "speed">>
             s == IF c[f] > LIGHT_SPEED_MAX THEN LIGHT_SPEED_MAX \div 2 ELSE c[f]
             v == CASE b = 1 /\ s > 0 -> s - 1
                    [] b = 0 /\ s < LIGHT_SPEED_MAX -> s + 1
                    [] OTHER -> s
  <2>1. /\ f \in Field /\ f[2] = "speed"
        /\ f \notin {Initiated, Timeout, Caps} \cup Toggles \cup Debounces
    BY FieldFacts
  <2>2. light_speed_contol(c, l, b) = [c EXCEPT ![f] = v]
    BY <2>1 DEF light_speed_contol, Settings
  <2> HIDE DEF f
  <2>3. c[f] \in 0 .. LIGHT_SPEED_MAX
    BY <2>1, SettingFacts, ConfigAssumption DEF Legal
  <2>4. v \in 0 .. LIGHT_SPEED_MAX
    BY <2>3, ConfigAssumption
  <2> HIDE DEF v
  <2>5. Legal(f, v)
    BY <2>1, <2>4, ConfigAssumption DEF Legal
  <2>6. Keeps(c, [c EXCEPT ![f] = v])
    BY <2>1, <2>5, UpdateKeeps
  <2> QED
    BY <2>2, <2>6
<1>7. ASSUME NEW l \in Lights
      PROVE  Keeps(c, side_mode_control(c, l))
  <2> DEFINE f == <<l, "mode">>
             v == IF c[f] + 1 > SIDE_OFF THEN 0 ELSE c[f] + 1
  <2>1. /\ f \in Field /\ f[2] = "mode"
        /\ f \notin {Initiated, Timeout, Caps} \cup Toggles \cup Debounces
    BY FieldFacts
  <2>2. side_mode_control(c, l) = [c EXCEPT ![f] = v]
    BY <2>1 DEF side_mode_control, Settings
  <2> HIDE DEF f
  <2>3. v \in 0 .. SIDE_OFF
    BY <2>1, SettingFacts, ConfigAssumption, SMTT(20) DEF Legal
  <2> HIDE DEF v
  <2>4. Legal(f, v)
    BY <2>1, <2>3, ConfigAssumption DEF Legal
  <2>5. Keeps(c, [c EXCEPT ![f] = v])
    BY <2>1, <2>4, UpdateKeeps
  <2> QED
    BY <2>2, <2>5
<1>8. ASSUME NEW l \in Lights, NEW d \in Settings, NEW rgb \in 0 .. 1,
             NEW colour \in 0 .. LIGHT_COLOUR_MAX - 1
      PROVE  Keeps(d, SetColour(d, l, rgb, colour))
  <2> DEFINE f == <<l, "rgb">>
             g == <<l, "color">>
             e == [d EXCEPT ![f] = rgb]
  <2>1. /\ f \in Field /\ f[2] = "rgb" /\ g \in Field /\ g[2] = "color"
        /\ f \notin {Initiated, Timeout, Caps} \cup Toggles \cup Debounces
        /\ g \notin {Initiated, Timeout, Caps} \cup Toggles \cup Debounces
    BY FieldFacts
  <2>2. SetColour(d, l, rgb, colour) = [e EXCEPT ![g] = colour]
    BY DEF SetColour
  <2> HIDE DEF f, g
  <2>3. Keeps(d, e)
    <3>1. Legal(f, rgb)
      BY <2>1 DEF Legal
    <3> QED
      BY <2>1, <3>1, UpdateKeeps
  <2> HIDE DEF e
  <2>4. Legal(g, colour)
    BY <2>1, ConfigAssumption DEF Legal
  <2>5. Keeps(e, [e EXCEPT ![g] = colour])
    BY <2>1, <2>3, <2>4, UpdateKeeps DEF Keeps
  <2> QED
    BY <2>2, <2>3, <2>5 DEF Keeps
<1>9. ASSUME NEW l \in Lights, NEW d \in Settings
      PROVE  Keeps(d, NextColour(d, l))
  <2> DEFINE colour == (d[<<l, "color">>] + 1) % 256
  <2>1. d[<<l, "color">>] \in 0 .. 255
    BY FieldFacts, SettingFacts
  <2>2. colour \in 0 .. 255
    BY <2>1
  <2>3. 0 \in 0 .. LIGHT_COLOUR_MAX - 1
    BY ConfigAssumption
  <2>4. NextColour(d, l) = IF d[<<l, "rgb">>] = 1 THEN SetColour(d, l, 0, 0)
                           ELSE IF colour >= LIGHT_COLOUR_MAX THEN SetColour(d, l, 1, 0)
                           ELSE SetColour(d, l, 0, colour)
    BY DEF NextColour
  <2> HIDE DEF colour
  <2>5. ~(colour >= LIGHT_COLOUR_MAX) => colour \in 0 .. LIGHT_COLOUR_MAX - 1
    BY <2>2, ConfigAssumption
  <2> QED
    BY <2>3, <2>4, <2>5, <1>8
<1>10. ASSUME NEW l \in Lights
       PROVE  Keeps(c, side_colour_control(c, l))
  <2> DEFINE d == IF c[<<l, "mode">>] \notin {0, 1} /\ c[<<l, "rgb">>] = 1
                  THEN SetColour(c, l, 0, 0) ELSE c
  <2>1. Keeps(c, d)
    <3>1. Keeps(c, c)
      BY DEF Keeps
    <3>2. 0 \in 0 .. LIGHT_COLOUR_MAX - 1
      BY ConfigAssumption
    <3> QED
      BY <3>1, <3>2, <1>8
  <2>2. side_colour_control(c, l) = NextColour(d, l)
    BY DEF side_colour_control
  <2> HIDE DEF d
  <2> QED
    BY <2>1, <2>2, <1>9 DEF Keeps
<1> QED
  BY <1>1, <1>2, <1>3, <1>4, <1>5, <1>6, <1>7, <1>10

\* So do VIA's writes, which are options of its menus (ansi.c:543-600).
LEMMA ViaKeeps ==
    ASSUME NEW c \in Settings, NEW f \in ViaField, NEW v \in ViaOptions(f)
    PROVE  Keeps(c, [c EXCEPT ![f] = IF f = Timeout THEN v + 1 ELSE v])
<1>1. f \in Field /\ f # Initiated /\ \A l \in Lights : f # <<l, "rgb">>
  BY DEF ViaField
<1>2. CASE f = Timeout
  <2>1. ViaOptions(f) = 0 .. TIMEOUT_MAX - 1
    BY <1>2, FieldFacts DEF ViaOptions
  <2>2. v + 1 \in 1 .. TIMEOUT_MAX /\ v + 1 \in 0 .. 255
    <3>1. v \in 0 .. TIMEOUT_MAX - 1
      BY <2>1
    <3> QED
      BY <3>1, ConfigAssumption
  <2>3. Legal(f, v + 1) /\ v + 1 # 0
    BY <1>2, <2>2, FieldFacts DEF Legal
  <2>4. Keeps(c, [c EXCEPT ![f] = v + 1])
    BY <1>1, <2>3, UpdateKeeps
  <2> QED
    BY <1>2, <2>4
<1>3. CASE f # Timeout
  <2>1. f[2] # "rgb"
    BY <1>1, FieldFacts
  <2>2. Legal(f, v)
    <3>1. CASE f \in Toggles
      <4>1. ViaOptions(f) = 0 .. 1
        BY <3>1, <1>3, FieldFacts DEF ViaOptions
      <4> QED
        BY <1>1, <1>3, <3>1, <4>1, FieldFacts DEF Legal
    <3>2. CASE f \in Debounces
      <4>1. ViaOptions(f) = 0 .. VIA_DEBOUNCE_MAX
        BY <3>2, <1>3, FieldFacts DEF ViaOptions
      <4>2. v \in 0 .. VIA_DEBOUNCE_MAX
        BY <4>1
      <4>3. v \in 0 .. 255 /\ v <= DEBOUNCE_MAX
        BY <4>2, ConfigAssumption
      <4> QED
        BY <1>1, <1>3, <3>2, <4>3, FieldFacts DEF Legal
    <3>3. CASE f = Caps
      BY <1>1, <1>3, <3>3, FieldFacts, ConfigAssumption DEF ViaOptions, Legal
    <3>4. CASE f \notin Toggles \cup Debounces \cup {Caps}
      BY <1>1, <1>3, <2>1, <3>4, FieldFacts, ConfigAssumption, SMTT(20) DEF ViaOptions, Legal
    <3> QED
      BY <3>1, <3>2, <3>3, <3>4
  <2>3. Keeps(c, [c EXCEPT ![f] = v])
    BY <1>1, <1>3, <2>2, UpdateKeeps
  <2> QED
    BY <1>3, <2>3
<1> QED
  BY <1>2, <1>3

\* And the dimming at a low battery (side.c:875-898).
LEMMA DimKeeps ==
    ASSUME NEW c \in Settings
    PROVE  Keeps(c, [f \in Field |-> IF f[2] = "brightness" /\ c[f] > 1 THEN 1 ELSE c[f]])
<1> DEFINE d == [f \in Field |-> IF f[2] = "brightness" /\ c[f] > 1 THEN 1 ELSE c[f]]
<1>1. ASSUME NEW f \in Field
      PROVE  Legal(f, d[f])
  <2>1. Legal(f, c[f]) /\ c[f] \in 0 .. 255
    BY SettingFacts
  <2>2. d[f] = IF f[2] = "brightness" /\ c[f] > 1 THEN 1 ELSE c[f]
    OBVIOUS
  <2> HIDE DEF d
  <2>3. CASE f[2] = "brightness" /\ c[f] > 1
    BY <2>1, <2>2, <2>3, FieldFacts, ConfigAssumption DEF Legal
  <2> QED
    BY <2>1, <2>2, <2>3
<1>2. d \in Settings
  BY <1>1 DEF Settings, Legal
<1>3. d[Initiated] = c[Initiated] /\ d[Timeout] = c[Timeout]
  BY FieldFacts
<1> QED
  BY <1>2, <1>3 DEF Keeps

-----------------------------------------------------------------------------
(* The steps *)

LEMMA InitEstablishes == Init => ConfigInv
<1> SUFFICES ASSUME Init PROVE ConfigInv
  OBVIOUS
<1>1. rom.cfg = Blank /\ rom.eeconfig = FALSE /\ rom.via = FALSE
  BY DEF Init, ErasedRom
<1>2. Typed
  <2>1. rom \in [cfg : Settings, eeconfig : BOOLEAN, via : BOOLEAN]
    BY DefaultSettings DEF Init, ErasedRom
  <2>2. unsaved \in 0 .. MaxUnsaved
    BY ConfigAssumption DEF Init
  <2> QED
    BY <2>1, <2>2, DefaultSettings DEF Init, Typed, Phases
<1> QED
  BY <1>1, <1>2, DefaultSettings DEF Init, ConfigInv, Marks, Loaded, Owed, Running

\* A save that is cut off: only the marks matter, and those it leaves alone.
LEMMA CutPreserves ==
    ASSUME ConfigInv, NEW new \in Settings, new[Initiated] = MARK => rom.eeconfig,
           NEW f \in Field, rom' = [rom EXCEPT !.cfg = CutAt(rom.cfg, new, f)],
           Off, cut' = TRUE, due' = Defaults
    PROVE  ConfigInv'
<1> DEFINE torn == CutAt(rom.cfg, new, f)
<1>1. rom \in [cfg : Settings, eeconfig : BOOLEAN, via : BOOLEAN] /\ rom.cfg \in Settings
  BY DEF ConfigInv, Typed
<1>2. torn \in Settings /\ (rom.cfg[Initiated] # MARK /\ new[Initiated] # MARK => torn[Initiated] # MARK)
  BY <1>1, CutSettings
<1> HIDE DEF torn
<1>3. /\ rom' \in [cfg : Settings, eeconfig : BOOLEAN, via : BOOLEAN]
      /\ rom'.cfg = torn /\ rom'.eeconfig = rom.eeconfig /\ rom'.via = rom.via
  BY <1>1, <1>2 DEF torn
<1>4. Typed'
  <2>1. unsaved' \in 0 .. MaxUnsaved
    BY ConfigAssumption DEF Off
  <2> QED
    BY <1>3, <2>1, DefaultSettings DEF Typed, Off, Phases
<1>5. Marks'
  <2>1. ~rom.eeconfig => torn[Initiated] # MARK
    BY <1>2 DEF ConfigInv, Marks
  <2> QED
    BY <1>3, <2>1 DEF Marks, Off
<1> QED
  BY <1>4, <1>5 DEF ConfigInv, Loaded, Owed, Running, Off

\* A save of initiated settings when both marks are there.
LEMMA SavePreserves ==
    ASSUME ConfigInv, NEW new \in Settings, new[Initiated] = MARK, rom.eeconfig, rom.via,
           cut \/ new[Timeout] # 0,
           SaveThen(new, "run", new)
    PROVE  ConfigInv'
<1>1. CASE Off /\ cut' = TRUE /\ due' = Defaults
           /\ \E torn \in {CutAt(rom.cfg, new, f) : f \in Field} : rom' = [rom EXCEPT !.cfg = torn]
  BY <1>1, CutPreserves
<1>2. CASE /\ phase' = "run" /\ cfg' = new /\ rom' = [rom EXCEPT !.cfg = new] /\ unsaved' = 0
           /\ due' = new /\ cut' = (cut /\ new \notin {Defaults, init_g_config})
  <2>1. rom \in [cfg : Settings, eeconfig : BOOLEAN, via : BOOLEAN] /\ cut \in BOOLEAN
    BY DEF ConfigInv, Typed
  <2>2. /\ rom' \in [cfg : Settings, eeconfig : BOOLEAN, via : BOOLEAN]
        /\ rom'.cfg = new /\ rom'.eeconfig = rom.eeconfig /\ rom'.via = rom.via
    BY <1>2, <2>1
  <2>3. Typed'
    <3>1. unsaved' \in 0 .. MaxUnsaved
      BY <1>2, ConfigAssumption
    <3> QED
      BY <1>2, <2>1, <2>2, <3>1 DEF Typed, Phases
  <2>4. ~cut' => new[Timeout] # 0
    BY <1>2, DefaultSettings
  <2> QED
    BY <1>2, <2>2, <2>3, <2>4 DEF ConfigInv, Marks, Loaded, Owed, Running
<1> QED
  BY <1>1, <1>2 DEF SaveThen

\* Start-up, wherever power fails in it (ansi.c:523-541, user_kb.c:405-442,
\* quantum/via.c:62-119, quantum/eeconfig.c:45-87).
LEMMA StartUpPreserves == ConfigInv /\ StartUp => ConfigInv'
<1> SUFFICES ASSUME ConfigInv, StartUp PROVE ConfigInv'
  OBVIOUS
<1>0. /\ rom \in [cfg : Settings, eeconfig : BOOLEAN, via : BOOLEAN]
      /\ cfg \in Settings /\ due \in Settings /\ cut \in BOOLEAN /\ phase \in Phases
      /\ unsaved \in 0 .. MaxUnsaved
  BY DEF ConfigInv, Typed
<1>1. CASE via_init_kb /\ rom.via
  <2>1. phase = "off" /\ phase' = "via_init" /\ cfg' = rom.cfg /\ UNCHANGED <<rom, unsaved, due, cut>>
    BY <1>1 DEF via_init_kb, history
  <2>2. Typed'
    BY <1>0, <2>1 DEF Typed, Phases
  <2> QED
    BY <1>1, <2>1, <2>2 DEF ConfigInv, Marks, Loaded, Owed, Running
<1>2. CASE via_init_kb /\ ~rom.via
  <2>1. phase = "off" /\ SaveThen(init_g_config, "via_init", due)
    BY <1>2 DEF via_init_kb
  <2>2. due = Defaults
    BY <1>2 DEF ConfigInv, Marks
  <2>3. CASE Off /\ cut' = TRUE /\ due' = Defaults
             /\ \E torn \in {CutAt(rom.cfg, init_g_config, f) : f \in Field} :
                   rom' = [rom EXCEPT !.cfg = torn]
    BY <2>3, CutPreserves, DefaultSettings
  <2>4. CASE /\ phase' = "via_init" /\ cfg' = init_g_config /\ rom' = [rom EXCEPT !.cfg = init_g_config]
             /\ unsaved' = 0 /\ due' = due
             /\ cut' = (cut /\ init_g_config \notin {Defaults, init_g_config})
    <3>1. /\ rom' \in [cfg : Settings, eeconfig : BOOLEAN, via : BOOLEAN]
          /\ rom'.cfg = init_g_config /\ rom'.eeconfig = rom.eeconfig /\ rom'.via = rom.via
      BY <1>0, <2>4, DefaultSettings
    <3>2. Typed'
      <4>1. unsaved' \in 0 .. MaxUnsaved
        BY <2>4, ConfigAssumption
      <4> QED
        BY <1>0, <2>4, <3>1, <4>1, DefaultSettings DEF Typed, Phases
    <3> QED
      BY <2>2, <2>4, <3>1, <3>2, DefaultSettings DEF ConfigInv, Marks, Loaded, Owed, Running
  <2> QED
    BY <2>1, <2>3, <2>4 DEF SaveThen
<1>3. CASE via_init
  <2>1. /\ phase = "via_init" /\ phase' = "quantum_init" /\ UNCHANGED <<cfg, unsaved, due, cut>>
        /\ rom' = [rom EXCEPT !.via = TRUE]
    BY <1>3 DEF via_init, history
  <2>2. /\ rom' \in [cfg : Settings, eeconfig : BOOLEAN, via : BOOLEAN]
        /\ rom'.cfg = rom.cfg /\ rom'.eeconfig = rom.eeconfig /\ rom'.via = TRUE
    BY <1>0, <2>1
  <2>3. Typed'
    BY <1>0, <2>1, <2>2 DEF Typed, Phases
  <2> QED
    BY <2>1, <2>2, <2>3 DEF ConfigInv, Marks, Loaded, Owed, Running
<1>4. CASE quantum_init
  <2>1. /\ phase = "quantum_init" /\ UNCHANGED <<cfg, rom, unsaved, due, cut>>
        /\ phase' = IF rom.eeconfig /\ rom.via THEN "post_init" ELSE "eeconfig_init"
    BY <1>4 DEF quantum_init, history
  <2>2. Typed'
    BY <1>0, <2>1 DEF Typed, Phases
  <2> QED
    BY <2>1, <2>2 DEF ConfigInv, Marks, Loaded, Owed, Running
<1>5. CASE EeconfigErase("eeconfig_init", "eeconfig_via")
  <2>1. /\ phase = "eeconfig_init" /\ phase' = "eeconfig_via" /\ UNCHANGED <<cfg, unsaved>>
        /\ rom' = [ErasedRom EXCEPT !.eeconfig = TRUE] /\ due' = Defaults /\ cut' = FALSE
    BY <1>5 DEF EeconfigErase
  <2>2. /\ rom' \in [cfg : Settings, eeconfig : BOOLEAN, via : BOOLEAN]
        /\ rom'.cfg = Blank /\ rom'.eeconfig = TRUE /\ rom'.via = FALSE
    BY <2>1, DefaultSettings DEF ErasedRom
  <2>3. Typed'
    BY <1>0, <2>1, <2>2, DefaultSettings DEF Typed, Phases
  <2> QED
    BY <2>1, <2>2, <2>3, DefaultSettings DEF ConfigInv, Marks, Loaded, Owed, Running
<1>6. CASE EeconfigVia("eeconfig_via", "post_init")
  <2>1. /\ phase = "eeconfig_via" /\ phase' = "post_init" /\ UNCHANGED <<cfg, unsaved, due, cut>>
        /\ rom' = [rom EXCEPT !.via = TRUE]
    BY <1>6 DEF EeconfigVia, history
  <2>2. /\ rom' \in [cfg : Settings, eeconfig : BOOLEAN, via : BOOLEAN]
        /\ rom'.cfg = rom.cfg /\ rom'.eeconfig = rom.eeconfig /\ rom'.via = TRUE
    BY <1>0, <2>1
  <2>3. Typed'
    BY <1>0, <2>1, <2>2 DEF Typed, Phases
  <2> QED
    BY <2>1, <2>2, <2>3 DEF ConfigInv, Marks, Loaded, Owed, Running
<1>7. CASE bootmagic
  <2>1. rom' = ErasedRom /\ due' = Defaults /\ cut' = FALSE /\ Off
    BY <1>7 DEF bootmagic
  <2>2. /\ rom' \in [cfg : Settings, eeconfig : BOOLEAN, via : BOOLEAN]
        /\ rom'.cfg = Blank /\ rom'.eeconfig = FALSE /\ rom'.via = FALSE
    BY <2>1, DefaultSettings DEF ErasedRom
  <2>3. Typed'
    <3>1. unsaved' \in 0 .. MaxUnsaved
      BY <2>1, ConfigAssumption DEF Off
    <3> QED
      BY <2>1, <2>2, <3>1, DefaultSettings DEF Typed, Phases, Off
  <2> QED
    BY <2>1, <2>2, <2>3, DefaultSettings DEF ConfigInv, Marks, Loaded, Owed, Running, Off
<1>8. CASE load_eeprom_data /\ cfg[Initiated] # MARK
  <2>1. phase = "post_init" /\ SaveThen(Defaults, "run", Defaults)
    BY <1>8 DEF load_eeprom_data, user_config_reset
  <2>2. rom.eeconfig /\ rom.via
    BY <2>1 DEF ConfigInv, Marks
  <2> QED
    BY <2>1, <2>2, SavePreserves, DefaultSettings
<1>9. CASE load_eeprom_data /\ cfg[Initiated] = MARK
  <2>1. phase = "post_init" /\ phase' = "run" /\ UNCHANGED <<cfg, rom, unsaved, due, cut>>
    BY <1>9 DEF load_eeprom_data, history
  <2>2. Typed'
    BY <1>0, <2>1 DEF Typed, Phases
  <2> QED
    BY <1>9, <2>1, <2>2 DEF ConfigInv, Marks, Loaded, Owed, Running
<1> QED
  BY <1>1, <1>2, <1>3, <1>4, <1>5, <1>6, <1>7, <1>8, <1>9 DEF StartUp

\* The factory reset, wherever power fails in it (user_kb.c:137-169).
LEMMA FactoryResetPreserves == ConfigInv /\ FactoryReset => ConfigInv'
<1> SUFFICES ASSUME ConfigInv, FactoryReset PROVE ConfigInv'
  OBVIOUS
<1>0. /\ rom \in [cfg : Settings, eeconfig : BOOLEAN, via : BOOLEAN]
      /\ cfg \in Settings /\ due \in Settings /\ cut \in BOOLEAN
      /\ unsaved \in 0 .. MaxUnsaved
  BY DEF ConfigInv, Typed
<1>1. CASE EeconfigErase("run", "reset_via")
  <2>1. /\ phase' = "reset_via" /\ UNCHANGED <<cfg, unsaved>>
        /\ rom' = [ErasedRom EXCEPT !.eeconfig = TRUE] /\ due' = Defaults /\ cut' = FALSE
    BY <1>1 DEF EeconfigErase
  <2>2. /\ rom' \in [cfg : Settings, eeconfig : BOOLEAN, via : BOOLEAN]
        /\ rom'.cfg = Blank /\ rom'.eeconfig = TRUE /\ rom'.via = FALSE
    BY <2>1, DefaultSettings DEF ErasedRom
  <2>3. Typed'
    BY <1>0, <2>1, <2>2, DefaultSettings DEF Typed, Phases
  <2> QED
    BY <2>1, <2>2, <2>3, DefaultSettings DEF ConfigInv, Marks, Loaded, Owed, Running
<1>2. CASE EeconfigVia("reset_via", "device_reset_show")
  <2>1. /\ phase = "reset_via" /\ phase' = "device_reset_show" /\ UNCHANGED <<cfg, unsaved, due, cut>>
        /\ rom' = [rom EXCEPT !.via = TRUE]
    BY <1>2 DEF EeconfigVia, history
  <2>2. /\ rom' \in [cfg : Settings, eeconfig : BOOLEAN, via : BOOLEAN]
        /\ rom'.cfg = rom.cfg /\ rom'.eeconfig = rom.eeconfig /\ rom'.via = TRUE
    BY <1>0, <2>1
  <2>3. Typed'
    BY <1>0, <2>1, <2>2 DEF Typed, Phases
  <2> QED
    BY <2>1, <2>2, <2>3 DEF ConfigInv, Marks, Loaded, Owed, Running
<1>3. CASE phase = "device_reset_show" /\ user_config_reset
  <2>1. rom.eeconfig /\ rom.via
    BY <1>3 DEF ConfigInv, Marks
  <2> QED
    BY <1>3, <2>1, SavePreserves, DefaultSettings DEF user_config_reset
<1> QED
  BY <1>1, <1>2, <1>3 DEF FactoryReset

\* A key and VIA's save: what they save keeps what g_config was.
LEMMA KeySavePreserves ==
    ASSUME ConfigInv, NEW new, Keeps(cfg, new), Save(new)
    PROVE  ConfigInv'
<1>1. phase = "run" /\ SaveThen(new, "run", new)
  BY DEF Save
<1>2. rom.eeconfig /\ rom.via /\ cfg[Initiated] = MARK /\ (cut \/ cfg[Timeout] # 0)
  BY <1>1 DEF ConfigInv, Marks, Loaded, Running
<1>3. new \in Settings /\ new[Initiated] = MARK /\ (cut \/ new[Timeout] # 0)
  BY <1>2 DEF Keeps
<1> QED
  BY <1>1, <1>2, <1>3, SavePreserves

LEMMA KeyEventPreserves == ConfigInv /\ KeyEvent => ConfigInv'
<1> SUFFICES ASSUME ConfigInv, KeyEvent PROVE ConfigInv'
  OBVIOUS
<1>0. cfg \in Settings
  BY DEF ConfigInv, Typed
<1>1. ASSUME NEW f \in Toggles, ToggleKey(f) PROVE ConfigInv'
  BY <1>0, <1>1, KeysKeep, KeySavePreserves DEF ToggleKey
<1>2. CASE CapsKey
  BY <1>0, <1>2, KeysKeep, KeySavePreserves DEF CapsKey
<1>3. ASSUME NEW f \in Debounces, NEW dir \in 0 .. 1, DebounceKey(f, dir) PROVE ConfigInv'
  BY <1>0, <1>3, KeysKeep, KeySavePreserves DEF DebounceKey
<1>4. ASSUME NEW dir \in 0 .. 1, TimeoutKey(dir) PROVE ConfigInv'
  BY <1>0, <1>4, KeysKeep, KeySavePreserves DEF TimeoutKey
<1>5. ASSUME NEW l \in Lights, NEW dir \in 0 .. 1, LevelKey(l, dir) PROVE ConfigInv'
  <2>1. Keeps(cfg, light_level_control(cfg, l, dir))
    BY <1>0, <1>5, KeysKeep DEF LevelKey
  <2> QED
    BY <1>5, <2>1, KeySavePreserves DEF LevelKey
<1>6. ASSUME NEW l \in Lights, NEW dir \in 0 .. 1, SpeedKey(l, dir) PROVE ConfigInv'
  BY <1>0, <1>6, KeysKeep, KeySavePreserves DEF SpeedKey
<1>7. ASSUME NEW l \in Lights, ColourKey(l) \/ ModeKey(l) PROVE ConfigInv'
  BY <1>0, <1>7, KeysKeep, KeySavePreserves DEF ColourKey, ModeKey
<1> QED
  BY <1>1, <1>2, <1>3, <1>4, <1>5, <1>6, <1>7 DEF KeyEvent

\* g_config changes without a save: VIA's writes and the low battery.
LEMMA UnsavedPreserves ==
    ASSUME ConfigInv, phase = "run", Keeps(cfg, cfg'), unsaved' \in 0 .. MaxUnsaved,
           UNCHANGED <<phase, rom, due, cut>>
    PROVE  ConfigInv'
<1>1. cfg' \in Settings /\ cfg'[Initiated] = cfg[Initiated] /\ (cfg[Timeout] # 0 => cfg'[Timeout] # 0)
  BY DEF Keeps
<1>2. Typed'
  BY <1>1 DEF ConfigInv, Typed
<1> QED
  BY <1>1, <1>2 DEF ConfigInv, Marks, Loaded, Owed, Running

LEMMA PowerPreserves == ConfigInv /\ (PowerLoss \/ FlashFirmware) => ConfigInv'
<1> SUFFICES ASSUME ConfigInv, PowerLoss \/ FlashFirmware PROVE ConfigInv'
  OBVIOUS
<1>0. /\ rom \in [cfg : Settings, eeconfig : BOOLEAN, via : BOOLEAN]
      /\ cfg \in Settings /\ due \in Settings /\ cut \in BOOLEAN
      /\ unsaved \in 0 .. MaxUnsaved
  BY DEF ConfigInv, Typed
<1>1. CASE PowerLoss
  <2>1. phase # "off" /\ phase' = "off" /\ cfg' = Blank /\ unsaved' = 0 /\ UNCHANGED <<rom, due, cut>>
    BY <1>1 DEF PowerLoss, Off, history
  <2>2. Typed'
    <3>1. unsaved' \in 0 .. MaxUnsaved
      BY <2>1, ConfigAssumption
    <3> QED
      BY <1>0, <2>1, <3>1, DefaultSettings DEF Typed, Phases
  <2> QED
    BY <2>1, <2>2 DEF ConfigInv, Marks, Loaded, Owed, Running
<1>2. CASE FlashFirmware
  <2>1. /\ phase = "off" /\ rom' = [rom EXCEPT !.via = FALSE] /\ due' = Defaults /\ cut' = FALSE
        /\ UNCHANGED <<phase, cfg, unsaved>>
    BY <1>2 DEF FlashFirmware
  <2>2. /\ rom' \in [cfg : Settings, eeconfig : BOOLEAN, via : BOOLEAN]
        /\ rom'.cfg = rom.cfg /\ rom'.eeconfig = rom.eeconfig /\ rom'.via = FALSE
    BY <1>0, <2>1
  <2>3. Typed'
    BY <1>0, <2>1, <2>2, DefaultSettings DEF Typed, Phases
  <2> QED
    BY <2>1, <2>2, <2>3 DEF ConfigInv, Marks, Loaded, Owed, Running
<1> QED
  BY <1>1, <1>2

LEMMA NextPreserves == ConfigInv /\ [Next]_vars => ConfigInv'
<1> SUFFICES ASSUME ConfigInv, [Next]_vars PROVE ConfigInv'
  OBVIOUS
<1>0. cfg \in Settings /\ unsaved \in 0 .. MaxUnsaved
  BY DEF ConfigInv, Typed
<1>1. ASSUME NEW f \in ViaField, NEW v \in ViaOptions(f), via_config_set_value(f, v)
      PROVE  ConfigInv'
  <2>1. /\ phase = "run" /\ unsaved < MaxUnsaved /\ unsaved' = unsaved + 1
        /\ UNCHANGED <<phase, rom, due, cut>>
        /\ cfg' = [cfg EXCEPT ![f] = IF f = Timeout THEN v + 1 ELSE v]
    BY <1>1 DEF via_config_set_value, history
  <2>2. Keeps(cfg, cfg')
    BY <1>0, <2>1, ViaKeeps
  <2>3. unsaved' \in 0 .. MaxUnsaved
    BY <1>0, <2>1, ConfigAssumption
  <2> QED
    BY <2>1, <2>2, <2>3, UnsavedPreserves
<1>2. CASE ViaSave
  <2>1. Keeps(cfg, cfg)
    BY <1>0 DEF Keeps
  <2> QED
    BY <1>2, <2>1, KeySavePreserves DEF ViaSave
<1>3. CASE LowBattery
  <2>1. /\ phase = "run" /\ UNCHANGED <<phase, rom, unsaved, due, cut>>
        /\ cfg' = [f \in Field |-> IF f[2] = "brightness" /\ cfg[f] > 1 THEN 1 ELSE cfg[f]]
    BY <1>3 DEF LowBattery, history
  <2>2. Keeps(cfg, cfg')
    BY <1>0, <2>1, DimKeeps
  <2> QED
    BY <1>0, <2>1, <2>2, UnsavedPreserves
<1>4. CASE UNCHANGED vars
  BY <1>4 DEF vars, history, ConfigInv, Typed, Marks, Loaded, Owed, Running
<1> QED
  BY <1>1, <1>2, <1>3, <1>4, StartUpPreserves, FactoryResetPreserves, KeyEventPreserves,
     PowerPreserves DEF Next

-----------------------------------------------------------------------------
(* Theorems *)

\* The inductive invariant holds whatever the limits of the settings are.
THEOREM Invariance == Spec => []ConfigInv
  BY InitEstablishes, NextPreserves, PTL DEF Spec

\* Settings are bytes in RAM and in the EEPROM, after a torn save too (uint8_t,
\* ansi.h:95-116).
THEOREM TypeCorrect == Spec => []TypeOK
<1>1. ConfigInv => TypeOK
  <2>1. Settings \subseteq [Field -> 0 .. 255]
    BY DEF Settings
  <2> QED
    BY <2>1 DEF ConfigInv, Typed, Phases, TypeOK
<1> QED
  BY <1>1, Invariance, PTL

\* A keyboard that runs has both marks in its EEPROM, wherever power failed
\* before (quantum/via.c:93-119, quantum/eeconfig.c:43-127).
THEOREM RunsMarkedAlways == Spec => []RunsMarked
<1>1. ConfigInv => RunsMarked
  BY DEF ConfigInv, Marks, RunsMarked
<1> QED
  BY <1>1, Invariance, PTL

\* Unless a save was cut off, a keyboard that runs has settings its tables and
\* timers are made for (ansi.c:528-541, user_kb.c:405-442).
THEOREM DataIsGoodAlways == Spec => []DataIsGood
<1>1. ASSUME ConfigInv, phase = "run", ~cut PROVE Good(cfg)
  <2>1. cfg \in Settings /\ cfg[Initiated] = MARK /\ cfg[Timeout] # 0
    BY <1>1 DEF ConfigInv, Typed, Loaded, Running
  <2>2. cfg[Timeout] \in 1 .. TIMEOUT_MAX /\ cfg[Caps] <= CAPS_INDICATOR_OFF
    <3>1. Timeout \in Field /\ Caps \in Field
      BY FieldFacts
    <3>2. /\ Legal(Timeout, cfg[Timeout]) /\ cfg[Timeout] \in 0 .. 255
          /\ Legal(Caps, cfg[Caps])
      BY <2>1, <3>1, SettingFacts
    <3> QED
      BY <2>1, <3>2, ConfigAssumption DEF Legal
  <2>3. ASSUME NEW l \in Lights
        PROVE  /\ cfg[<<l, "mode">>] <= SIDE_OFF
               /\ cfg[<<l, "speed">>] <= LIGHT_SPEED_MAX
               /\ cfg[<<l, "brightness">>] <= BRIGHTNESS_MAX
               /\ cfg[<<l, "color">>] < LIGHT_COLOUR_MAX
    BY <2>1, FieldFacts DEF Settings, Legal
  <2> QED
    BY <2>1, <2>2, <2>3 DEF Good
<1>2. ConfigInv => DataIsGood
  BY <1>1 DEF DataIsGood
<1> QED
  BY <1>2, Invariance, PTL

\* Unless a save was cut off, what VIA reads is an option of its menu, the time
\* until sleep after the translation both ways (ansi.c:543-652); not said of the
\* brightness of the side light and of the debounce times.
THEOREM ViaShowsOptionAlways == Spec => []ViaShowsOption
<1>1. ASSUME ConfigInv, phase = "run", ~cut,
             NEW f \in ViaField \ ({<<"side", "brightness">>} \cup Debounces)
      PROVE  via_config_get_value(cfg, f) \in ViaOptions(f)
  <2>1. cfg \in Settings /\ cfg[Timeout] # 0
    BY <1>1 DEF ConfigInv, Typed, Running
  <2>2. /\ f \in Field /\ f # Initiated /\ f # <<"side", "brightness">> /\ f[2] # "rgb"
        /\ f \notin Debounces
    BY <1>1, FieldFacts DEF ViaField
  <2>3. Legal(f, cfg[f]) /\ cfg[f] \in 0 .. 255
    BY <2>1, <2>2, SettingFacts
  <2>4. CASE f = Timeout
    <3>1. cfg[f] \in 1 .. TIMEOUT_MAX
      BY <2>1, <2>3, <2>4, ConfigAssumption DEF Legal
    <3>2. (cfg[f] + 255) % 256 = cfg[f] - 1
      BY <3>1, ConfigAssumption
    <3>3. (cfg[f] + 255) % 256 \in 0 .. TIMEOUT_MAX - 1
      BY <3>1, <3>2, ConfigAssumption
    <3>4. ViaOptions(f) = 0 .. TIMEOUT_MAX - 1
      BY <2>4, FieldFacts DEF ViaOptions
    <3>5. via_config_get_value(cfg, f) = (cfg[f] + 255) % 256
      BY <2>2, <2>4 DEF via_config_get_value
    <3> QED
      BY <3>3, <3>4, <3>5
  <2>5. CASE f # Timeout
    <3>1. via_config_get_value(cfg, f) = cfg[f]
      BY <2>2, <2>5 DEF via_config_get_value
    <3>2. CASE f \in Toggles
      <4>1. ViaOptions(f) = 0 .. 1
        BY <3>2, <2>5, FieldFacts DEF ViaOptions
      <4> QED
        BY <2>3, <3>1, <3>2, <4>1 DEF Legal
    <3>3. CASE f = Caps
      <4>1. ViaOptions(f) = 0 .. CAPS_INDICATOR_OFF
        BY <3>3, <2>5, FieldFacts DEF ViaOptions
      <4>2. cfg[f] \in 0 .. CAPS_INDICATOR_OFF
        BY <2>3, <3>3, ConfigAssumption DEF Legal
      <4> QED
        BY <3>1, <4>1, <4>2
    <3>4. CASE f \notin {Initiated, Timeout, Caps} \cup Toggles \cup Debounces
      <4>1. f[2] \in {"mode", "brightness", "speed", "color"}
        BY <2>2, <3>4, FieldFacts
      <4>2. cfg[f] \in ViaOptions(f)
        <5>1. CASE f[2] = "mode"
          BY <2>3, <3>4, <5>1, ConfigAssumption DEF ViaOptions, Legal
        <5>2. CASE f[2] = "brightness"
          BY <2>3, <3>4, <5>2, ConfigAssumption DEF ViaOptions, Legal
        <5>3. CASE f[2] = "speed"
          BY <2>3, <3>4, <5>3, ConfigAssumption DEF ViaOptions, Legal
        <5>4. CASE f[2] = "color"
          <6>1. ViaOptions(f) = 0 .. LIGHT_COLOUR_MAX - 1
            BY <3>4, <5>4 DEF ViaOptions
          <6>2. cfg[f] \in 0 .. LIGHT_COLOUR_MAX - 1
            BY <2>3, <5>4, ConfigAssumption DEF Legal
          <6> QED
            BY <6>1, <6>2
        <5> QED
          BY <4>1, <5>1, <5>2, <5>3, <5>4
      <4> QED
        BY <3>1, <4>2
    <3> QED
      BY <2>2, <2>5, <3>2, <3>3, <3>4
  <2> QED
    BY <2>4, <2>5
<1>2. ConfigInv => ViaShowsOption
  BY <1>1 DEF ViaShowsOption
<1> QED
  BY <1>2, Invariance, PTL

\* Unless a save was cut off, start-up ends with the settings that are owed: those
\* of the last save, or the defaults after a reset, an erasure or a new firmware
\* (ansi.c:531-541, user_kb.c:405-442).
THEOREM RestartRestoresAlways == Spec => RestartRestores
<1>1. ASSUME ConfigInv, [Next]_vars, phase = "post_init", phase' = "run", ~cut'
      PROVE  cfg' = due'
  <2>1. CASE load_eeprom_data /\ cfg[Initiated] # MARK
    BY <1>1, <2>1 DEF load_eeprom_data, user_config_reset, SaveThen, Off
  <2>2. CASE load_eeprom_data /\ cfg[Initiated] = MARK
    <3>1. UNCHANGED <<cfg, due, cut>>
      BY <2>2 DEF load_eeprom_data, history
    <3> QED
      BY <1>1, <2>2, <3>1 DEF ConfigInv, Loaded, Owed
  <2>3. load_eeprom_data
    <3>1. ~UNCHANGED vars
      BY <1>1 DEF vars
    <3>2. ~KeyEvent
      BY <1>1 DEF KeyEvent, ToggleKey, CapsKey, DebounceKey, TimeoutKey, LevelKey, SpeedKey,
                  ColourKey, ModeKey, Save
    <3>3. ~FactoryReset
      BY <1>1 DEF FactoryReset, EeconfigErase, EeconfigVia
    <3>4. ~ViaSave /\ ~LowBattery /\ ~PowerLoss /\ ~FlashFirmware
      BY <1>1 DEF ViaSave, Save, LowBattery, PowerLoss, Off, FlashFirmware
    <3>5. ~\E f \in ViaField : \E v \in ViaOptions(f) : via_config_set_value(f, v)
      BY <1>1 DEF via_config_set_value
    <3> QED
      BY <1>1, <3>1, <3>2, <3>3, <3>4, <3>5
      DEF Next, StartUp, via_init_kb, via_init, quantum_init, EeconfigErase, EeconfigVia, bootmagic, Off
  <2> QED
    BY <2>1, <2>2, <2>3
<1>2. ConfigInv /\ [Next]_vars => [phase = "post_init" /\ phase' = "run" /\ ~cut' => cfg' = due']_vars
  BY <1>1
<1> QED
  BY <1>2, Invariance, PTL DEF Spec, RestartRestores
=============================================================================
