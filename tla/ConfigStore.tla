----------------------------- MODULE ConfigStore -----------------------------
(***************************************************************************)
(* The settings g_config, their copy in the emulated EEPROM, and what      *)
(* keys, the VIA application, start-up, the factory reset and a loss of    *)
(* power do to both (ansi.c, user_kb.c, side.c, and QMK's via.c and        *)
(* eeconfig.c, which start-up runs through).                               *)
(*                                                                         *)
(* A field is a pair: the settings of the keyboard ("kb"), of the side and *)
(* of the logo light, whose controls are the same code twice.  A value is  *)
(* a small number, 0 being also what erased memory reads as.  The EEPROM   *)
(* has two marks besides the settings: EECONFIG_MAGIC and the magic of     *)
(* VIA, which names the build.                                             *)
(***************************************************************************)
EXTENDS Naturals, Sequences

CONSTANTS
    Lights,                               \* {"side", "logo"}
    DEBOUNCE, DEBOUNCE_MAX,               \* ms: default, limit of the keys (5, 99)
    VIA_DEBOUNCE_MAX,                     \* ms: the last option of VIA's menu (30)
    TIMEOUT, TIMEOUT_MAX,                 \* minutes until sleep: default, limit (5, 60)
    BRIGHTNESS, BRIGHTNESS_MAX,           \* default, limit (3, 5)
    SPEED, LIGHT_SPEED_MAX,               \* default, limit (2, 4)
    LIGHT_COLOUR_MAX,                     \* number of colours (8)
    SIDE_OFF,                             \* last mode; 0 and 1 are the waves (5)
    CAPS_INDICATOR_OFF,                   \* last caps lock indication (3)
    MaxUnsaved                            \* bound: VIA's writes since the last save

\* Settings are bytes (uint8_t), so their limits are too.
ASSUME ConfigAssumption ==
    /\ "kb" \notin Lights
    /\ DEBOUNCE_MAX \in 0 .. 255 /\ DEBOUNCE \in 0 .. DEBOUNCE_MAX
    /\ VIA_DEBOUNCE_MAX \in 0 .. DEBOUNCE_MAX
    /\ TIMEOUT_MAX \in 1 .. 255 /\ TIMEOUT \in 1 .. TIMEOUT_MAX
    /\ BRIGHTNESS_MAX \in 0 .. 255 /\ BRIGHTNESS \in 0 .. BRIGHTNESS_MAX
    /\ LIGHT_SPEED_MAX \in 0 .. 255 /\ SPEED \in 0 .. LIGHT_SPEED_MAX
    /\ LIGHT_COLOUR_MAX \in 1 .. 255
    /\ SIDE_OFF \in 2 .. 254
    /\ CAPS_INDICATOR_OFF \in 0 .. 255
    /\ MaxUnsaved \in Nat

VARIABLES
    phase,     \* where start-up or the factory reset is; "run"; "off"
    cfg,       \* g_config
    rom,       \* EEPROM: cfg, eeconfig (EECONFIG_MAGIC), via (VIA's magic fits)
    unsaved,   \* VIA's writes since the last save, for MaxUnsaved
    due,       \* history: the settings the user is owed after a restart; any if cut
    cut        \* history: a save was cut off, and nothing has repaired it since

history == <<due, cut>>
vars == <<phase, cfg, rom, unsaved, history>>

\* The struct via_config, in the order of its fields.
KbFields == <<"been_initiated", "usb_sleep_toggle", "sleep_enable", "debounce_press_ms",
              "debounce_release_ms", "sleep_timeout", "caps_indication_type">>
LightFields == <<"mode", "brightness", "speed", "rgb", "color">>

KbField == {<<"kb", KbFields[i]>> : i \in DOMAIN KbFields}
LightField == {<<l, LightFields[i]>> : l \in Lights, i \in DOMAIN LightFields}
Field == KbField \cup LightField

\* The bytes of the struct: kb, side, logo.
Address ==
    LET Part(f) == CASE f[1] = "kb" -> 0 [] f[1] = "side" -> 1 [] OTHER -> 2
        Names == KbFields \o LightFields
    IN  [f \in Field |-> Part(f) * Len(Names) + (CHOOSE i \in DOMAIN Names : Names[i] = f[2])]

MARK == 69    \* been_initiated = 0x45
Initiated == <<"kb", "been_initiated">>
Timeout == <<"kb", "sleep_timeout">>
SleepEnable == <<"kb", "sleep_enable">>
Caps == <<"kb", "caps_indication_type">>
Toggles == {SleepEnable, <<"kb", "usb_sleep_toggle">>}
Debounces == {<<"kb", "debounce_press_ms">>, <<"kb", "debounce_release_ms">>}

Blank == [f \in Field |-> 0]
ErasedRom == [cfg |-> Blank, eeconfig |-> FALSE, via |-> FALSE]

\* init_g_config, which leaves been_initiated alone (0 at start-up).
init_g_config ==
    [f \in Field |-> CASE f \in Toggles -> 1
                       [] f \in Debounces -> DEBOUNCE
                       [] f = Timeout -> TIMEOUT
                       [] f[2] = "brightness" -> BRIGHTNESS
                       [] f[2] = "speed" -> SPEED
                       [] f[2] = "rgb" -> 1
                       [] OTHER -> 0]

\* What user_config_reset makes of g_config.
Defaults == [init_g_config EXCEPT ![Initiated] = MARK]

Init ==
    /\ phase = "off"
    /\ cfg = Blank
    /\ rom = ErasedRom
    /\ unsaved = 0
    /\ due = Defaults
    /\ cut = FALSE

-----------------------------------------------------------------------------
(* Saving *)

\* What a save of new leaves when it is cut off at field f: the emulated EEPROM
\* writes the block in address order.
CutAt(old, new, f) == [g \in Field |-> IF Address[g] < Address[f] THEN new[g] ELSE old[g]]

\* Power fails: g_config is lost.
Off ==
    /\ phase' = "off"
    /\ cfg' = Blank
    /\ unsaved' = 0

\* via_save_values as the last thing a step does, which then goes on in phase
\* next; the user is owed owed.
SaveThen(new, next, owed) ==
    \/ /\ phase' = next
       /\ cfg' = new
       /\ rom' = [rom EXCEPT !.cfg = new]
       /\ unsaved' = 0
       /\ due' = owed
       /\ cut' = (cut /\ new \notin {Defaults, init_g_config})
    \/ /\ Off
       /\ cut' = TRUE
       /\ \E torn \in {CutAt(rom.cfg, new, f) : f \in Field} : rom' = [rom EXCEPT !.cfg = torn]
       /\ due' = Defaults

-----------------------------------------------------------------------------
(* Start-up *)

via_init_kb ==
    /\ phase = "off"
    /\ \/ /\ rom.via
          /\ phase' = "via_init"
          /\ cfg' = rom.cfg
          /\ UNCHANGED <<rom, unsaved, history>>
       \/ /\ ~rom.via
          /\ SaveThen(init_g_config, "via_init", due)

\* The rest of via_init, with eeconfig_init_via.
via_init ==
    /\ phase = "via_init"
    /\ phase' = "quantum_init"
    /\ rom' = [rom EXCEPT !.via = TRUE]
    /\ UNCHANGED <<cfg, unsaved, history>>

\* Slip: EECONFIG_MAGIC is not asked for.
EnabledByVia ==
    /\ phase = "quantum_init"
    /\ phase' = IF rom.via THEN "post_init" ELSE "eeconfig_init"
    /\ UNCHANGED <<cfg, rom, unsaved, history>>

\* quantum_init: eeconfig_is_enabled.
quantum_init ==
    /\ phase = "quantum_init"
    /\ phase' = IF rom.eeconfig /\ rom.via THEN "post_init" ELSE "eeconfig_init"
    /\ UNCHANGED <<cfg, rom, unsaved, history>>

\* eeconfig_init_quantum in two steps: the erasure and EECONFIG_MAGIC ...
EeconfigErase(from, to) ==
    /\ phase = from
    /\ phase' = to
    /\ rom' = [ErasedRom EXCEPT !.eeconfig = TRUE]
    /\ due' = Defaults
    /\ cut' = FALSE
    /\ UNCHANGED <<cfg, unsaved>>

\* ... and eeconfig_init_via.
EeconfigVia(from, to) ==
    /\ phase = from
    /\ phase' = to
    /\ rom' = [rom EXCEPT !.via = TRUE]
    /\ UNCHANGED <<cfg, unsaved, history>>

\* bootmagic: with the key held at start-up, the memory is erased, and the
\* boot loader entered.
bootmagic ==
    /\ phase = "post_init"
    /\ rom' = ErasedRom
    /\ due' = Defaults
    /\ cut' = FALSE
    /\ Off

user_config_reset == SaveThen(Defaults, "run", Defaults)

\* Slip: the settings are taken as they are.
LoadWithoutReset ==
    /\ phase = "post_init"
    /\ phase' = "run"
    /\ UNCHANGED <<cfg, rom, unsaved, history>>

load_eeprom_data ==
    /\ phase = "post_init"
    /\ \/ /\ cfg[Initiated] # MARK
          /\ user_config_reset
       \/ /\ cfg[Initiated] = MARK
          /\ phase' = "run"
          /\ UNCHANGED <<cfg, rom, unsaved, history>>

StartUp ==
    \/ via_init_kb
    \/ via_init
    \/ quantum_init
    \/ EeconfigErase("eeconfig_init", "eeconfig_via")
    \/ EeconfigVia("eeconfig_via", "post_init")
    \/ bootmagic
    \/ load_eeprom_data

\* long_press_key: eeconfig_init, device_reset_show (1.2 s), device_reset_init.
FactoryReset ==
    \/ EeconfigErase("run", "reset_via")
    \/ EeconfigVia("reset_via", "device_reset_show")
    \/ phase = "device_reset_show" /\ user_config_reset

-----------------------------------------------------------------------------
(* Keys: each changes the settings and saves all of them.  The operators   *)
(* are from g_config to g_config.                                          *)

Save(new) == phase = "run" /\ SaveThen(new, "run", new)

\* SLEEP_MODE and toggle_usb_sleep
Toggle(c, f) == [c EXCEPT ![f] = 1 - @]

toggle_caps_indication(c) ==
    [c EXCEPT ![Caps] = IF @ = CAPS_INDICATOR_OFF THEN 0 ELSE @ + 1]

adjust_debounce(c, f, dir) ==
    [c EXCEPT ![f] = CASE dir = 1 /\ @ < DEBOUNCE_MAX -> @ + 1
                       [] dir = 0 /\ @ > 0 -> @ - 1
                       [] OTHER -> @]

\* Slip: the lower limit is 0.
AdjustTimeoutToZero(c, dir) ==
    [c EXCEPT ![Timeout] = CASE dir = 0 /\ @ > 0 -> @ - 1
                             [] dir = 1 /\ @ < TIMEOUT_MAX -> @ + 1
                             [] OTHER -> @]

adjust_sleep_timeout(c, dir) ==
    [c EXCEPT ![Timeout] = CASE dir = 0 /\ @ > 1 -> @ - 1
                             [] dir = 1 /\ @ < TIMEOUT_MAX -> @ + 1
                             [] OTHER -> @]

light_level_control(c, l, brighten) ==
    [c EXCEPT ![<<l, "brightness">>] = IF brighten = 1 THEN @ + 1 ELSE @ - 1]

light_speed_contol(c, l, fast) ==
    LET s == IF c[<<l, "speed">>] > LIGHT_SPEED_MAX THEN LIGHT_SPEED_MAX \div 2
             ELSE c[<<l, "speed">>]
    IN  [c EXCEPT ![<<l, "speed">>] = CASE fast = 1 /\ s > 0 -> s - 1
                                        [] fast = 0 /\ s < LIGHT_SPEED_MAX -> s + 1
                                        [] OTHER -> s]

SetColour(c, l, rgb, colour) == [c EXCEPT ![<<l, "rgb">>] = rgb, ![<<l, "color">>] = colour]

\* Slip: the end of the colours is not noticed.
NextColourForever(c, l) ==
    IF c[<<l, "rgb">>] = 1 THEN SetColour(c, l, 0, 0)
    ELSE SetColour(c, l, 0, (c[<<l, "color">>] + 1) % 256)

NextColour(c, l) ==
    IF c[<<l, "rgb">>] = 1 THEN SetColour(c, l, 0, 0)
    ELSE LET colour == (c[<<l, "color">>] + 1) % 256
         IN  IF colour >= LIGHT_COLOUR_MAX THEN SetColour(c, l, 1, 0)
             ELSE SetColour(c, l, 0, colour)

\* Only the waves have the rainbow.  (The keymap has no key for dir = 0.)
side_colour_control(c, l) ==
    NextColour(IF c[<<l, "mode">>] \notin {0, 1} /\ c[<<l, "rgb">>] = 1
               THEN SetColour(c, l, 0, 0) ELSE c, l)

side_mode_control(c, l) ==
    [c EXCEPT ![<<l, "mode">>] = IF @ + 1 > SIDE_OFF THEN 0 ELSE @ + 1]

ToggleKey(f) == Save(Toggle(cfg, f))
CapsKey == Save(toggle_caps_indication(cfg))
DebounceKey(f, dir) == Save(adjust_debounce(cfg, f, dir))
TimeoutKey(dir) == cfg[SleepEnable] = 1 /\ Save(adjust_sleep_timeout(cfg, dir))
LevelKey(l, brighten) ==
    /\ cfg[<<l, "brightness">>] # (IF brighten = 1 THEN BRIGHTNESS_MAX ELSE 0)
    /\ Save(light_level_control(cfg, l, brighten))
SpeedKey(l, fast) == Save(light_speed_contol(cfg, l, fast))
ColourKey(l) == Save(side_colour_control(cfg, l))
ModeKey(l) == Save(side_mode_control(cfg, l))

KeyEvent ==
    \/ \E f \in Toggles : ToggleKey(f)
    \/ CapsKey
    \/ \E f \in Debounces, dir \in 0 .. 1 : DebounceKey(f, dir)
    \/ \E dir \in 0 .. 1 : TimeoutKey(dir)
    \/ \E l \in Lights, dir \in 0 .. 1 : LevelKey(l, dir) \/ SpeedKey(l, dir)
    \/ \E l \in Lights : ColourKey(l) \/ ModeKey(l)

-----------------------------------------------------------------------------
(* VIA: via_custom_value_command_kb on the custom channel *)

\* The fields VIA has an id for.
ViaField == Field \ ({Initiated} \cup {<<l, "rgb">> : l \in Lights})

\* What the menus of NuPhy Gem80 via3.json offer.
ViaOptions(f) ==
    CASE f \in Toggles -> 0 .. 1
      [] f \in Debounces -> 0 .. VIA_DEBOUNCE_MAX
      [] f = Timeout -> 0 .. TIMEOUT_MAX - 1
      [] f = Caps -> 0 .. CAPS_INDICATOR_OFF
      [] f[2] = "mode" -> 0 .. SIDE_OFF
      [] f[2] = "brightness" -> 0 .. BRIGHTNESS_MAX
      [] f[2] = "speed" -> 0 .. LIGHT_SPEED_MAX
      [] OTHER -> 0 .. LIGHT_COLOUR_MAX - 1

via_config_set_value(f, v) ==
    /\ phase = "run"
    /\ unsaved < MaxUnsaved
    /\ cfg' = [cfg EXCEPT ![f] = IF f = Timeout THEN v + 1 ELSE v]
    /\ unsaved' = unsaved + 1
    /\ UNCHANGED <<phase, rom, history>>

ViaSave == Save(cfg)

\* Slip: the two directions do not fit together.
GetTimeoutInMinutes(c, f) == c[f]

\* id_side_light_brightness lacks its break, and reads as the mode of the logo.
via_config_get_value(c, f) ==
    CASE f = Timeout -> (c[f] + 255) % 256
      [] f = <<"side", "brightness">> /\ "logo" \in Lights -> c[<<"logo", "mode">>]
      [] OTHER -> c[f]

-----------------------------------------------------------------------------
(* Battery *)

\* bat_led_show: a level under 10 %, without charging, dims both lights, in
\* g_config and without a save.
LowBattery ==
    /\ phase = "run"
    /\ cfg' = [f \in Field |-> IF f[2] = "brightness" /\ cfg[f] > 1 THEN 1 ELSE cfg[f]]
    /\ UNCHANGED <<phase, rom, unsaved, history>>

-----------------------------------------------------------------------------
(* Power and firmware (external) *)

PowerLoss == phase # "off" /\ Off /\ UNCHANGED <<rom, history>>

\* A new build has another VIA magic.
FlashFirmware ==
    /\ phase = "off"
    /\ rom.via
    /\ rom' = [rom EXCEPT !.via = FALSE]
    /\ due' = Defaults
    /\ cut' = FALSE
    /\ UNCHANGED <<phase, cfg, unsaved>>

Next ==
    \/ StartUp
    \/ FactoryReset
    \/ KeyEvent
    \/ \E f \in ViaField : \E v \in ViaOptions(f) : via_config_set_value(f, v)
    \/ ViaSave
    \/ LowBattery
    \/ PowerLoss
    \/ FlashFirmware

Spec == Init /\ [][Next]_vars

-----------------------------------------------------------------------------
(* Properties *)

\* Settings are bytes, in RAM and in the EEPROM.
TypeOK ==
    /\ phase \in {"off", "via_init", "quantum_init", "eeconfig_init", "eeconfig_via", "post_init",
                  "run", "reset_via", "device_reset_show"}
    /\ cfg \in [Field -> 0 .. 255]
    /\ rom \in [cfg : [Field -> 0 .. 255], eeconfig : BOOLEAN, via : BOOLEAN]
    /\ unsaved \in 0 .. MaxUnsaved
    /\ due \in [Field -> 0 .. 255]
    /\ cut \in BOOLEAN

\* Settings the tables of the lights and the timers are made for.
Good(c) ==
    /\ c[Initiated] = MARK
    /\ c[Timeout] \in 1 .. TIMEOUT_MAX
    /\ c[Caps] <= CAPS_INDICATOR_OFF
    /\ \A l \in Lights : /\ c[<<l, "mode">>] <= SIDE_OFF
                         /\ c[<<l, "speed">>] <= LIGHT_SPEED_MAX
                         /\ c[<<l, "brightness">>] <= BRIGHTNESS_MAX
                         /\ c[<<l, "color">>] < LIGHT_COLOUR_MAX

\* ansi.c:528-541, user_kb.c:405-442: unless a save was cut off, a keyboard that
\* runs has settings its tables and timers are made for, wherever power failed
\* before and whatever keys and VIA did.
DataIsGood == phase = "run" /\ ~cut => Good(cfg)

\* ansi.c:543-652: unless a save was cut off, what VIA reads is one of the options
\* of its menu, whether it was written by VIA, by a key, by a reset or by the
\* battery: the two translations, whose units differ, and the limits of the keys
\* fit together.  Not so for the brightness of the side light, which reads as
\* something else, and for the debounce times, which the keys set to values above
\* the last option (user_kb.c:619-636).
ViaShowsOption ==
    phase = "run" /\ ~cut
      => \A f \in ViaField \ ({<<"side", "brightness">>} \cup Debounces) :
            via_config_get_value(cfg, f) \in ViaOptions(f)

\* ansi.c:531-541, user_kb.c:405-442: unless a save was cut off, a restart brings
\* back the settings of the last save, or the defaults after a reset, an erasure
\* or a new firmware was begun, even if power failed half-way through, and
\* although start-up erases what it has just saved when it finds no EECONFIG_MAGIC.
RestartRestores ==
    [][phase = "post_init" /\ phase' = "run" /\ ~cut' => cfg' = due']_vars

\* quantum/via.c:93-119, quantum/eeconfig.c:43-127: a keyboard that runs has both
\* marks in its EEPROM, wherever power failed before, in the middle of a save
\* too; without one of them the next start-up would drop what is saved now.
RunsMarked == phase = "run" => rom.eeconfig /\ rom.via
=============================================================================
