# NuPhy Gem80: a TLA+ model of the keyboard firmware

The repository is a copy of the QMK firmware whose own program is the firmware of
the NuPhy Gem80, a keyboard that talks to its host by USB, by a 2.4 GHz dongle or
by Bluetooth. That program is `src/keyboards/nuphy/gem80/ansi/` (4,900 lines of C
and headers); everything else is QMK, which it calls and is called by. This
directory models the program, and those parts of QMK its state passes through.
File names below are relative to `src/keyboards/nuphy/gem80/ansi/` unless they
begin with `src/`.

## 1. Inventory

One main loop runs everything to completion, without threads:
`protocol_task`, `keyboard_task` (matrix scan, debounce, key processing, reports)
and `housekeeping_task_kb` (`ansi.c:480-498`), which calls `timer_pro`,
`uart_receive_pro`, `uart_send_report_repeat`, `dev_sts_sync`, `long_press_key`,
`dial_sw_scan`, `side_led_show` and `sleep_handle` in turn. What is hard comes from
outside and from time: the RF module on the UART answers late, wrongly or not at
all; the link, the USB bus and the VIA application change state without asking;
some calls nest (sending a command parses frames while it waits); a dozen
counters of different periods decide; power fails.

| Component | State | Operations | Correct when |
|---|---|---|---|
| RF report queue (`rf_queue.c`) | ring buffer, head, tail | `enqueue_rf_report`, `dequeue_rf_report`, `clear_rf_queue`, `rf_queue_is_empty` | it is a bounded FIFO; a full one refuses and keeps what it has |
| RF host driver (`rf_driver.c`) | static copy of the last report, six byte slots, bit map | `rf_send_keyboard`, `rf_send_nkro`, mouse, extra | byte and bit report together show the host the keys held |
| RF report transport (`rf.c:71-166`, `rf_driver.c:45-60`) | queue, two repeat buffers, timers, `rf_state` | `send_or_queue`, `uart_send_report_repeat`, `clear_report_buffer`, `break_all_key` | the host ends up with the newest report and never sees an older one after it |
| RF link management (`rf.c`, `user_kb.c`, `ansi.c`) | `dev_info`, `host_mode`, driver, poll and mismatch counters, dial, link keys | `rf_protocol_receive`, `dev_sts_sync`, `switch_dev_link`, `dial_sw_scan`, `long_press_key`, `uart_send_cmd` | keys go to the host of the chosen link only; link, module and driver converge on the dial |
| UART framing (`rf.c:168-274`, `rf.c:596-633`) | receive buffer and length, never cleared | `uart_receive_pro`, `rf_protocol_receive` | a whole frame is taken, a broken one not, nothing behind the buffer is read |
| Debounce (`debounce.c`) | per-key counter and flag, two need flags, time base | `debounce` | press at once, release when stable, nothing sticks |
| Light sleep (`sleep.c`, `ansi.c`, `user_kb.c`) | `f_goto_sleep`, `f_wakeup_prepare`, idle counters, LED supplies | `sleep_handle`, `enter_light_sleep`, `exit_light_sleep` | an idle keyboard sleeps, a woken one is lit |
| Settings (`ansi.c`, `user_kb.c`, `side.c`, QMK's `via.c`, `eeconfig.c`) | `g_config`, its EEPROM copy, two magics | keys, VIA commands, start-up, factory reset | a restart restores what was saved; what runs is in range |
| EEPROM emulation (QMK's `eeprom_legacy_emulated_flash.c`, `eeprom_driver.c`, `legacy_flash_ops.c`) | flash pages: compacted image and write log; their mirror in RAM | `eeprom_update_block`, `EEPROM_WriteDataByte`/`Word`, `EEPROM_Erase`, `EEPROM_Init` | a write is durable; power lost at any time leaves each byte old or new |
| Key processing (`ansi.c:80-440`) | flags of the above | `process_record_kb` | see the components it changes |
| Long-press timers (`user_kb.c:103-181`) | three counters, three flags | `long_press_key` | an action needs one hold of its length |
| Side and logo lights (`side.c`, `side_logo.c`) | animation phases, battery and link lights | `side_led_show` | indices stay in their tables |
| Indicators, numbers, keymap, RGB effects | tables | drawing | (no protocol) |

Interactions: `link_mode` and `rf_state` (link management) decide what the
transport and sleep do; the dial and the link keys call `break_all_key`, which goes
past QMK's report filter into the driver; a key event resets the idle counters and
ends sleep; VIA and keys write settings that debounce and sleep read; `Fn` holds
lead to a factory reset that touches settings and link at once.

The hazards, each at its line and with the properties that cover it, are listed in
`PROJECT.json`.

## 2. Modules

| Module | Models | Composition |
|---|---|---|
| `BoundedFifo` | what a queue promises | abstract specification |
| `RfQueue` | `rf_queue.c`: indices modulo the size | implements `BoundedFifo` by refinement |
| `NkroReport` | slots, bits and the loop of `uart_auto_nkey_send` as operators | used by the next two |
| `NkroSplit` | the same loop, one iteration per step | uses the steps of `NkroReport`; `RfReport` makes a call in one step |
| `RfReport` | QMK's filter, `rf_driver.c`, sending, queueing, repeating, tossing; host | extends `NkroReport`; the queue is the sequence that `RfQueue` is shown to be |
| `RfLink` | dial, link keys, polling, SET_LINK, module reset, driver exchange; module | |
| `Debounce` | `debounce.c` and the matrix scan that calls it | |
| `Sleep` | `sleep.c`, waking, the LED supplies; bus, module, VIA | |
| `ConfigStore` | `g_config`, EEPROM, start-up, keys, VIA's writes and reads, battery dimming, factory reset; power | the EEPROM is a record that a save changes in address order, as `EepromStore` allows |
| `EepromStore` | what the emulated EEPROM promises | abstract specification |
| `FlashEeprom` | image and log in flash, replay, compaction, erasure; power | implements `EepromStore` by refinement |
| `RxFrame` | `uart_receive_pro` and the checks of `rf_protocol_receive`, byte by byte; line | what is done with a command is in `RfLink` and `Sleep` |
| `UartProofs`, `NkroSplitProofs`, `RfReportProofs`, `RfLinkProofs`, `DebounceProofs`, `SleepProofs`, `ConfigStoreProofs`, `FlashEepromProofs` | theorems (section 4) | extend the module they are about; `UartProofs` is about two, `RxFrame` and `RfQueue`, whose specifications share no variable; `RfReportProofs` uses the lemmas of `NkroSplitProofs` on the split |
| `MC*` | instances for TLC | extend the module they check; `MCRfLinkLive` adds the keymap, on which `DriverFollows` depends, and `MCRfReport` the view |

How state and actions correspond to the code:

- **RfQueue.** `buffer_queue`, `queue_head`, `queue_tail` are the statics of the file; one action per
  function of the file. The refinement maps them to the reports from head to tail.
- **NkroSplit.** `split` holds the two static buffers and the `f_byte_send` and
  `f_bit_send` flags, `key_code` the loop variable. `Call`, `KeyLoop`, `Return`
  are the beginning, one iteration and the end of the function; `sentByte` and
  `sentBit` are what the receiver was last sent. `RfReport` makes a
  call in one step, with the operator `SplitLoop`: the last value of `SplitRun`, a
  recursive function of the key codes passed, each by the same `KeyStep`.
- **RfReport.** `tx` is a record of the buffers (`queue`, `a`, `b`, `buff`, the
  repeat flags, the static copy `pre`) and of history: what the host knows, the
  latest report per kind, which kinds were lost with a cleared queue, for which the
  host was last sent an outdated frame (`overwritten`). Operators on `tx` follow the calls; an action is a
  whole handler (a key event, one `uart_send_report_repeat`, a tick, a link
  change, the dial). `no_act_time` is one of the three ranges the code compares
  with, a timer is due or not. The link goes and comes at any moment: status frames, the
  commands that change the link and the dial all set `rf_state`, and none of them asks
  how long ago the last report was taken from the queue. `rejoined` is history: the
  link came back within 25 ms of that.
- **RfLink.** `s` is a record of `dev_info`, driver, counters, module and UART.
  The parameters of `dev_sts_sync` are the choices left to the outside: whether the module
  heard a command, what it reports, and whether it answers within the command
  (parsed by the nested `uart_receive_pro`), later, garbled or never.
- **Debounce.** A scan reads the matrix and calls `debounce` with `changed`; `time`
  and `pressed` are the bit fields of `debounce_counters` (7 bits wide), `need` the
  two static flags, `lag` the age of `last_time`. `stable`, `age` and `gap` are
  history, for the timing properties.
- **Sleep.** One turn of `sleep_handle` is one of its branches; counters saturate
  where the code stops telling values apart. `BlinkKey` and `CapsKey` are the two callers of
  `user_set_rgb_color`, which turns the supply of the keys on whether the keyboard sleeps or
  not. A dial that moves (`DialMoved`) only resets the idle counters; the link follows
  later, once its contacts have settled (`LinkChanges`). `asked` is history: what lit a
  key or wrote `sleep_enable` during the last sleep.
- **ConfigStore.** `cfg` is `g_config`, `rom` its EEPROM copy with the two magics,
  `phase` the place in `keyboard_init` or in the factory reset, so that power can
  fail between any two writes; a save can be cut off at any of its fields, since the
  emulated EEPROM writes them in address order. `due` and `cut` are history.
- **FlashEeprom.** `flash` is the array of half-words, image in front of log, with
  the encodings of the code; `DataBuf` the mirror, `empty_slot` the end of the log. A
  call of `EEPROM_WriteDataByte` or `EEPROM_WriteDataWord` decides from RAM and flash which
  operations to ask of the flash (`todo`); each `FlashStep` carries one out, and
  `PowerLoss` can come before any of them. `calls` are those `eeprom_write_block` has yet
  to make. A compaction passes over words that are zero; in `todo` each of them is a "pass",
  a step that does nothing, so that the operations can be counted. `Replay` is the last value of
  `Loop`, a recursive function of the half-words of the log that were passed. `boot` is what `EEPROM_Init` would make of the flash, kept in a variable
  because TLC would otherwise replay the log several times per step.
- **RxFrame.** `wire` is what the UART holds, each byte tagged with what it is part
  of; a turn of `uart_receive_pro` takes any number of them. `got` is what
  `rf_protocol_receive` made of them: the command and payload it took, whether the
  checksum was among the bytes, the last byte of the buffer it looked at, by the checksum
  or by the handler. `Taken` is how much of a payload the handlers look at: five bytes of a
  status (`STATUS_LEN`), the 32 that READ_DATA copies (`FUNC_TAB_LEN`), none of the others.
  `RxAssumption` is what the code relies on: what the module sends has all of these and fits.

The refinement of `EepromStore` maps its memory to `boot`, its cache to `DataBuf`, and
`safe` to: no wipe under way, none cut off since the last complete one, and no older
entry of the log in the way (finding 1). `EepromStore` promises durability when
`safe`; the first steps of a wipe make it unsafe and only its last makes it safe again.
`ConfigStore` relies on a save that is cut off leaving new bytes in front of old
ones. In `FlashEeprom` that is the property `SavedInOrder`: wherever power fails in
`eeprom_write_block`, outside of a wipe and of finding 1, there are new bytes, at most one word
of which each byte is old or new, then old bytes. A save during which the log is compacted and power fails is not in
`ConfigStore`; there the image may be lost altogether, as after an erasure that is cut off.

External, modelled from how the code uses them: the RF module and the host, the USB
bus, the VIA application, power. VIA's menus are a file of the firmware,
`keymaps/via/NuPhy Gem80 via3.json`, and `ViaOptions` is what they offer.

## 3. What TLC checks

| Run | Instance | Shows |
|---|---|---|
| `rf_queue` | 4 slots, 2 reports | the ring buffer implements `BoundedFifo` (`ImplementsFifo`) through every wrap |
| `nkro_split` | 2 slots, 4 keys | after every call the receiver sees exactly the report (`ReceiverSeesReport`), no key is in two places (`HeldOnce`), and between the two reports of a call no key is released or struck that was not (`NoneReleasedBetween`) |
| `rf_report` | 1 slot, 2 keys, queue of 3 | the host has what was not thrown away (`HostUpToDate`), no outdated frame is sent but by one exception (`NoStaleFrame`), the queue never refuses (`NeverRefused`), drains (`QueueDrains`), QMK's filter hides no change (`ChangesPropagate`), and with nothing waiting or lost `break_all_key` releases every key (`BreakAllReleases`) |
| `debounce` | 2 keys, press 1 or 3 ms, release 1 or 2 ms, scans 0 to 2 ms apart | presses are eager, releases deferred and reported in time, nothing sticks, every change is returned |
| `rf_link` | 2 wireless links, USB, all keys | a keyboard that takes itself for connected is on the module's link (`ConnectedLinkIsCurrent`); it leaves USB with no key down (`UsbKeysReleased`) |
| `rf_link_live` | 2 wireless links, USB and a keymap with `LNK_USB`; also the shipped keymap, with 1 wireless link | dial and module converge, a hanging module is reset (`DialHasItsWay`, `ModuleFollows`, `ModuleRecovers`); with the shipped keymap the driver converges too (`DriverFollows`) |
| `sleep` | every threshold 2 | awake is lit unless VIA disabled sleep meanwhile (`AwakeIsLit`), asleep is dark but for the blinking Bluetooth key and the caps lock key (`AsleepIsDark`), idle sleeps (`IdleSleeps`) |
| `config` | 1 light, limits of one or two steps | settings in range (`DataIsGood`) and restored (`RestartRestores`) unless a save was cut off; what VIA reads is an option of its menu, with two exceptions (`ViaShowsOption`); marks always there (`RunsMarked`) |
| `rx_frame` | buffer of 8, 3 frames, 1 stray byte, 9 bytes on the line | a turn that finds a whole frame takes it, whatever came before (`WholeFrameTaken`); a frame with one byte of payload or checksum changed is dropped, whatever is in the buffer (`DamageDropped`); a command read with its checksum is an intact frame's (`OnlyIntactTaken`); no index leaves the buffer (`ReadsInside`) |
| `flash` | 2 half-words of image, 4 of log, pages of 2 | image and log implement `EepromStore` (`ImplementsStore`); nothing is programmed twice (`ProgramsErased`); a block is saved in address order (`SavedInOrder`) |
| `flash_stale` | as `flash` | **violated**, finding 1 |
| `debounce_zero` | release time 0 | **violated**, finding 2 |

Every property of a passing run has a mutant in `PROJECT.json`: an operator marked
"Slip" in the module that changes one definition as a plausible mistake would, and
under which TLC finds the property violated.

### Bounds

- *Queue and slots.* A new report clears the queue first, so at most the two frames of one
  send wait in it; 3 slots (2 usable) are the smallest ring that can hold them, and
  `NeverRefused` shows it is enough. One byte slot and two keys let a key go
  to the slot, overflow to the bits, and move; `NkroSplit` has two of each and its
  theorems cover any number. The run counts two states as one (`View`) if they differ only
  in what is overwritten before anything reads it: what the host knows of a command that no
  property speaks of, until it is told the next report of that command, and
  `report_buff` once its 25 ms are over, until the next report is taken from the queue.
  Such states take the same steps, and every invariant and property has the same value.
- *Counters.* 25 dial scans, 30 ticks, 5 polls, 100 turns become 1 or 2: each is only
  compared with its threshold, so what matters is that it can be reset or
  interrupted on the way, which one step below the threshold allows. In
  `rf_link_live` the dial and long-press counters have no such step (they have in
  `rf_link`); the poll counter has. It also leaves out the keys typed on USB (`LiveNext`):
  `usb_down` is read by no guard and by no property of this run, and no fair action
  changes it alone. `DriverFollows` has one wireless link, since it is about the other
  keymap, whose states come on top: checking liveness is what takes the time.
- *Debounce.* The times and scan gaps make a counter expire in one scan, in several,
  exactly and with time to spare. `CLOCK_CAP` bounds the history clocks above every
  sum they are compared with. The theorems have no such bounds.
- *Settings.* One light, because the two controls are the same code; `MaxUnsaved` is
  1, so that RAM and EEPROM differ. VIA's menu for the debounce times ends below what
  the keys can set, as in the code (30 and 99 ms; here 0 and the limit of the keys). Brightness has a value above the one a low battery
  dims to.
- *Flash.* One word below `FEE_BYTE_RANGE` and one above; bytes 0 and 1 give words of 0 and
  1, which have encodings of their own, and 256 and 257, which take a second half-word.
  Four half-words of log hold two long entries or end inside one; blocks of up to 3 bytes
  begin and end at odd addresses. `MaxSpoilt` bounds the writes between a wipe that was cut
  off and the one that makes it good; other writes are unbounded.
- *Frames.* The payload is two bytes, or none; one has the value of `UART_HEAD` in it. The
  handlers look at both (`STATUS_LEN` and `FUNC_TAB_LEN` are 2, in the code 5 and 32): a frame
  can be cut in front of, inside and behind what they look at. A buffer of 8 holds the longest frame and one byte, so that
  what comes behind a frame both fits and does not. Stray bytes are `UART_HEAD` and the smallest
  length that is refused. Only finitely many frames are sent, so the run may stop.

### Fairness

`WF` on `uart_send_report_repeat`, `uart_receive_pro`, `dial_sw_scan`,
`long_press_key`, `sleep_handle` and the timers: the main loop calls them for ever
and nothing in it blocks (`uart_send_cmd` waits with a timeout). `SF` on a poll and on
a SET_LINK that get through: each is retried for ever, and a UART on which one
that is tried again and again never arrives is a broken one. Nothing is assumed
of the module answering in time, of the link, the bus, keys, VIA or power. (The premises of
the liveness properties say what must be left alone: the link stays up, the dial is not moved.)
The settings, debounce, EEPROM and framing specifications have safety properties only.

### Findings

1. `eeprom_legacy_emulated_flash.c:29-30` describes a compacted snapshot "followed by a
   write log of any change since that snapshot". An entry of the log can be older than
   what it covers. Below address 128 a word whose two bytes change makes two
   entries (`:512-519`). If the first finds the log full, it compacts, with both bytes; the
   second is logged all the same. If the word has become 0, its half-word in the image is
   still erased, so the next write of it goes into the image (`:350`), and the
   next start-up replays the older entry over it. No power need fail during a write.
   `ImplementsStore` is checked with this case marked by `stale`.
2. `debounce_release_ms` may be set to 0 by keys and by VIA. A counter is then armed
   with 0, which means "not running": the release is never reported until the key
   is pressed again.

Stated as exceptions in the properties of passing runs:

- `NoStaleFrame` excludes the static copy of `uart_send_repeat_from_queue`. `rf.c:131-133` says
  "Repeats the last sent key reports periodically to reduce stuck keys.", but
  `report_buff` (`rf.c:108`) is the report last taken from the queue, not the last one sent:
  a report A is taken from the queue, a newer B is sent directly, the link goes down, another report
  is queued, the link is back within 25 ms of A. Then A is repeated (`rf.c:123`), and until the
  next report of its kind the host takes it for the newest. `HostUpToDate` and
  `BreakAllReleases` except the kind it happened to (`overwritten`).
- `BreakAllReleases` asks for an empty queue and no lost report. `user_kb.c:186` says of
  `break_all_key` "Release all keys, clear keyboard report."; if a report waits, the
  empty ones are queued behind it, and `clear_report_buffer` at the end drops them.
- `AwakeIsLit` excludes a keyboard whose `sleep_enable` VIA wrote while it slept:
  `ansi.c:66` wakes it without `exit_light_sleep`, and the LEDs stay off. `sleep.c:55` says
  "Power back up LEDs on exiting light sleep."
- `AsleepIsDark` excludes two indicators, which turn the supply of the keys on again
  in a sleeping keyboard, both through `user_set_rgb_color`: the blinking key of a Bluetooth link
  that is down (`ansi.c:444-450`), and on any link the caps lock key (`side.c:332-338`). With
  caps lock on and the indication under the key, the supply is back in the next turn of the
  main loop.
- `DataIsGood`, `ViaShowsOption` and `RestartRestores` exclude a save that was cut off.
  `ansi.c:533` says "If the EEPROM has the magic, the data is good.", but the magic is the
  first byte of the block, and the block is written in ascending order.
- `ViaShowsOption` excludes the brightness of the side light: `via_config_get_value`
  (`ansi.c:634`) has no `break` there, and VIA is told the mode of the logo light. It also
  excludes the debounce times: the keys set up to 99 ms (`user_kb.c:619-636`), and VIA's menus
  end at 30 ms (`via3.json:443-525`).
- `OnlyIntactTaken` speaks of commands read with their checksum. A chunk of up to
  four bytes, or one cut in front of its checksum, is compared with or takes what an older frame
  left in the buffer: two cut frames, or a damaged one and a stray `UART_HEAD`, can apply a
  mixture of two status frames. `RfLink` assumes that a cut frame only shows that the
  module is alive. The checksum is a sum, so that damage to two bytes can cancel out;
  `RxFrame` damages one, which never gets through (`DamageDropped`).
- `ReadsInside` holds by the check of `rf.c:177`, "is this possible?": it is, also by a
  length left over from an older frame, and then an acknowledgement is refused as well.

Also seen while reading, without a run:

- The decision to sleep is carried out 50 ms after it was taken (`sleep.c:98`), even
  if USB sleep was disabled or a key pressed in between.
- With `LNK_USB` bound to a key (no shipped keymap does), `DriverFollows` fails; that
  property is about the shipped keymap.
- A low battery dims both lights in `g_config` (`side.c:890-896`); the next save of any
  setting makes that permanent.
- Power lost between the erasures of a compaction leaves pages of the old log over an
  erased image; the settings are lost, and what is written next may be covered, until
  the next complete compaction or erasure.

## 4. What TLAPS proves

For every value of the constants that satisfies the assumptions named in the modules
(no finiteness, no bounds). Of the 40 properties of the passing runs, 33 are theorems; each
proof module has an inductive invariant, because the properties themselves are seldom
inductive:

- `UartProofs`, framing: `TypeCorrect`, `InsideRead` and the action properties `WholeFramesTaken`
  and `DamagesDropped`, for any buffer of 8 to 255 bytes, any frames that fit it, any strays
  and any number of them. The invariant `RxInv` is small (bytes are bytes, no
  frame is begun between two turns, the last read was inside); the work is in what one turn
  does with a buffer full of older bytes. `uint8_t` addition of a byte is one-to-one, so by
  induction over the bytes of the checksum one changed byte changes every later partial sum
  (`CheckSumTells`); a frame in front of the chunk fills the buffer up to its checksum
  (`FrameTakenAs`), so nothing older is added up. `ReadsInside` needs both checks of
  the length: `rf.c:177` for the checksum, and that the handlers' reads are constants that
  fit, since they do not ask how long the payload is.
- `UartProofs`, ring: `QueueTyped` (indices in range) and `RefinesFifo` (a ring of N slots
  implements a FIFO of N - 1), for 1 to 256 slots: the indices are bytes. `RingTypeOK` is inductive;
  under it each action, by cases on whether an index wraps, changes the mapped sequence
  as the abstract action does.
- `NkroSplitProofs`: `TypeCorrect`, `ReceiverAlwaysSeesReport`, `AlwaysHeldOnce` and
  the action property `NoneEverReleasedBetween`, for any number of slots and keys. Between iterations the buffers are
  neither the old report nor the new one. `LoopInvariant` says what they are: keys below
  `key_code` are held as the new report says, the others as the old one does, each in
  one place, and what differs from what was last sent is flagged as due.
- `RfReportProofs`: all safety properties of `RfReport`, for any keys, slots and queue size
  above 2 (`QueueAssumption`; the code has 64): `TypeCorrect`, `QueueNeverRefuses`, `NeverStale`,
  `HostAlwaysUpToDate`, and the action properties `ChangesAlwaysPropagate` and
  `BreakAlwaysReleases`. `ReportInv` has three parts. Transport: nothing stale waits in the queue or
  in a repeat buffer, every copy that is not stale is the newest of its command, and the
  host knows the newest unless it waits, was thrown away or a stale one was sent after it. Splitting: the static buffers
  show the report before the last. Filter: what QMK last passed on is what is held. The
  report taken from the queue last can be stale while it may be sent again, but only if
  the link came back within the 25 ms (`rejoined`): without that, new reports that wait
  mean that the queue has not been empty since, so nothing was sent past them. That needs
  a clause of its own. Nothing is assumed of when the link comes and goes. `NeverRefused` holds because the queue is filled only
  right after it was cleared, with at most two frames.
- `RfLinkProofs`: `TypeCorrect`, `ConnectedOnlyOnCurrentLink` and the action property
  `UsbKeysAlwaysReleased`, for any links and thresholds. A frame that waits in the UART
  can connect the keyboard when it is parsed; `LinkInv` adds what such a frame can be: a
  status is one of the link the module is on, an answer to READ_DATA waits only while
  nothing is connected. Inside `uart_send_cmd` the first is false for a while (the module has
  changed, the old status is still in the buffer); the lemmas carry the weaker `Parsable`
  through the nested `uart_receive_pro` and get `Consistent` back at its end.
- `DebounceProofs`: `TypeCorrect`, `PressAlwaysEager`, `TimeBaseAlwaysFresh` and
  `NeverStuck`, from `DebounceInvariant`: a running counter implies the
  flag to count, an open but reported key has a counter or a transfer due, the
  time base is fresh while anything counts. `AlwaysReportedInTime`, `ReleaseAlwaysDeferred` and
  `PressAlwaysHeld` need `HistoryInvariant`: how a running counter and the time a
  contact was open, or a key reported, add up. `EveryChangeReported` is about
  the two loops of `debounce`: what the first drops the second does not bring back in the same call.
  Hypotheses: `ReleaseRuns` (the release time is not 0; finding 2 shows it must be there)
  for `NeverStuck` and `AlwaysReportedInTime`; `TimesFit` for the three about time: the times fit the seven bits
  of the counter, and the model's clocks run far enough to tell, which is a bound
  of the model and none of the code.
- `SleepProofs`: `TypeCorrect`, `AlwaysLit` and `AlwaysDark`, for all thresholds, from
  `SleepInvariant`: `AwakeIsLit` is not inductive, because the wake-up restores the supplies only
  if `sleep_enable` still holds; what is missing is that only VIA clears it during sleep
  (`SleepsEnabled`). `AlwaysDark` needs that the two indicators are all that turns the supply of the
  keys on, and that nothing turns the other one on. Fairness is not used.
- `ConfigStoreProofs`: `TypeCorrect`, `RunsMarkedAlways`, `DataIsGoodAlways`,
  `ViaShowsOptionAlways` and the action property `RestartRestoresAlways`, for any lights, limits
  and defaults inside them (`ConfigAssumption`). `ConfigInv` has one part per question: which
  values a field can have wherever it is kept, a torn save included (`Typed`); which
  marks the EEPROM has in which phase of start-up and reset (`Marks`); what `g_config` has to
  do with the EEPROM in each (`Loaded`); that what start-up will find is what the user is owed,
  unless a save was cut off (`Owed`). With a cut the last fails, which is why
  the properties except it.
- `FlashEepromProofs`: `TypeCorrect`, `AlwaysProgramsErased` and `Implements`, the
  whole refinement of `EepromStore`, for any sizes of image, log and page with whole
  pages (`FlashAssumption`). The invariant `FlashInv` says of the call under way what its remaining
  operations will lead to (`Plan`): none left; one to program; two, after the first of which
  each byte is old or new; k of a compaction made, with or without an entry to
  follow it; an entry and then a compaction; k of an erasure made. The calls
  establish the plan, from lemmas on what the replay of a log with one entry more gives;
  the flash operations only consume it. Two facts that are easily missed are part of
  it: behind the last entry the log is erased, or a
  write would be refused; and a word of the image that is erased reads as zero whatever
  the log says, or `eeprom_write_direct_entry` would be covered by an older entry. The second
  is what finding 1 breaks, so it is claimed only while `stale` does not hold.
  `SurvivesUnlessStale` says so of the finding itself: as long as its case has not
  occurred, what `flash_stale` finds violated holds; it is the only way to lose a
  completed write. `AlwaysInOrder` (`SavedInOrder`) is about the sequence of calls of one block;
  `OrderInv` adds that the calls left ascend, each about words behind those of the one
  before it (`CallsAscend`). The plan of `FlashInv` says that the call under way differs from the
  mirror at its own words only, and a call begins only when the one before it is done.

What `SplitRun`, `Loop` and `Sums` compute is shown by induction over the key codes, over the
half-words of the log and over the bytes of a frame. The library's induction rules take an operator as a parameter, which the
provers cannot instantiate; `LeastNatural` derives from the well-foundedness of `<` on
the naturals that a non-empty set of naturals has a least element, and
`UpwardInduction` follows: a set that contains `a` and, with each number below `b`, the next,
contains all of `a .. b`. Each induction then names the set of the numbers at which its claim holds.

Only model-checked: liveness (`QueueDrains`, the four of `rf_link_live`, `IdleSleeps`), which
is out of this prover's reach; and `OnlyIntactTaken`, which is true of the frames of its run and
not of any: with other payloads, bytes of two frames and strays between them can have the
right sum, since the checksum is one byte. What holds of any frames is in `DamageDropped`.

The type invariants of `RfQueue`, `NkroSplit`, `Debounce`, `Sleep`, `ConfigStore` and `RxFrame` are
proved and not checked again by a run; those of the other modules are both. The inductive
invariants were model-checked on the instances of the runs before they were proved.

## 5. Not modelled

- Flash operations that fail or that power cuts short in themselves; reading during a write
  (nothing in this firmware does). `eeprom_update_byte` and its kin are `eeprom_update_block` with
  short blocks.
- The timers of the factory reset and of the RGB test: they count as the link key's does,
  which is in `RfLink`. All three are cleared only on a tick that finds the key up.
- The animations of the side and logo lights, the per-key indicators and digits, the
  custom RGB effects: drawing from tables. `side_driver.c` bit-bangs a WS2812 chain with
  interrupts off and keeps no state. `led_power_handle` is never called.
- The lock lights, device names, RF_DFU, WIN_LOCK, the indicator toggles, RGB_TEST.
- QMK itself beyond the lines mapped (report filter, mouse repeat, start-up, EEPROM).

## 6. Plan

The order is that of what would hurt a user most: keys that stick or repeat, then the
wrong host, then the battery, then the settings. Done: all of section 2. Left:

1. A composition of `RfLink` and `RfReport`: which host gets which report while
   the link changes.
2. `SideLight`: phases and indices of the light shows; link and battery lights.
