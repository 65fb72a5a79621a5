------------------------------ MODULE RfReport -------------------------------
(***************************************************************************)
(* The wireless report transport: rf_driver.c and the report half of rf.c, *)
(* from QMK's send_keyboard_report down to the frames handed to the RF     *)
(* module.  While the link is up a report goes out at once and is repeated *)
(* for a while; while it is down reports wait in the queue of RfQueue,     *)
(* which is a sequence here.                                               *)
(*                                                                         *)
(* Time is abstracted: no_act_time is in one of the three ranges the code  *)
(* tells apart, and a timer is either due or not.  The RF module and the   *)
(* host are external: a frame handed to the UART while the link is up is   *)
(* what the host knows from then on.  Mouse, consumer and system reports   *)
(* take the same way (never repeated, no buffer of their own), so they are *)
(* one command, EXTRA, without content.  link_mode is a wireless one       *)
(* throughout (RF driver installed).                                       *)
(***************************************************************************)
EXTENDS NkroReport, Sequences

CONSTANT RF_QUEUE_SIZE    \* slots of the ring buffer, one of which stays free

\* The two reports of one n-key-rollover send have room.
ASSUME QueueAssumption == RF_QUEUE_SIZE \in Nat /\ RF_QUEUE_SIZE > 2

VARIABLES
    rf_state,            \* "RF_CONNECT" or "RF_LINKING" (any other state)
    f_dial_sw_init_ok,   \* the dial switches are settled
    no_act_time,         \* time since the last key event: see Active, Idle, Long
    nkro,                \* keymap_config.nkro
    kb,                  \* keys and modifiers held: nkro_report / keyboard_report
    dequeue_due,         \* dequeue_timer has run for more than 25 ms
    rejoined,            \* history: the link came up again within those 25 ms
    tx                   \* buffers of the transport, and what left it: see Init

vars == <<rf_state, f_dial_sw_init_ok, no_act_time, nkro, kb, dequeue_due,
          rejoined, tx>>

KeyCmd == {"BYTE_KB", "BIT_KB"}
Cmd == KeyCmd \cup {"EXTRA"}
Held == [mods : Mods, keys : SUBSET Key]
Released == [mods |-> 0, keys |-> {}]

\* report_buffer_t: command and content.  The history flag stale says that a
\* newer report of its command exists, or that it was tossed away.
Report(cmd, data) == [cmd |-> cmd, data |-> data, stale |-> FALSE]
NoReport == Report("NONE", Released)

\* no_act_time: repeated (<= 25), no longer repeated, long idle (> 100).
Active == 0
Idle == 1
Long == 2

Init ==
    /\ rf_state = "RF_LINKING"
    /\ f_dial_sw_init_ok = TRUE
    /\ no_act_time = Active
    /\ nkro \in BOOLEAN
    /\ kb = Released
    /\ dequeue_due = TRUE
    /\ rejoined = FALSE
    /\ tx = [queue |-> << >>,                 \* rf_queue
             a |-> NoReport,                  \* report_buff_a
             b |-> NoReport,                  \* report_buff_b
             buff |-> NoReport,               \* report_buff, static of the queue repeat
             repeated |-> FALSE,              \* report_buff.repeat # 0
             do_repeat |-> TRUE,
             split |-> EmptySplit,            \* statics of uart_auto_nkey_send
             pre |-> Released,                \* pre_bit_report
             last_nkro |-> Released,          \* last_report of send_nkro_report
             last_6kro |-> Released,          \* last_report of send_6kro_report
             host |-> [c \in KeyCmd |-> Released],  \* what the host was last told
             latest |-> [c \in KeyCmd |-> Released], \* history: last report made
             lost |-> {},                     \* history: latest was thrown away
             refused |-> FALSE,               \* history: a full queue refused
             overwritten |-> {}]              \* history: last sent was a stale frame

-----------------------------------------------------------------------------
(* History *)

Outdated(r, cmds) == IF r.cmd \in cmds THEN [r EXCEPT !.stale = TRUE] ELSE r

\* Every copy of a report whose command is in cmds is stale from now on.
Outdate(x, cmds) ==
    [x EXCEPT !.queue = [i \in DOMAIN @ |-> Outdated(@[i], cmds)],
              !.a = Outdated(@, cmds),
              !.b = Outdated(@, cmds),
              !.buff = Outdated(@, cmds)]

\* make_report_buffer: r is the newest report of its command.
Made(x, r) ==
    IF r.cmd \notin KeyCmd THEN Outdate(x, {r.cmd})
    ELSE [Outdate(x, {r.cmd}) EXCEPT !.latest[r.cmd] = r.data, !.lost = @ \ {r.cmd}]

\* Keyboard reports that wait.
Queued(x) == {x.queue[i].cmd : i \in DOMAIN x.queue} \cap KeyCmd

\* The reports that the host may rightly not know the newest of: it waits, was
\* thrown away, or an outdated one was sent after it (see NoStaleFrame).
Unknown(x) == x.lost \cup x.overwritten \cup Queued(x)

-----------------------------------------------------------------------------
(* rf_driver.c and rf.c: operators from the transport x to the transport   *)
(* after the call.                                                         *)

\* Slips the properties must expose: the queue survives a new report; the
\* repeat buffers survive the toss.
ClearKeepsQueue(x) == [x EXCEPT !.a = NoReport, !.b = NoReport]

ClearKeepsBuffers(x) ==
    [x EXCEPT !.queue = << >>, !.lost = @ \cup Queued(x)]

clear_report_buffer(x) ==
    [x EXCEPT !.queue = << >>, !.lost = @ \cup Queued(x),
              !.a = NoReport, !.b = NoReport]

uart_send_report(x, r) ==
    IF f_dial_sw_init_ok /\ rf_state = "RF_CONNECT"
    THEN [x EXCEPT !.host = [c \in KeyCmd |-> IF c = r.cmd THEN r.data ELSE @[c]],
                   !.lost = IF r.stale THEN @ ELSE @ \ {r.cmd},
                   !.overwritten = IF r.stale THEN @ \cup {r.cmd} ELSE @ \ {r.cmd}]
    ELSE x

enqueue(x, r) ==
    IF Len(x.queue) < RF_QUEUE_SIZE - 1
    THEN [x EXCEPT !.queue = Append(@, r)]
    ELSE [x EXCEPT !.refused = TRUE, !.lost = @ \cup ({r.cmd} \cap KeyCmd)]

\* A direct send that uart_send_report turns down is lost until it is repeated.
send_or_queue(x, r) ==
    IF rf_state = "RF_CONNECT" /\ x.queue = << >>
    THEN uart_send_report([x EXCEPT !.lost = @ \cup ({r.cmd} \cap KeyCmd)], r)
    ELSE enqueue(x, r)

rf_send_keyboard(x, data) ==
    LET r == Report("BYTE_KB", data)
    IN  [send_or_queue(Made(clear_report_buffer(x), r), r) EXCEPT !.a = r]

\* The byte report goes first, and each only if it is due.
uart_auto_nkey_send(x, now) ==
    LET s == SplitLoop(x.split, x.pre, now)
        y == [x EXCEPT !.split = [s EXCEPT !.due = {}], !.pre = now]
        byte == Report("BYTE_KB", [mods |-> s.mods, keys |-> ByteKeys(s)])
        bit == Report("BIT_KB", [mods |-> 0, keys |-> s.bits])
        z == IF "byte" \in s.due
             THEN [send_or_queue(Made(y, byte), byte) EXCEPT !.a = byte] ELSE y
    IN  IF "bit" \in s.due
        THEN [send_or_queue(Made(z, bit), bit) EXCEPT !.b = bit] ELSE z

rf_send_nkro(x, data) == uart_auto_nkey_send(clear_report_buffer(x), data)

\* rf_send_mouse and rf_send_extra.
rf_send_extra(x) ==
    LET r == Report("EXTRA", Released)
    IN  send_or_queue(Made(clear_report_buffer(x), r), r)

-----------------------------------------------------------------------------
(* QMK's report layer and break_all_key *)

\* send_nkro_report and send_6kro_report pass on only what differs from the
\* last report they passed on.
send_keyboard_report(x, is_nkro, data) ==
    IF is_nkro
    THEN IF data = x.last_nkro THEN x
         ELSE rf_send_nkro([x EXCEPT !.last_nkro = data], data)
    ELSE IF data = x.last_6kro THEN x
         ELSE rf_send_keyboard([x EXCEPT !.last_6kro = data], data)

\* Slip: the empty reports without clear_keyboard.
BreakWithoutClear(x, is_nkro) ==
    clear_report_buffer(rf_send_keyboard(rf_send_nkro(x, Released), Released))

\* Slip: only the six-key report is emptied.
BreakBytesOnly(x, is_nkro) == clear_report_buffer(rf_send_keyboard(x, Released))

\* clear_keyboard (keys, then the extra and mouse reports), then an empty report
\* of either kind past the filter above.
break_all_key(x, is_nkro) ==
    LET x1 == rf_send_extra(send_keyboard_report(x, is_nkro, Released))
        x2 == rf_send_keyboard(rf_send_nkro(x1, Released), Released)
    IN  clear_report_buffer(x2)

-----------------------------------------------------------------------------
(* Key events: pre_process_record_kb restarts no_act_time, then the report *)

KeyEvent(data) ==
    /\ data # kb
    /\ ~nkro => Cardinality(data.keys) <= NUM_BYTE_SLOTS
    /\ kb' = data
    /\ no_act_time' = Active
    /\ tx' = send_keyboard_report(tx, nkro, data)
    /\ UNCHANGED <<rf_state, f_dial_sw_init_ok, nkro, dequeue_due, rejoined>>

\* A consumer, system or mouse key.
ExtraKey ==
    /\ no_act_time' = Active
    /\ tx' = rf_send_extra(tx)
    /\ UNCHANGED <<rf_state, f_dial_sw_init_ok, nkro, kb, dequeue_due, rejoined>>

\* A key that sends no report, a layer key for example.
OtherKey ==
    /\ no_act_time' = Active
    /\ UNCHANGED <<rf_state, f_dial_sw_init_ok, nkro, kb, dequeue_due, rejoined, tx>>

\* A mouse key that is held repeats without key events.
MouseRepeat ==
    /\ tx' = rf_send_extra(tx)
    /\ UNCHANGED <<rf_state, f_dial_sw_init_ok, no_act_time, nkro, kb, dequeue_due, rejoined>>

-----------------------------------------------------------------------------
(* uart_send_report_repeat, called from every turn of the main loop *)

\* The link is down for long and no key was touched: everything is tossed.
RepeatToss ==
    /\ rf_state # "RF_CONNECT"
    /\ no_act_time = Long
    /\ tx' = Outdate(clear_report_buffer(tx), Cmd)
    /\ UNCHANGED <<rf_state, f_dial_sw_init_ok, no_act_time, nkro, kb, dequeue_due, rejoined>>

\* Slip: after a report that is not repeated nothing is taken from the queue.
DequeueOnlyWhileRepeating(x) ==
    IF x.queue = << >> \/ ~dequeue_due \/ ~x.do_repeat THEN x
    ELSE [x EXCEPT !.buff = Head(x.queue), !.queue = Tail(x.queue), !.repeated = FALSE,
                   !.do_repeat = Head(x.queue).cmd \in KeyCmd,
                   !.lost = @ \cup ({Head(x.queue).cmd} \cap KeyCmd)]

\* rf_queue.dequeue, at most every 25 ms.  Only keyboard reports are repeated.
\* (The report counts as lost until uart_send_report takes it.)
Dequeue(x) ==
    IF x.queue = << >> \/ ~dequeue_due THEN x
    ELSE [x EXCEPT !.buff = Head(x.queue), !.queue = Tail(x.queue), !.repeated = FALSE,
                   !.do_repeat = Head(x.queue).cmd \in KeyCmd,
                   !.lost = @ \cup ({Head(x.queue).cmd} \cap KeyCmd)]

\* Slip: the last report is repeated whatever its kind.
HandOverAlways(x) ==
    IF x.queue # << >> THEN x ELSE [clear_report_buffer(x) EXCEPT !.a = x.buff]

\* The queue ran empty: its last keyboard report moves to the repeat buffer.
HandOver(x) ==
    IF x.queue # << >> THEN x
    ELSE [clear_report_buffer(x) EXCEPT !.a = IF x.do_repeat THEN x.buff ELSE @]

\* uart_send_repeat_from_queue; repeat_due: repeat_timer has run for over 3 ms.
RepeatFromQueue(repeat_due) ==
    /\ rf_state = "RF_CONNECT"
    /\ tx.queue # << >>
    /\ LET x == HandOver(Dequeue(tx))
       IN  tx' = IF ~x.repeated \/ (x.do_repeat /\ repeat_due)
                 THEN [uart_send_report(x, x.buff) EXCEPT !.repeated = TRUE]
                 ELSE x
    /\ dequeue_due' = FALSE
    /\ UNCHANGED <<rf_state, f_dial_sw_init_ok, no_act_time, nkro, kb, rejoined>>

SendIfAny(x, r) == IF r.cmd = "NONE" THEN x ELSE uart_send_report(x, r)

\* The repeat interval is over and the last key event is recent: once more.
RepeatBuffers ==
    /\ rf_state = "RF_CONNECT"
    /\ tx.queue = << >>
    /\ no_act_time = Active
    /\ tx' = SendIfAny(SendIfAny(tx, tx.a), tx.b)
    /\ UNCHANGED <<rf_state, f_dial_sw_init_ok, no_act_time, nkro, kb, dequeue_due, rejoined>>

\* The repeat interval is over and there was no key event for 250 ms.
RepeatStops ==
    /\ rf_state = "RF_CONNECT"
    /\ tx.queue = << >>
    /\ no_act_time # Active
    /\ tx' = clear_report_buffer(tx)
    /\ UNCHANGED <<rf_state, f_dial_sw_init_ok, no_act_time, nkro, kb, dequeue_due, rejoined>>

uart_send_report_repeat ==
    \/ RepeatToss
    \/ \E repeat_due \in BOOLEAN : RepeatFromQueue(repeat_due)
    \/ RepeatBuffers
    \/ RepeatStops

-----------------------------------------------------------------------------
(* Time, link and switches *)

NoActTick ==
    /\ no_act_time < Long
    /\ no_act_time' = no_act_time + 1
    /\ UNCHANGED <<rf_state, f_dial_sw_init_ok, nkro, kb, dequeue_due, rejoined, tx>>

DequeueTimer ==
    /\ ~dequeue_due
    /\ dequeue_due' = TRUE
    /\ rejoined' = FALSE
    /\ UNCHANGED <<rf_state, f_dial_sw_init_ok, no_act_time, nkro, kb, tx>>

\* A status frame, or one of the commands that change the link (rf.c:327, rf.c:338,
\* user_kb.c:224).
LinkDown ==
    /\ rf_state = "RF_CONNECT"
    /\ rf_state' = "RF_LINKING"
    /\ UNCHANGED <<f_dial_sw_init_ok, no_act_time, nkro, kb, dequeue_due, rejoined, tx>>

\* Any status frame of the link in use sets rf_state, one that the module sent
\* of its own accord included, so this may be soon after LinkDown.
LinkUp ==
    /\ rf_state # "RF_CONNECT"
    /\ rf_state' = "RF_CONNECT"
    /\ rejoined' = ~dequeue_due
    /\ UNCHANGED <<f_dial_sw_init_ok, no_act_time, nkro, kb, dequeue_due, tx>>

\* dial_sw_scan: a dial moved.
DialMoved ==
    /\ tx' = break_all_key(tx, nkro)
    /\ kb' = Released
    /\ no_act_time' = Active
    /\ f_dial_sw_init_ok' = FALSE
    /\ UNCHANGED <<rf_state, nkro, dequeue_due, rejoined>>

\* dial_sw_scan: the dials are stable again; the Mac/Windows dial may be in a
\* new position, which also sets the report kind.
DialSettled(sys_moved) ==
    /\ ~f_dial_sw_init_ok
    /\ f_dial_sw_init_ok' = TRUE
    /\ nkro' = IF sys_moved THEN ~nkro ELSE nkro
    /\ tx' = IF sys_moved THEN break_all_key(tx, ~nkro) ELSE tx
    /\ kb' = IF sys_moved THEN Released ELSE kb
    /\ UNCHANGED <<rf_state, no_act_time, dequeue_due, rejoined>>

Next ==
    \/ \E data \in Held : KeyEvent(data)
    \/ ExtraKey
    \/ OtherKey
    \/ MouseRepeat
    \/ uart_send_report_repeat
    \/ NoActTick
    \/ DequeueTimer
    \/ LinkDown
    \/ LinkUp
    \/ DialMoved
    \/ \E sys_moved \in BOOLEAN : DialSettled(sys_moved)

\* The main loop never stops calling uart_send_report_repeat, and time passes.
Fairness == WF_vars(uart_send_report_repeat) /\ WF_vars(DequeueTimer)

Spec == Init /\ [][Next]_vars /\ Fairness

-----------------------------------------------------------------------------
(* Properties *)

\* The buffers hold reports, in the form the transport makes them.
TypeOK ==
    /\ rf_state \in {"RF_CONNECT", "RF_LINKING"}
    /\ f_dial_sw_init_ok \in BOOLEAN
    /\ no_act_time \in Active .. Long
    /\ kb \in Held
    /\ \A i \in DOMAIN tx.queue : tx.queue[i].cmd \in Cmd
    /\ tx.a.cmd \in {"NONE", "BYTE_KB", "BIT_KB"}
    /\ tx.b.cmd \in {"NONE", "BIT_KB"}
    /\ tx.host \in [KeyCmd -> Held]

\* rf_driver.c:45-164, rf.c:105-166: a report that was neither thrown away nor
\* is still waiting is what the host knows; so for n-key rollover the byte and
\* bit reports together show the host exactly the keys that are down, on either
\* way a report can take and whatever mix of direct and queued sends there was.
HostUpToDate ==
    /\ \A c \in KeyCmd \ Unknown(tx) : tx.host[c] = tx.latest[c]
    /\ nkro /\ KeyCmd \cap Unknown(tx) = {}
         => tx.host["BYTE_KB"].keys \cup tx.host["BIT_KB"].keys = tx.pre.keys

\* rf.c:88-92 with rf_driver.c:133-164: each new report starts from an empty
\* queue, so one send's reports are all that ever waits and the ring buffer of
\* any size over 2 never refuses one.
NeverRefused == ~tx.refused

\* rf.c:131-133 "Repeats the last sent key reports periodically to reduce stuck
\* keys.": what goes out is the newest report of its kind; neither the queue nor
\* the repeat buffers bring back a report that was superseded, or tossed while
\* the link was down.  The one exception is the static copy of rf.c:108: when the
\* link comes back within 25 ms of the last report taken from the queue and new
\* ones wait, rf.c:123 repeats that report, whatever was sent directly since.
NoStaleFrame ==
    [][tx'.overwritten \subseteq tx.overwritten
         \cup (IF rejoined THEN {tx.buff.cmd} ELSE {})]_vars

\* rf.c:105-128: once the link stays up, the queue runs empty for good.
QueueDrains == <>[](rf_state = "RF_CONNECT") => <>[](tx.queue = << >>)

\* quantum/action_util.c:285-312 with user_kb.c:188-211: the filter that drops
\* unchanged reports compares with a copy that break_all_key, whose empty
\* reports go round it, and the switch between the two report kinds could leave
\* behind.  It never does: every change of what is held reaches the driver.
ChangesPropagate ==
    [][kb' # kb => IF nkro' THEN tx'.pre = kb' ELSE tx'.latest["BYTE_KB"] = kb']_vars

\* user_kb.c:186 says of break_all_key "Release all keys, clear keyboard
\* report.": called while the link is up, it leaves the host with no key down,
\* whichever of the reports the keys are in.  Not so if a report waited or was
\* thrown away before: the empty reports then wait too, and the clearing at the
\* end of break_all_key drops them, or the split sees no change to send; nor if
\* the host was last sent an outdated report, which the split knows nothing of.
BreakAllReleases ==
    [][f_dial_sw_init_ok /\ ~f_dial_sw_init_ok' /\ rf_state = "RF_CONNECT"
         /\ tx.queue = << >> /\ tx.lost \cup tx.overwritten = {}
         => \A c \in KeyCmd : tx'.host[c] = Released]_vars
=============================================================================
