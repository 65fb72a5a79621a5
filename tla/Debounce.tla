------------------------------ MODULE Debounce -------------------------------
(***************************************************************************)
(* debounce.c: the asymmetric per-key debouncer between the raw matrix and *)
(* the cooked one.  A press is reported at once and holds the key for      *)
(* debounce_press_ms; a release is reported once the contact was open for  *)
(* debounce_release_ms.                                                    *)
(*                                                                         *)
(* One Scan is one matrix_scan: the raw matrix is read, debounce is called *)
(* with changed iff it differs from the one read before.  A matrix is the  *)
(* set of its closed keys.  Time is in milliseconds; scans are any of Gaps *)
(* apart, 0 included (several scans within a millisecond).                 *)
(***************************************************************************)
EXTENDS Integers, FiniteSets

CONSTANTS
    Keys,         \* matrix positions
    PressMs,      \* the settings of debounce_press_ms
    ReleaseMs,    \* the settings of debounce_release_ms
    TIME_MOD,     \* 2^7: debounce_counter_t.time has 7 bits
    UINT8_MAX,    \* the cap on elapsed_time
    Gaps,         \* milliseconds between two scans
    CLOCK_CAP     \* bound on the clocks lag, stable and age

ASSUME DebounceAssumption ==
    /\ PressMs \subseteq Nat
    /\ ReleaseMs \subseteq Nat
    /\ TIME_MOD \in Nat \ {0}
    /\ UINT8_MAX \in Nat
    /\ Gaps \subseteq Nat /\ Gaps # {}
    /\ CLOCK_CAP \in Nat

VARIABLES
    press_ms, release_ms,  \* g_config.debounce_press_ms and debounce_release_ms
    raw, cooked,           \* the two matrices
    pressed, time,         \* debounce_counters, the pressed bits as a set
    need,                  \* "counters": counters_need_update, "matrix": matrix_need_update
    cooked_changed,        \* what debounce returned
    lag,                   \* time since last_time
    stable,                \* history: time since the raw key last changed
    age,                   \* history: time since the cooked key last changed
    gap                    \* history: time between the last two scans

config == <<press_ms, release_ms>>
vars == <<press_ms, release_ms, raw, cooked, pressed, time, need,
          cooked_changed, lag, stable, age, gap>>

Flags == {"counters", "matrix"}

\* The time passed, up to the cap.
Later(clock, e) == IF clock + e > CLOCK_CAP THEN CLOCK_CAP ELSE clock + e

\* debounce_init leaves pressed as malloc found it.  The firmware starts with
\* all keys up.
Init ==
    /\ press_ms \in PressMs
    /\ release_ms \in ReleaseMs
    /\ raw = {}
    /\ cooked = {}
    /\ pressed \in SUBSET Keys
    /\ time = [k \in Keys |-> 0]
    /\ need = {}
    /\ cooked_changed = FALSE
    /\ lag = 0
    /\ stable = [k \in Keys |-> 0]
    /\ age = [k \in Keys |-> 0]
    /\ gap = 0

-----------------------------------------------------------------------------
(* debounce.c.  d is the state of the debouncer, new the raw matrix.       *)

Current == [cooked |-> cooked, pressed |-> pressed, time |-> time, need |-> need]

\* Slips: a release that is due is not passed on; the end of a press hold does not
\* ask for another transfer.
UpdateWithoutRelease(d, new, elapsed) ==
    LET running == {k \in Keys : d.time[k] > elapsed}
    IN  [d EXCEPT !.time = [k \in Keys |-> IF k \in running THEN @[k] - elapsed ELSE 0],
                  !.need = IF running = {} THEN {"matrix"} ELSE {"counters"}]

UpdateWithoutMatrix(d, new, elapsed) ==
    LET running == {k \in Keys : d.time[k] > elapsed}
        deferred == {k \in Keys \ d.pressed : d.time[k] \in 1 .. elapsed}
    IN  [d EXCEPT !.cooked = (@ \ deferred) \cup (new \cap deferred),
                  !.time = [k \in Keys |-> IF k \in running THEN @[k] - elapsed ELSE 0],
                  !.need = IF running = {} THEN {} ELSE {"counters"}]

\* update_debounce_counters_and_transfer_if_expired
Update(d, new, elapsed) ==
    LET expired == {k \in Keys : d.time[k] # 0 /\ d.time[k] <= elapsed}
        running == {k \in Keys : d.time[k] > elapsed}
        deferred == expired \ d.pressed
    IN  [cooked |-> (d.cooked \ deferred) \cup (new \cap deferred),
         pressed |-> d.pressed,
         time |-> [k \in Keys |-> IF k \in running THEN d.time[k] - elapsed ELSE 0],
         need |-> (IF running # {} THEN {"counters"} ELSE {})
                    \cup (IF expired \cap d.pressed # {} THEN {"matrix"} ELSE {})]

\* Slips: the counter is set wherever the matrices differ, also while it runs;
\* a press waits for its counter; a key that bounces back does not stop its own.
ArmAlways(d, new) == (new \ d.cooked) \cup (d.cooked \ new)

ArmReleases(d, new) == {k \in d.cooked \ new : d.time[k] = 0}

CancelNever(d, new) == {}

\* The keys that differ and whose counter has elapsed.
Arm(d, new) ==
    {k \in (new \ d.cooked) \cup (d.cooked \ new) : d.time[k] = 0}

\* The released keys that are closed again before their time.
Cancel(d, new) ==
    {k \in Keys : (k \in new <=> k \in d.cooked) /\ k \notin d.pressed}

\* transfer_matrix_values
Transfer(d, new) ==
    LET arm == Arm(d, new)
    IN  [cooked |-> d.cooked \cup (arm \cap new),
         pressed |-> (d.pressed \ arm) \cup (arm \cap new),
         time |-> [k \in Keys |->
                     IF k \in arm
                     THEN (IF k \in new THEN press_ms ELSE release_ms) % TIME_MOD
                     ELSE IF k \in Cancel(d, new) THEN 0 ELSE d.time[k]],
         need |-> (d.need \ {"matrix"}) \cup (IF arm # {} THEN {"counters"} ELSE {})]

\* Slip: last_time only moves when the counters do.
LagOnlyWhenCounting(counting, transfers, e) ==
    IF counting THEN 0 ELSE Later(lag, e)

\* last_time is set by an update and by a transfer.
NewLag(counting, transfers, e) ==
    IF counting \/ transfers THEN 0 ELSE Later(lag, e)

\* Slip: only what the transfer does counts as a change.
ChangedByTransfer(before, updated, after) == after # updated

\* cooked_changed: set by either loop.
Changed(before, updated, after) == updated # before \/ after # updated

\* debounce, e milliseconds after the scan before.
Scan(new, e) ==
    LET counting == "counters" \in need
        elapsed == IF lag + e > UINT8_MAX THEN UINT8_MAX ELSE lag + e
        u == IF counting /\ elapsed > 0 THEN Update(Current, new, elapsed) ELSE Current
        transfers == new # raw \/ "matrix" \in u.need
        d == IF transfers THEN Transfer(u, new) ELSE u
    IN  /\ raw' = new
        /\ cooked' = d.cooked
        /\ pressed' = d.pressed
        /\ time' = d.time
        /\ need' = d.need
        /\ cooked_changed' = Changed(cooked, u.cooked, d.cooked)
        /\ lag' = NewLag(counting, transfers, e)
        /\ stable' = [k \in Keys |->
                        IF k \in raw <=> k \in new THEN Later(stable[k], e) ELSE 0]
        /\ age' = [k \in Keys |->
                     IF k \in cooked <=> k \in d.cooked THEN Later(age[k], e) ELSE 0]
        /\ gap' = e
        /\ UNCHANGED config

\* adjust_debounce and the VIA command change the settings between two scans.
SetDebounce(press, release) ==
    /\ <<press, release>> # config
    /\ press_ms' = press
    /\ release_ms' = release
    /\ UNCHANGED <<raw, cooked, pressed, time, need, cooked_changed, lag,
                   stable, age, gap>>

Next ==
    \/ \E new \in SUBSET Keys, e \in Gaps : Scan(new, e)
    \/ \E press \in PressMs, release \in ReleaseMs : SetDebounce(press, release)

Spec == Init /\ [][Next]_vars

-----------------------------------------------------------------------------
(* Properties *)

\* The counters fit their 7 bits, the matrices are sets of keys.
TypeOK ==
    /\ press_ms \in PressMs
    /\ release_ms \in ReleaseMs
    /\ raw \in SUBSET Keys
    /\ cooked \in SUBSET Keys
    /\ pressed \in SUBSET Keys
    /\ time \in [Keys -> 0 .. TIME_MOD - 1]
    /\ need \in SUBSET Flags
    /\ cooked_changed \in BOOLEAN
    /\ lag \in 0 .. CLOCK_CAP

\* debounce.c:74-116: a key whose cooked state differs from the raw one has a
\* running counter, and the next scan will count it down: no key waits for a
\* change of the matrix that may never come.
NoStuckKey ==
    \A k \in Keys : (k \in raw) # (k \in cooked) => time[k] # 0 /\ "counters" \in need

\* debounce.c:2 "After pressing a key, it immediately changes state": whatever
\* the counters do, no scan leaves a closed key unreported.
PressIsEager == raw \subseteq cooked

\* debounce.c:57-72: while a counter runs the time base is that of the last
\* scan, so no counter is charged with time from before it was set.
FreshTimeBase == "counters" \in need => lag = 0

\* debounce.c:4 "that state is pushed after no changes occur for DEBOUNCE
\* milliseconds": a key is only reported released after its contact was seen
\* open, and nothing else, for the release time.
ReleaseIsDeferred ==
    [][\A k \in cooked \ cooked' : k \notin raw' /\ \E r \in ReleaseMs : stable'[k] >= r]_vars

\* debounce.c:3 "no further inputs accepted until DEBOUNCE milliseconds": a press
\* is reported for at least the press time followed by the release time.
PressIsHeld ==
    [][\A k \in cooked \ cooked' :
         \E p \in PressMs, r \in ReleaseMs : age[k] + gap' >= p + r]_vars

\* debounce.c:51-79: the caller learns of every change of the cooked matrix, and
\* of no other; matrix_task skips the scan otherwise.
ReportsEveryChange == [][config' = config => cooked_changed' = (cooked' # cooked)]_vars

\* debounce.c:84-116: scans may be late, but a contact that stays as it is waits
\* for less than the press and release times and the scan between the two; the
\* scan after that reports it.
ReportedInTime ==
    \A k \in Keys : (k \in raw) # (k \in cooked)
      => \E p \in PressMs, r \in ReleaseMs, g \in Gaps : stable[k] < p + r + g
=============================================================================
