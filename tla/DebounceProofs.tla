--------------------------- MODULE DebounceProofs ----------------------------
(***************************************************************************)
(* Proofs about Debounce, for any set of keys, any settings and any gaps   *)
(* between scans.                                                          *)
(*                                                                         *)
(* The inductive invariant says what a scan leaves behind: a counter that  *)
(* runs belongs to a reported key and is counted down by the next scan, a  *)
(* reported key whose contact is open has a running counter, and no        *)
(* transfer is outstanding.  The last two need a release time that the     *)
(* 7-bit counter does not truncate to zero.                                *)
(*                                                                         *)
(* A second invariant ties each counter to the history of its key: what is *)
(* left of a counter and the time already passed make up the times a press *)
(* is held for and a release is waited for.                                *)
(***************************************************************************)
EXTENDS Debounce, TLAPS

\* What Update leaves for Transfer.
Counting(d) ==
    /\ d.cooked \in SUBSET Keys
    /\ d.pressed \in SUBSET Keys
    /\ d.time \in [Keys -> 0 .. TIME_MOD - 1]
    /\ d.need \in SUBSET Flags
    /\ \A k \in Keys : d.time[k] # 0 => k \in d.cooked /\ "counters" \in d.need

\* What a whole scan leaves, with r the raw matrix it saw.
Settled(d, r) ==
    /\ Counting(d)
    /\ r \subseteq d.cooked
    /\ "matrix" \notin d.need

\* A reported key whose contact is open has a running counter.
Waiting(d, r) == \A k \in d.cooked \ r : d.time[k] # 0

\* The release time survives the truncation to 7 bits.
ReleaseRuns == \A r \in ReleaseMs : r % TIME_MOD # 0

DebounceInv ==
    /\ TypeOK
    /\ Settled(Current, raw)
    /\ FreshTimeBase
    /\ ReleaseRuns => Waiting(Current, raw)

-----------------------------------------------------------------------------

LEMMA ModInRange ==
    ASSUME NEW n \in Nat
    PROVE  n % TIME_MOD \in 0 .. TIME_MOD - 1
  BY DebounceAssumption

LEMMA UpdateCounts ==
    ASSUME NEW d, Counting(d), NEW new \in SUBSET Keys, NEW e \in Nat, e > 0
    PROVE  Counting(Update(d, new, e))
<1> DEFINE expired == {k \in Keys : d.time[k] # 0 /\ d.time[k] <= e}
           running == {k \in Keys : d.time[k] > e}
           deferred == expired \ d.pressed
           t == [k \in Keys |-> IF k \in running THEN d.time[k] - e ELSE 0]
           c == (d.cooked \ deferred) \cup (new \cap deferred)
           n == (IF running # {} THEN {"counters"} ELSE {})
                  \cup (IF expired \cap d.pressed # {} THEN {"matrix"} ELSE {})
           u == [cooked |-> c, pressed |-> d.pressed, time |-> t, need |-> n]
<1>1. Update(d, new, e) = u
  BY DEF Update
<1>2. t \in [Keys -> 0 .. TIME_MOD - 1]
  BY DebounceAssumption DEF Counting
<1>3. ASSUME NEW k \in Keys, t[k] # 0 PROVE k \in c /\ "counters" \in n
  <2>1. k \in running
    BY <1>3
  <2>2. k \in d.cooked /\ k \notin deferred
    BY <2>1, DebounceAssumption DEF Counting
  <2> QED BY <2>1, <2>2
<1>4. c \in SUBSET Keys /\ n \in SUBSET Flags /\ d.pressed \in SUBSET Keys
  BY DEF Counting, Flags
<1> HIDE DEF t, c, n
<1>5. u.cooked = c /\ u.pressed = d.pressed /\ u.time = t /\ u.need = n
  OBVIOUS
<1> HIDE DEF u
<1> QED
  BY <1>1, <1>2, <1>3, <1>4, <1>5 DEF Counting

LEMMA TransferSettles ==
    ASSUME NEW d, Counting(d), NEW new \in SUBSET Keys,
           press_ms \in PressMs, release_ms \in ReleaseMs
    PROVE  /\ Settled(Transfer(d, new), new)
           /\ ReleaseRuns => Waiting(Transfer(d, new), new)
<1> DEFINE arm == Arm(d, new)
           t == [k \in Keys |->
                     IF k \in arm
                     THEN (IF k \in new THEN press_ms ELSE release_ms) % TIME_MOD
                     ELSE IF k \in Cancel(d, new) THEN 0 ELSE d.time[k]]
           c == d.cooked \cup (arm \cap new)
           p == (d.pressed \ arm) \cup (arm \cap new)
           n == (d.need \ {"matrix"}) \cup (IF arm # {} THEN {"counters"} ELSE {})
           u == [cooked |-> c, pressed |-> p, time |-> t, need |-> n]
<1>1. Transfer(d, new) = u
  BY DEF Transfer
<1>a. press_ms % TIME_MOD \in 0 .. TIME_MOD - 1 /\ release_ms % TIME_MOD \in 0 .. TIME_MOD - 1
  BY ModInRange, DebounceAssumption
<1>b. ReleaseRuns => release_ms % TIME_MOD # 0
  BY DEF ReleaseRuns
<1>c. arm = {k \in Keys : (k \in new <=> k \notin d.cooked) /\ d.time[k] = 0}
  BY DEF Arm, Counting
<1>2. t \in [Keys -> 0 .. TIME_MOD - 1]
  BY <1>a, DebounceAssumption DEF Counting
<1>3. ASSUME NEW k \in Keys, t[k] # 0 PROVE k \in c /\ "counters" \in n
  <2>1. CASE k \in arm
    <3>1. k \in c
      BY <2>1, <1>c
    <3> QED BY <3>1, <2>1
  <2>2. CASE k \notin arm
    <3>1. d.time[k] # 0
      BY <2>2, <1>3
    <3> QED BY <3>1 DEF Counting
  <2> QED BY <2>1, <2>2
<1>4. c \in SUBSET Keys /\ p \in SUBSET Keys /\ n \in SUBSET Flags
  BY <1>c DEF Counting, Flags
<1>5. new \subseteq c
  <2> SUFFICES ASSUME NEW k \in new, k \notin d.cooked PROVE k \in arm
    OBVIOUS
  <2> QED BY <1>c DEF Counting
<1>6. ASSUME ReleaseRuns, NEW k \in c \ new PROVE t[k] # 0
  <2>0. k \in Keys /\ k \in d.cooked /\ k \notin new
    BY <1>6, <1>4, <1>c
  <2>1. CASE d.time[k] = 0
    <3>1. k \in arm
      BY <2>0, <2>1, <1>c
    <3>2. t[k] = release_ms % TIME_MOD
      BY <2>0, <3>1
    <3> QED BY <3>2, <1>b, <1>6
  <2>2. CASE d.time[k] # 0
    <3>1. k \notin arm /\ k \notin Cancel(d, new)
      BY <2>0, <2>2, <1>c DEF Cancel
    <3> QED BY <2>0, <2>2, <3>1
  <2> QED BY <2>1, <2>2
<1>7. "matrix" \notin n
  OBVIOUS
<1> HIDE DEF t, c, p, n
<1>8. u.cooked = c /\ u.pressed = p /\ u.time = t /\ u.need = n
  OBVIOUS
<1> HIDE DEF u
<1> QED
  BY <1>1, <1>2, <1>3, <1>4, <1>5, <1>6, <1>7, <1>8 DEF Settled, Counting, Waiting

LEMMA CurrentFields ==
    /\ Current.cooked = cooked
    /\ Current.pressed = pressed
    /\ Current.time = time
    /\ Current.need = need
  BY DEF Current

\* If Update finds no expired hold, the keys that wait still do.
LEMMA UpdateWaits ==
    ASSUME NEW d, Counting(d), NEW new \in SUBSET Keys, NEW e \in Nat,
           "matrix" \notin Update(d, new, e).need
    PROVE  /\ new \subseteq d.cooked => new \subseteq Update(d, new, e).cooked
           /\ Waiting(d, new) => Waiting(Update(d, new, e), new)
<1> DEFINE expired == {k \in Keys : d.time[k] # 0 /\ d.time[k] <= e}
           running == {k \in Keys : d.time[k] > e}
           deferred == expired \ d.pressed
           t == [k \in Keys |-> IF k \in running THEN d.time[k] - e ELSE 0]
           c == (d.cooked \ deferred) \cup (new \cap deferred)
           n == (IF running # {} THEN {"counters"} ELSE {})
                  \cup (IF expired \cap d.pressed # {} THEN {"matrix"} ELSE {})
<1>1. /\ Update(d, new, e).cooked = c
      /\ Update(d, new, e).time = t
      /\ Update(d, new, e).need = n
  BY DEF Update
<1>2. expired \cap d.pressed = {}
  BY <1>1
<1>3. new \subseteq d.cooked => new \subseteq c
  OBVIOUS
<1>4. ASSUME Waiting(d, new), NEW k \in c \ new PROVE t[k] # 0
  <2>1. k \in d.cooked /\ k \notin deferred /\ k \in Keys /\ d.time[k] # 0
    BY <1>4 DEF Counting, Waiting
  <2>2. k \notin expired
    BY <2>1, <1>2
  <2>3. d.time[k] \in Nat /\ d.time[k] > e
    BY <2>1, <2>2, DebounceAssumption DEF Counting
  <2> QED BY <2>1, <2>3
<1> HIDE DEF c, t, n
<1> QED
  BY <1>1, <1>3, <1>4 DEF Waiting

LEMMA ScanPreserves ==
    ASSUME DebounceInv, NEW new \in SUBSET Keys, NEW e \in Gaps, Scan(new, e)
    PROVE  DebounceInv'
<1> DEFINE counting == "counters" \in need
           elapsed == IF lag + e > UINT8_MAX THEN UINT8_MAX ELSE lag + e
           u == IF counting /\ elapsed > 0 THEN Update(Current, new, elapsed) ELSE Current
           transfers == new # raw \/ "matrix" \in u.need
           d == IF transfers THEN Transfer(u, new) ELSE u
<1>1. /\ raw' = new
      /\ cooked' = d.cooked
      /\ pressed' = d.pressed
      /\ time' = d.time
      /\ need' = d.need
      /\ cooked_changed' = Changed(cooked, u.cooked, d.cooked)
      /\ lag' = NewLag(counting, transfers, e)
      /\ press_ms' = press_ms /\ release_ms' = release_ms
  BY DEF Scan, config
<1>2. elapsed \in Nat /\ e \in Nat /\ lag \in 0 .. CLOCK_CAP
  BY DebounceAssumption DEF DebounceInv, TypeOK
<1>3. Counting(Current) /\ Settled(Current, raw) /\ (ReleaseRuns => Waiting(Current, raw))
  BY DEF DebounceInv, Settled
<1>4. press_ms \in PressMs /\ release_ms \in ReleaseMs
  BY DEF DebounceInv, TypeOK
<1>5. Counting(u)
  <2>1. CASE counting /\ elapsed > 0
    <3> HIDE DEF elapsed
    <3> QED BY <2>1, <1>2, <1>3, UpdateCounts
  <2>2. CASE ~(counting /\ elapsed > 0)
    BY <2>2, <1>3
  <2> QED BY <2>1, <2>2
<1>6. Settled(d, new) /\ (ReleaseRuns => Waiting(d, new))
  <2>1. CASE transfers
    <3> HIDE DEF u
    <3>1. d = Transfer(u, new)
      BY <2>1
    <3> QED BY <3>1, <1>4, <1>5, TransferSettles
  <2>2. CASE ~transfers
    <3>1. d = u /\ new = raw /\ "matrix" \notin u.need
      BY <2>2
    <3>2. CASE counting /\ elapsed > 0
      <4> HIDE DEF elapsed
      <4>1. u = Update(Current, new, elapsed)
        BY <3>2
      <4> QED BY <3>1, <4>1, <1>2, <1>3, <1>5, UpdateWaits DEF Settled
    <3>3. CASE ~(counting /\ elapsed > 0)
      BY <3>1, <3>3, <1>3
    <3> QED BY <3>2, <3>3
  <2> QED BY <2>1, <2>2
<1>7. FreshTimeBase'
  <2>1. CASE counting \/ transfers
    BY <2>1, <1>1 DEF NewLag, FreshTimeBase
  <2>2. CASE ~counting /\ ~transfers
    <3>1. d = Current
      BY <2>2
    <3> QED BY <3>1, <2>2, <1>1, CurrentFields DEF FreshTimeBase
  <2> QED BY <2>1, <2>2
<1>8. lag' \in 0 .. CLOCK_CAP
  BY <1>1, <1>2, DebounceAssumption DEF NewLag, Later
<1>9. cooked_changed' \in BOOLEAN
  BY <1>1 DEF Changed
<1> HIDE DEF d, u, transfers
<1>10. TypeOK'
  BY <1>1, <1>4, <1>6, <1>8, <1>9 DEF TypeOK, Settled, Counting
<1>11. Current' = [cooked |-> d.cooked, pressed |-> d.pressed, time |-> d.time, need |-> d.need]
  BY <1>1 DEF Current
<1>12. /\ Current'.cooked = d.cooked
       /\ Current'.pressed = d.pressed
       /\ Current'.time = d.time
       /\ Current'.need = d.need
  BY <1>11
<1>13. \A x : x = Current' => Settled(x, new) /\ (ReleaseRuns => Waiting(x, new))
  BY <1>6, <1>12 DEF Settled, Counting, Waiting
<1>14. (Settled(Current, raw))' /\ (ReleaseRuns => (Waiting(Current, raw))')
  BY <1>13, <1>1 DEF Settled, Counting, Waiting
<1> QED
  BY <1>7, <1>10, <1>14 DEF DebounceInv

LEMMA SetDebouncePreserves ==
    ASSUME DebounceInv, NEW press \in PressMs, NEW release \in ReleaseMs,
           SetDebounce(press, release)
    PROVE  DebounceInv'
<1>1. /\ press_ms' = press /\ release_ms' = release
      /\ UNCHANGED <<raw, cooked, pressed, time, need, cooked_changed, lag>>
  BY DEF SetDebounce
<1>2. Current' = Current
  BY <1>1 DEF Current
<1>3. TypeOK' /\ FreshTimeBase'
  BY <1>1 DEF DebounceInv, TypeOK, FreshTimeBase
<1>4. (Settled(Current, raw))' /\ (ReleaseRuns => (Waiting(Current, raw))')
  BY <1>1, <1>2 DEF DebounceInv, Settled, Counting, Waiting
<1> QED
  BY <1>3, <1>4 DEF DebounceInv

LEMMA InitEstablishes == Init => DebounceInv
<1> SUFFICES ASSUME Init PROVE DebounceInv
  OBVIOUS
<1>a. time \in [Keys -> 0 .. TIME_MOD - 1] /\ lag \in 0 .. CLOCK_CAP /\ FreshTimeBase
  BY DebounceAssumption DEF Init, FreshTimeBase
<1>b. need \in SUBSET Flags /\ cooked_changed \in BOOLEAN
  BY Zenon DEF Init
<1>1. TypeOK /\ FreshTimeBase
  BY <1>a, <1>b DEF Init, TypeOK
<1>2. Counting(Current)
  BY CurrentFields, DebounceAssumption DEF Init, Counting, Flags
<1>3. Settled(Current, raw) /\ Waiting(Current, raw)
  BY <1>2, CurrentFields DEF Init, Settled, Waiting
<1> QED
  BY <1>1, <1>3 DEF DebounceInv

\* Every reachable state of the debouncer (debounce.c:51-148) satisfies the
\* inductive invariant.
THEOREM DebounceInvariant == Spec => []DebounceInv
<1>1. ASSUME DebounceInv, [Next]_vars PROVE DebounceInv'
  <2>1. CASE Next
    BY <1>1, <2>1, ScanPreserves, SetDebouncePreserves DEF Next
  <2>2. CASE UNCHANGED vars
    BY <1>1, <2>2 DEF vars, DebounceInv, TypeOK, FreshTimeBase, Settled, Counting,
       Waiting, Current
  <2> QED BY <1>1, <2>1, <2>2
<1> QED
  BY InitEstablishes, <1>1, PTL DEF Spec

\* The counters stay within their 7 bits and the matrices within the keys,
\* whatever the settings, the contacts and the scan rate (debounce.c:51-148).
THEOREM TypeCorrect == Spec => []TypeOK
<1>1. DebounceInv => TypeOK
  BY DEF DebounceInv
<1> QED
  BY DebounceInvariant, <1>1, PTL

\* No scan leaves a closed key unreported (debounce.c:118-148).
THEOREM PressAlwaysEager == Spec => []PressIsEager
<1>1. DebounceInv => PressIsEager
  BY CurrentFields DEF DebounceInv, Settled, PressIsEager
<1> QED
  BY DebounceInvariant, <1>1, PTL

\* A running counter is never charged with time from before it was set
\* (debounce.c:55-77).
THEOREM TimeBaseAlwaysFresh == Spec => []FreshTimeBase
<1>1. DebounceInv => FreshTimeBase
  BY DEF DebounceInv
<1> QED
  BY DebounceInvariant, <1>1, PTL

\* No key is left waiting for a change of the matrix (debounce.c:81-148), as long
\* as every release time is one that the 7-bit counter can hold and is not zero.
\* MCDebounceZero.cfg shows that the hypothesis is needed.
THEOREM NeverStuck ==
    ASSUME ReleaseRuns
    PROVE  Spec => []NoStuckKey
<1>1. ASSUME DebounceInv PROVE NoStuckKey
  <2> SUFFICES ASSUME NEW k \in Keys, (k \in raw) # (k \in cooked)
               PROVE  time[k] # 0 /\ "counters" \in need
    BY DEF NoStuckKey
  <2>1. raw \subseteq cooked /\ Waiting(Current, raw) /\ Counting(Current)
    BY <1>1, ReleaseRuns, CurrentFields DEF DebounceInv, Settled
  <2>2. k \in cooked \ raw
    BY <2>1
  <2> QED BY <2>1, <2>2, CurrentFields DEF Waiting, Counting
<1> QED
  BY DebounceInvariant, <1>1, PTL

-----------------------------------------------------------------------------
(* What the counters have to do with the history of a key *)

\* The settings fit the counter, the cap of elapsed_time is no less than any
\* counter, and the clocks of the model run long enough to tell.
TimesFit ==
    /\ \A p \in PressMs, r \in ReleaseMs : p < TIME_MOD /\ r < TIME_MOD /\ p + r <= CLOCK_CAP
    /\ TIME_MOD <= UINT8_MAX + 1

\* A press hold that runs: with it, the press will have been reported for the
\* press time; a contact that is open since waits for it no longer than that.
Holding(t, s, a, open) ==
    /\ \E p \in PressMs : a + t >= p
    /\ \E p \in PressMs : t <= p /\ (open => s + t <= p)

\* A release that is being waited for.
Releasing(t, s, a) ==
    /\ \E r \in ReleaseMs : s + t >= r
    /\ \E p \in PressMs, r \in ReleaseMs : a + t >= p + r
    /\ ReleaseRuns => \E p \in PressMs, r \in ReleaseMs, g \in Gaps : s + t <= p + r + g

Clocked(k) ==
    /\ time[k] # 0 /\ k \in pressed => Holding(time[k], stable[k], age[k], k \notin raw)
    /\ time[k] # 0 /\ k \notin pressed => k \notin raw /\ Releasing(time[k], stable[k], age[k])
    /\ k \in cooked /\ (time[k] = 0 \/ k \notin pressed) => \E p \in PressMs : age[k] >= p

HistoryInv ==
    /\ DebounceInv
    /\ stable \in [Keys -> 0 .. CLOCK_CAP]
    /\ age \in [Keys -> 0 .. CLOCK_CAP]
    /\ \A k \in Keys : Clocked(k)

\* The time a scan charges a running counter with, the first loop and the second
\* loop of debounce, as one key sees them (debounce.c:81-148).
Elapsed(e) == IF lag + e > UINT8_MAX THEN UINT8_MAX ELSE lag + e
Counted(k, e) == IF time[k] > Elapsed(e) THEN time[k] - Elapsed(e) ELSE 0
Dropped(k, new, e) == time[k] # 0 /\ time[k] <= Elapsed(e) /\ k \notin pressed /\ k \notin new
Kept(k, new, e) == k \in cooked /\ ~Dropped(k, new, e)

LEMMA UpdateOfKey ==
    ASSUME DebounceInv, NEW new \in SUBSET Keys, NEW e \in Gaps, NEW u,
           u = IF "counters" \in need /\ Elapsed(e) > 0 THEN Update(Current, new, Elapsed(e)) ELSE Current,
           NEW k \in Keys
    PROVE  /\ u.time[k] = Counted(k, e)
           /\ u.pressed = pressed
           /\ k \in u.cooked <=> Kept(k, new, e)
<1> DEFINE x == Elapsed(e)
<1>1. /\ time \in [Keys -> 0 .. TIME_MOD - 1] /\ cooked \in SUBSET Keys
      /\ time[k] # 0 => k \in cooked /\ "counters" \in need
  BY CurrentFields DEF DebounceInv, Settled, Counting
<1>2. x \in Nat /\ time[k] \in Nat
  <2>1. lag \in Nat /\ e \in Nat
    BY DebounceAssumption DEF DebounceInv, TypeOK
  <2> QED
    BY <1>1, <2>1, DebounceAssumption DEF Elapsed
<1>3. CASE "counters" \in need /\ x > 0
  <2> DEFINE expired == {i \in Keys : time[i] # 0 /\ time[i] <= x}
             running == {i \in Keys : time[i] > x}
             deferred == expired \ pressed
  <2> HIDE DEF x
  <2>1. u = Update(Current, new, x)
    BY <1>3 DEF x
  <2>2. /\ u.cooked = (cooked \ deferred) \cup (new \cap deferred)
        /\ u.pressed = pressed
        /\ u.time = [i \in Keys |-> IF i \in running THEN time[i] - x ELSE 0]
    BY <2>1, CurrentFields DEF Update
  <2>3. u.time[k] = Counted(k, e)
    BY <2>2 DEF Counted, x
  <2>4. k \in deferred <=> time[k] # 0 /\ time[k] <= x /\ k \notin pressed
    OBVIOUS
  <2>5. k \in u.cooked <=> Kept(k, new, e)
    BY <2>2, <2>4, <1>1 DEF Kept, Dropped, x
  <2> QED
    BY <2>2, <2>3, <2>5
<1>4. CASE "counters" \notin need
  <2>1. u = Current /\ time[k] = 0
    BY <1>1, <1>4
  <2> QED
    BY <1>2, <2>1, CurrentFields DEF Counted, Kept, Dropped
<1>5. CASE x = 0
  <2>1. u = Current
    BY <1>5
  <2>2. Counted(k, e) = time[k] /\ ~Dropped(k, new, e)
    BY <1>2, <1>5 DEF Counted, Dropped
  <2> QED
    BY <2>1, <2>2, CurrentFields DEF Kept
<1> QED
  BY <1>2, <1>3, <1>4, <1>5

LEMMA ScanOfKey ==
    ASSUME DebounceInv, NEW new \in SUBSET Keys, NEW e \in Gaps, Scan(new, e), NEW k \in Keys
    PROVE  \E arms, transfers \in BOOLEAN :
             /\ arms => (k \in new <=> ~Kept(k, new, e)) /\ Counted(k, e) = 0
             /\ (k \in new <=> k \notin raw) => transfers
             /\ transfers /\ (k \in new <=> ~Kept(k, new, e)) /\ Counted(k, e) = 0 => arms
             /\ time'[k] = IF arms THEN (IF k \in new THEN press_ms ELSE release_ms) % TIME_MOD
                           ELSE IF transfers /\ (k \in new <=> Kept(k, new, e)) /\ k \notin pressed
                           THEN 0 ELSE Counted(k, e)
             /\ k \in cooked' <=> Kept(k, new, e) \/ (arms /\ k \in new)
             /\ k \in pressed' <=> IF arms THEN k \in new ELSE k \in pressed
<1> DEFINE u == IF "counters" \in need /\ Elapsed(e) > 0
                THEN Update(Current, new, Elapsed(e)) ELSE Current
           transfers == new # raw \/ "matrix" \in u.need
           d == IF transfers THEN Transfer(u, new) ELSE u
<1>1. cooked' = d.cooked /\ pressed' = d.pressed /\ time' = d.time
  BY DEF Scan, Elapsed
<1>2. u.time[k] = Counted(k, e) /\ u.pressed = pressed /\ (k \in u.cooked <=> Kept(k, new, e))
  BY UpdateOfKey
<1> HIDE DEF u
<1>3. CASE transfers
  <2> DEFINE arms == k \in Arm(u, new)
  <2>1. arms <=> (k \in new <=> ~Kept(k, new, e)) /\ Counted(k, e) = 0
    BY <1>2 DEF Arm
  <2>2. k \in Cancel(u, new) <=> (k \in new <=> Kept(k, new, e)) /\ k \notin pressed
    BY <1>2 DEF Cancel
  <2>3. /\ cooked' = u.cooked \cup (Arm(u, new) \cap new)
        /\ pressed' = (u.pressed \ Arm(u, new)) \cup (Arm(u, new) \cap new)
        /\ time'[k] = IF k \in Arm(u, new)
                      THEN (IF k \in new THEN press_ms ELSE release_ms) % TIME_MOD
                      ELSE IF k \in Cancel(u, new) THEN 0 ELSE u.time[k]
    BY <1>1, <1>3 DEF Transfer
  <2>4. time'[k] = IF arms THEN (IF k \in new THEN press_ms ELSE release_ms) % TIME_MOD
                   ELSE IF (k \in new <=> Kept(k, new, e)) /\ k \notin pressed
                   THEN 0 ELSE Counted(k, e)
    BY <1>2, <2>2, <2>3
  <2>5. /\ k \in cooked' <=> Kept(k, new, e) \/ (arms /\ k \in new)
        /\ k \in pressed' <=> IF arms THEN k \in new ELSE k \in pressed
    BY <1>2, <2>3
  <2> HIDE DEF arms
  <2> QED
    BY <2>1, <2>4, <2>5, <1>3
<1>4. CASE ~transfers
  <2>1. /\ time'[k] = Counted(k, e) /\ pressed' = pressed /\ (k \in cooked' <=> Kept(k, new, e))
        /\ new = raw
    BY <1>1, <1>2, <1>4
  <2> QED
    BY <2>1
<1> QED
  BY <1>3, <1>4

\* Each of the clocks of a key, and what the cap of the model leaves of it.
LEMMA LaterFacts ==
    ASSUME NEW c \in 0 .. CLOCK_CAP, NEW e \in Nat
    PROVE  /\ Later(c, e) \in 0 .. CLOCK_CAP
           /\ Later(c, e) <= c + e
           /\ Later(c, e) = c + e \/ Later(c, e) = CLOCK_CAP
  BY DebounceAssumption DEF Later

\* What a scan does to one key, and that a release is due when it is reported.
LEMMA ScanOfClocks ==
    ASSUME TimesFit, HistoryInv, NEW new \in SUBSET Keys, NEW e \in Gaps, Scan(new, e), NEW k \in Keys
    PROVE  /\ Clocked(k)'
           /\ k \in cooked \ cooked' => /\ k \notin new
                                        /\ \E r \in ReleaseMs : stable'[k] >= r
                                        /\ \E p \in PressMs, r \in ReleaseMs : age[k] + e >= p + r
<1> DEFINE t == time[k]
           s == stable[k]
           a == age[k]
           x == Elapsed(e)
           was == k \in raw
           is == k \in new
<1>1. /\ t \in Nat /\ t <= TIME_MOD - 1 /\ s \in 0 .. CLOCK_CAP /\ a \in 0 .. CLOCK_CAP
      /\ e \in Nat /\ lag \in Nat /\ press_ms \in PressMs /\ release_ms \in ReleaseMs
      /\ (t # 0 => k \in cooked /\ lag = 0) /\ Clocked(k)
  <2>1. DebounceInv /\ Clocked(k) /\ s \in 0 .. CLOCK_CAP /\ a \in 0 .. CLOCK_CAP
    BY DEF HistoryInv
  <2>2. /\ time \in [Keys -> 0 .. TIME_MOD - 1] /\ lag \in 0 .. CLOCK_CAP
        /\ press_ms \in PressMs /\ release_ms \in ReleaseMs
    BY <2>1 DEF DebounceInv, TypeOK
  <2>3. t # 0 => k \in cooked /\ lag = 0
    BY <2>1, CurrentFields DEF DebounceInv, Settled, Counting, FreshTimeBase
  <2> QED
    BY <2>1, <2>2, <2>3, DebounceAssumption
<1>2. PICK arms, transfers \in BOOLEAN :
             /\ arms => (is <=> ~Kept(k, new, e)) /\ Counted(k, e) = 0
             /\ (is <=> ~was) => transfers
             /\ transfers /\ (is <=> ~Kept(k, new, e)) /\ Counted(k, e) = 0 => arms
             /\ time'[k] = IF arms THEN (IF is THEN press_ms ELSE release_ms) % TIME_MOD
                           ELSE IF transfers /\ (is <=> Kept(k, new, e)) /\ k \notin pressed
                           THEN 0 ELSE Counted(k, e)
             /\ k \in cooked' <=> Kept(k, new, e) \/ (arms /\ is)
             /\ k \in pressed' <=> IF arms THEN is ELSE k \in pressed
  BY ScanOfKey DEF HistoryInv
<1>3. /\ stable'[k] = IF was <=> is THEN Later(s, e) ELSE 0
      /\ age'[k] = IF k \in cooked <=> k \in cooked' THEN Later(a, e) ELSE 0
      /\ raw' = new
  BY DEF Scan
<1>4. /\ press_ms % TIME_MOD = press_ms /\ release_ms % TIME_MOD = release_ms
      /\ \A p \in PressMs, r \in ReleaseMs : p \in Nat /\ r \in Nat /\ p + r <= CLOCK_CAP
  <2>1. /\ press_ms \in Nat /\ press_ms < TIME_MOD /\ release_ms \in Nat /\ release_ms < TIME_MOD
    BY <1>1, DebounceAssumption DEF TimesFit
  <2>2. press_ms % TIME_MOD = press_ms /\ release_ms % TIME_MOD = release_ms
    BY <2>1, DebounceAssumption
  <2> QED
    BY <2>2, DebounceAssumption DEF TimesFit
<1>5. x \in Nat /\ (t # 0 => x <= e /\ (t > x => x = e))
  BY <1>1, DebounceAssumption DEF Elapsed, TimesFit
<1>6. Counted(k, e) = (IF t > x THEN t - x ELSE 0)
  BY DEF Counted
<1>7. Kept(k, new, e) <=> k \in cooked /\ ~(t # 0 /\ t <= x /\ k \notin pressed /\ ~is)
  BY DEF Kept, Dropped
<1>8. /\ Later(s, e) \in 0 .. CLOCK_CAP /\ Later(s, e) <= s + e
      /\ Later(s, e) = s + e \/ Later(s, e) = CLOCK_CAP
      /\ Later(a, e) \in 0 .. CLOCK_CAP /\ Later(a, e) <= a + e
      /\ Later(a, e) = a + e \/ Later(a, e) = CLOCK_CAP
  BY <1>1, LaterFacts
<1>9. /\ t # 0 /\ k \in pressed => Holding(t, s, a, ~was)
      /\ t # 0 /\ k \notin pressed => ~was /\ Releasing(t, s, a)
      /\ k \in cooked /\ (t = 0 \/ k \notin pressed) => \E p \in PressMs : a >= p
  BY <1>1 DEF Clocked
<1>10. CASE t # 0 /\ k \in pressed
  <2>1. PICK p \in PressMs : a + t >= p
    BY <1>9, <1>10 DEF Holding
  <2>2. PICK q \in PressMs : t <= q /\ (~was => s + t <= q)
    BY <1>9, <1>10 DEF Holding
  <2>3. Kept(k, new, e) /\ k \in cooked /\ k \in cooked'
    BY <1>1, <1>2, <1>7, <1>10
  <2>4. CASE t > x
    <3>1. x = e /\ ~arms /\ time'[k] = t - e /\ k \in pressed' /\ time'[k] # 0
      BY <1>1, <1>2, <1>5, <1>6, <1>10, <2>4
    <3>2. age'[k] = Later(a, e)
      BY <1>3, <2>3
    <3>3. age'[k] + time'[k] >= p
      BY <1>1, <1>4, <1>5, <1>8, <2>1, <2>4, <3>1, <3>2
    <3>4. time'[k] <= q /\ (~is => stable'[k] + time'[k] <= q)
      BY <1>1, <1>3, <1>4, <1>8, <2>2, <2>4, <1>5, <3>1
    <3>5. Holding(time'[k], stable'[k], age'[k], ~is)
      BY <3>3, <3>4 DEF Holding
    <3> QED
      BY <1>3, <2>3, <3>1, <3>5 DEF Clocked
  <2>5. CASE t <= x
    <3>1. age'[k] = Later(a, e) /\ age'[k] >= p
      BY <1>1, <1>3, <1>4, <1>5, <1>8, <1>10, <2>1, <2>3, <2>5
    <3>2. CASE ~arms
      <4>1. time'[k] = 0
        BY <1>1, <1>2, <1>5, <1>6, <2>5, <3>2
      <4> QED
        BY <2>3, <3>1, <4>1 DEF Clocked
    <3>3. CASE arms
      <4>1. ~is /\ time'[k] = release_ms /\ k \notin pressed'
        BY <1>2, <1>4, <2>3, <3>3
      <4>2. stable'[k] + time'[k] >= release_ms
        BY <1>3, <1>4, <1>1, <1>8, <4>1
      <4>3. age'[k] + time'[k] >= p + release_ms
        BY <1>1, <1>4, <1>8, <3>1, <4>1
      <4>4. stable'[k] + time'[k] <= q + release_ms + e
        BY <1>1, <1>3, <1>4, <1>8, <2>2, <4>1
      <4>5. Releasing(time'[k], stable'[k], age'[k])
        BY <1>1, <4>2, <4>3, <4>4 DEF Releasing
      <4> QED
        BY <1>3, <2>3, <3>1, <4>1, <4>5 DEF Clocked
    <3> QED
      BY <3>2, <3>3
  <2> QED
    BY <1>1, <1>5, <2>4, <2>5
<1>11. CASE t # 0 /\ k \notin pressed
  <2>1. PICK r \in ReleaseMs : s + t >= r
    BY <1>9, <1>11 DEF Releasing
  <2>2. PICK p \in PressMs, q \in ReleaseMs : a + t >= p + q
    BY <1>9, <1>11 DEF Releasing
  <2>3. PICK o \in PressMs : a >= o
    BY <1>1, <1>9, <1>11
  <2>4. ~was /\ k \in cooked
    BY <1>1, <1>9, <1>11
  <2>5. CASE is
    <3>1. Kept(k, new, e) /\ ~arms /\ transfers /\ time'[k] = 0 /\ k \in cooked'
      BY <1>2, <1>7, <1>11, <2>4, <2>5
    <3>2. age'[k] >= o
      BY <1>1, <1>3, <1>4, <1>8, <2>3, <2>4, <3>1
    <3> QED
      BY <3>1, <3>2 DEF Clocked
  <2>6. CASE ~is /\ t > x
    <3>1. Kept(k, new, e) /\ k \in cooked'
      BY <1>1, <1>2, <1>5, <1>7, <2>4, <2>6
    <3>2. x = e /\ ~arms /\ time'[k] = t - e /\ k \notin pressed'
      BY <1>1, <1>2, <1>5, <1>6, <1>11, <2>6, <3>1
    <3>3. stable'[k] = Later(s, e) /\ age'[k] = Later(a, e)
      BY <1>3, <2>4, <2>6, <3>1
    <3>4. stable'[k] + time'[k] >= r
      BY <1>1, <1>4, <1>5, <1>8, <2>1, <2>6, <3>2, <3>3
    <3>5. age'[k] + time'[k] >= p + q
      BY <1>1, <1>4, <1>5, <1>8, <2>2, <2>6, <3>2, <3>3
    <3>6. ASSUME ReleaseRuns
          PROVE  \E y \in PressMs, z \in ReleaseMs, g \in Gaps : stable'[k] + time'[k] <= y + z + g
      <4>1. PICK y \in PressMs, z \in ReleaseMs, g \in Gaps : s + t <= y + z + g
        BY <1>9, <1>11, <3>6 DEF Releasing
      <4>2. y \in Nat /\ z \in Nat /\ g \in Nat
        BY DebounceAssumption
      <4>3. stable'[k] + time'[k] <= y + z + g
        BY <1>1, <1>5, <1>8, <2>6, <3>2, <3>3, <4>1, <4>2
      <4> QED
        BY <4>3
    <3>7. Releasing(time'[k], stable'[k], age'[k])
      BY <3>4, <3>5, <3>6 DEF Releasing
    <3>8. age'[k] >= o
      BY <1>1, <1>4, <1>8, <2>3, <3>3
    <3> QED
      BY <1>3, <2>6, <3>1, <3>2, <3>7, <3>8 DEF Clocked
  <2>7. CASE ~is /\ t <= x
    <3>1. ~Kept(k, new, e) /\ ~arms /\ time'[k] = 0 /\ k \notin cooked'
      BY <1>1, <1>2, <1>5, <1>6, <1>7, <1>11, <2>7
    <3>2. stable'[k] >= r
      BY <1>1, <1>3, <1>4, <1>5, <1>8, <1>11, <2>1, <2>4, <2>7
    <3>3. a + e >= p + q
      BY <1>1, <1>4, <1>5, <1>11, <2>2, <2>7
    <3> QED
      BY <2>7, <3>1, <3>2, <3>3 DEF Clocked
  <2> QED
    BY <1>1, <1>5, <2>5, <2>6, <2>7
<1>12. CASE t = 0
  <2>1. Counted(k, e) = 0 /\ (Kept(k, new, e) <=> k \in cooked)
    BY <1>1, <1>5, <1>6, <1>7, <1>12
  <2>2. CASE arms /\ is
    <3>1. time'[k] = press_ms /\ k \in pressed' /\ k \in cooked' /\ k \notin cooked /\ age'[k] = 0
      BY <1>2, <1>3, <1>4, <2>1, <2>2
    <3>2. Holding(time'[k], stable'[k], age'[k], ~is)
      BY <1>1, <1>4, <2>2, <3>1 DEF Holding
    <3>3. time'[k] = 0 => age'[k] >= press_ms
      BY <1>1, <1>4, <3>1
    <3> QED
      BY <1>1, <1>3, <3>1, <3>2, <3>3 DEF Clocked
  <2>3. CASE arms /\ ~is
    <3>1. time'[k] = release_ms /\ k \notin pressed' /\ k \in cooked /\ k \in cooked'
      BY <1>2, <1>4, <2>1, <2>3
    <3>2. age'[k] = Later(a, e)
      BY <1>3, <3>1
    <3>3. PICK p \in PressMs : a >= p
      BY <1>9, <1>12, <3>1
    <3>4. age'[k] >= p
      BY <1>1, <1>4, <1>8, <3>2, <3>3
    <3>5. stable'[k] + time'[k] >= release_ms
      BY <1>1, <1>3, <1>4, <1>8, <3>1
    <3>6. age'[k] + time'[k] >= p + release_ms
      BY <1>1, <1>4, <1>8, <3>1, <3>2, <3>4
    <3>7. ASSUME ReleaseRuns
          PROVE  stable'[k] + time'[k] <= p + release_ms + e
      <4>1. was
        BY <1>12, <3>1, <3>7, CurrentFields DEF HistoryInv, DebounceInv, Waiting
      <4>2. stable'[k] = 0
        BY <1>3, <2>3, <4>1
      <4> QED
        BY <1>1, <1>4, <3>1, <4>2
    <3>8. Releasing(time'[k], stable'[k], age'[k])
      BY <1>1, <3>5, <3>6, <3>7 DEF Releasing
    <3> QED
      BY <1>3, <2>3, <3>1, <3>4, <3>8 DEF Clocked
  <2>4. CASE ~arms
    <3>1. time'[k] = 0 /\ (k \in cooked' <=> k \in cooked)
      BY <1>2, <2>1, <2>4
    <3>2. k \in cooked => \E p \in PressMs : age'[k] >= p
      <4>1. SUFFICES ASSUME NEW p \in PressMs, a >= p PROVE age'[k] >= p
        BY <1>9, <1>12
      <4> QED
        BY <1>1, <1>3, <1>4, <1>8, <3>1, <4>1
    <3> QED
      BY <3>1, <3>2 DEF Clocked
  <2> QED
    BY <2>2, <2>3, <2>4
<1> QED
  BY <1>10, <1>11, <1>12

LEMMA NextPreservesHistory ==
    ASSUME TimesFit, HistoryInv, [Next]_vars
    PROVE  HistoryInv'
<1>1. ASSUME NEW new \in SUBSET Keys, NEW e \in Gaps, Scan(new, e)
      PROVE  HistoryInv'
  <2>1. DebounceInv'
    BY <1>1, ScanPreserves DEF HistoryInv
  <2>2. \A k \in Keys : Clocked(k)'
    BY <1>1, ScanOfClocks
  <2>3. stable' \in [Keys -> 0 .. CLOCK_CAP] /\ age' \in [Keys -> 0 .. CLOCK_CAP]
    <3>1. e \in Nat /\ \A k \in Keys : stable[k] \in 0 .. CLOCK_CAP /\ age[k] \in 0 .. CLOCK_CAP
      BY DebounceAssumption DEF HistoryInv
    <3>2. \A k \in Keys : Later(stable[k], e) \in 0 .. CLOCK_CAP /\ Later(age[k], e) \in 0 .. CLOCK_CAP
      BY <3>1, LaterFacts
    <3>3. 0 \in 0 .. CLOCK_CAP
      BY DebounceAssumption
    <3>4. /\ stable' = [k \in Keys |-> IF k \in raw <=> k \in new THEN Later(stable[k], e) ELSE 0]
          /\ age' = [k \in Keys |-> IF k \in cooked <=> k \in cooked' THEN Later(age[k], e) ELSE 0]
      BY <1>1 DEF Scan
    <3> QED
      BY <3>2, <3>3, <3>4
  <2> QED
    BY <2>1, <2>2, <2>3 DEF HistoryInv
<1>2. ASSUME UNCHANGED <<raw, cooked, pressed, time, stable, age>>, DebounceInv'
      PROVE  HistoryInv'
  BY <1>2 DEF HistoryInv, Clocked
<1>3. ASSUME NEW press \in PressMs, NEW release \in ReleaseMs, SetDebounce(press, release)
      PROVE  HistoryInv'
  <2>1. DebounceInv'
    BY <1>3, SetDebouncePreserves DEF HistoryInv
  <2> QED
    BY <1>2, <1>3, <2>1 DEF SetDebounce
<1>4. CASE UNCHANGED vars
  <2>1. DebounceInv'
    BY <1>4 DEF vars, HistoryInv, DebounceInv, TypeOK, FreshTimeBase, Settled, Counting, Waiting, Current
  <2> QED
    BY <1>2, <1>4, <2>1 DEF vars
<1> QED
  BY <1>1, <1>3, <1>4 DEF Next

LEMMA InitEstablishesHistory == Init => HistoryInv
<1> SUFFICES ASSUME Init PROVE HistoryInv
  OBVIOUS
<1>1. \A k \in Keys : time[k] = 0 /\ k \notin cooked
  BY DEF Init
<1>2. stable \in [Keys -> 0 .. CLOCK_CAP] /\ age \in [Keys -> 0 .. CLOCK_CAP]
  BY DebounceAssumption DEF Init
<1> QED
  BY <1>1, <1>2, InitEstablishes DEF HistoryInv, Clocked

\* The counters account for the time a contact was open and a key reported
\* (debounce.c:51-148), for settings that the 7-bit counter holds.
THEOREM HistoryInvariant ==
    ASSUME TimesFit
    PROVE  Spec => []HistoryInv
<1>1. HistoryInv /\ [Next]_vars => HistoryInv'
  BY NextPreservesHistory, TimesFit
<1> QED
  BY <1>1, InitEstablishesHistory, PTL DEF Spec

\* A contact that stays open waits for less than a press time, a release time
\* and the scan between the two (debounce.c:84-116), for settings that the 7-bit
\* counter holds, and release times other than zero.
THEOREM AlwaysReportedInTime ==
    ASSUME TimesFit, ReleaseRuns
    PROVE  Spec => []ReportedInTime
<1>1. ASSUME HistoryInv, NEW k \in Keys, (k \in raw) # (k \in cooked)
      PROVE  \E p \in PressMs, r \in ReleaseMs, g \in Gaps : stable[k] < p + r + g
  <2>1. raw \subseteq cooked /\ Waiting(Current, raw)
    BY <1>1, ReleaseRuns, CurrentFields DEF HistoryInv, DebounceInv, Settled
  <2>2. k \in cooked /\ k \notin raw /\ time[k] # 0
    BY <1>1, <2>1, CurrentFields DEF Waiting
  <2>3. time[k] \in Nat /\ stable[k] \in Nat /\ Clocked(k)
    BY <1>1, DebounceAssumption DEF HistoryInv, DebounceInv, TypeOK
  <2>4. CASE k \in pressed
    <3>1. PICK p \in PressMs : stable[k] + time[k] <= p
      BY <2>2, <2>3, <2>4 DEF Clocked, Holding
    <3>2. release_ms \in ReleaseMs /\ release_ms \in Nat /\ p \in Nat
      BY <1>1, DebounceAssumption DEF HistoryInv, DebounceInv, TypeOK
    <3>3. PICK g \in Gaps : g \in Nat
      BY DebounceAssumption
    <3>4. stable[k] < p + release_ms + g
      BY <2>2, <2>3, <3>1, <3>2, <3>3
    <3> QED
      BY <3>2, <3>4
  <2>5. CASE k \notin pressed
    <3>1. PICK p \in PressMs, r \in ReleaseMs, g \in Gaps : stable[k] + time[k] <= p + r + g
      BY <2>2, <2>3, <2>5, ReleaseRuns DEF Clocked, Releasing
    <3>2. p \in Nat /\ r \in Nat /\ g \in Nat
      BY DebounceAssumption
    <3>3. stable[k] < p + r + g
      BY <2>2, <2>3, <3>1, <3>2
    <3> QED
      BY <3>3
  <2> QED
    BY <2>4, <2>5
<1>2. HistoryInv => ReportedInTime
  BY <1>1 DEF ReportedInTime
<1> QED
  BY <1>2, HistoryInvariant, TimesFit, PTL

\* A key is only reported released after its contact was seen open, and nothing
\* else, for a release time (debounce.c:84-148).
THEOREM ReleaseAlwaysDeferred ==
    ASSUME TimesFit
    PROVE  Spec => ReleaseIsDeferred
<1>1. ASSUME HistoryInv, [Next]_vars, NEW k \in cooked \ cooked'
      PROVE  k \notin raw' /\ \E r \in ReleaseMs : stable'[k] >= r
  <2>1. cooked' # cooked
    BY <1>1
  <2>2. PICK new \in SUBSET Keys, e \in Gaps : Scan(new, e)
    BY <1>1, <2>1 DEF Next, vars, SetDebounce
  <2>3. raw' = new /\ k \in Keys
    BY <1>1, <2>2 DEF Scan, HistoryInv, DebounceInv, TypeOK
  <2> QED
    BY <1>1, <2>2, <2>3, ScanOfClocks, TimesFit
<1>2. HistoryInv /\ [Next]_vars
        => [\A k \in cooked \ cooked' : k \notin raw' /\ \E r \in ReleaseMs : stable'[k] >= r]_vars
  BY <1>1
<1> QED
  BY <1>2, HistoryInvariant, TimesFit, PTL DEF Spec, ReleaseIsDeferred

\* A press is reported for at least a press time followed by a release time
\* (debounce.c:84-148).
THEOREM PressAlwaysHeld ==
    ASSUME TimesFit
    PROVE  Spec => PressIsHeld
<1>1. ASSUME HistoryInv, [Next]_vars, NEW k \in cooked \ cooked'
      PROVE  \E p \in PressMs, r \in ReleaseMs : age[k] + gap' >= p + r
  <2>1. cooked' # cooked
    BY <1>1
  <2>2. PICK new \in SUBSET Keys, e \in Gaps : Scan(new, e)
    BY <1>1, <2>1 DEF Next, vars, SetDebounce
  <2>3. gap' = e /\ k \in Keys
    BY <1>1, <2>2 DEF Scan, HistoryInv, DebounceInv, TypeOK
  <2> QED
    BY <1>1, <2>2, <2>3, ScanOfClocks, TimesFit
<1>2. HistoryInv /\ [Next]_vars
        => [\A k \in cooked \ cooked' :
              \E p \in PressMs, r \in ReleaseMs : age[k] + gap' >= p + r]_vars
  BY <1>1
<1> QED
  BY <1>2, HistoryInvariant, TimesFit, PTL DEF Spec, PressIsHeld

\* The caller learns of every change of the cooked matrix, and of no other
\* (debounce.c:51-79): what the first loop drops the second never brings back.
THEOREM EveryChangeReported == Spec => ReportsEveryChange
<1>1. ASSUME DebounceInv, NEW new \in SUBSET Keys, NEW e \in Gaps, Scan(new, e)
      PROVE  cooked_changed' = (cooked' # cooked)
  <2> DEFINE u == IF "counters" \in need /\ Elapsed(e) > 0
                  THEN Update(Current, new, Elapsed(e)) ELSE Current
             transfers == new # raw \/ "matrix" \in u.need
             d == IF transfers THEN Transfer(u, new) ELSE u
  <2>1. cooked' = d.cooked /\ cooked_changed' = (u.cooked # cooked \/ d.cooked # u.cooked)
    BY <1>1 DEF Scan, Elapsed, Changed
  <2>2. \A k \in Keys : k \in u.cooked <=> Kept(k, new, e)
    BY <1>1, UpdateOfKey
  <2>3. cooked \subseteq Keys /\ cooked' \subseteq Keys
    <3>1. DebounceInv'
      BY <1>1, ScanPreserves
    <3> QED
      BY <1>1, <3>1 DEF DebounceInv, TypeOK
  <2>4. u.cooked \subseteq d.cooked
    <3> HIDE DEF u
    <3> QED
      BY DEF Transfer
  <2> HIDE DEF d
  <2>5. u.cooked \subseteq Keys
    BY <2>1, <2>3, <2>4
  <2>6. ASSUME u.cooked # cooked
        PROVE  cooked' # cooked
    <3>1. u.cooked \subseteq cooked
      BY <2>2, <2>5 DEF Kept
    <3>2. PICK k \in Keys : k \in cooked /\ ~Kept(k, new, e)
      BY <2>2, <2>3, <2>6, <3>1
    <3>3. k \notin new /\ Dropped(k, new, e)
      BY <3>2 DEF Kept, Dropped
    <3>4. k \notin cooked'
      BY <1>1, <3>2, <3>3, ScanOfKey
    <3> QED
      BY <3>2, <3>4
  <2> HIDE DEF u
  <2> QED
    BY <2>1, <2>6
<1>2. DebounceInv /\ [Next]_vars => [config' = config => cooked_changed' = (cooked' # cooked)]_vars
  <2>1. ASSUME NEW press \in PressMs, NEW release \in ReleaseMs, SetDebounce(press, release)
        PROVE  config' # config
    BY <2>1 DEF SetDebounce, config
  <2> QED
    BY <1>1, <2>1 DEF Next
<1> QED
  BY <1>2, DebounceInvariant, PTL DEF Spec, ReportsEveryChange
=============================================================================
