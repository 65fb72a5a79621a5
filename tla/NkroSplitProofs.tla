--------------------------- MODULE NkroSplitProofs ---------------------------
(***************************************************************************)
(* For any number of byte slots, of keys and of modifier values: the       *)
(* receiver of the split reports sees the report the keyboard sent, and    *)
(* between the two no key that is held throughout goes up.  The lemmas     *)
(* about SplitLoop, the loop as one operator, are by induction on the key  *)
(* code (UpwardInduction, from the least element of a set of naturals);    *)
(* RfReportProofs uses them.                                               *)
(***************************************************************************)
EXTENDS NkroSplit, WellFoundedInduction, TLAPS

\* Key k is held somewhere in the buffers s.
Holds(s, k) == (\E i \in ByteSlot : s.slots[i] = k) \/ k \in s.bits

\* The flags tell the truth: what is not flagged is what was last sent.
FlaggedSince(s, byte, bit) ==
    /\ "byte" \in s.due \/ byte = [mods |-> s.mods, slots |-> s.slots]
    /\ "bit" \in s.due \/ bit = s.bits

\* The inductive invariant.  Inside the loop the buffers hold the new report
\* for the key codes already visited and the old one for the others.
LoopInv ==
    /\ TypeOK
    /\ HeldOnce
    /\ \A k \in Key : Holds(split, k) <=> IF k < key_code THEN k \in now_bit_report.keys
                                                          ELSE k \in pre_bit_report.keys
    /\ split.mods = IF key_code = 0 THEN pre_bit_report.mods ELSE now_bit_report.mods
    /\ key_code = 0 => /\ sentByte = [mods |-> split.mods, slots |-> split.slots]
                       /\ sentBit = split.bits
    /\ key_code # 0 => FlaggedSince(split, sentByte, sentBit)

-----------------------------------------------------------------------------
(* Natural numbers, and the first slot that holds something *)

LEMMA LeastNatural ==
    ASSUME NEW S \in SUBSET Nat, S # {}
    PROVE  \E m \in S : \A k \in S : m <= k
<1> DEFINE R == OpToRel(<, Nat)
<1>1. IsWellFoundedOn(R, Nat)
  BY NatLessThanWellFounded
<1>2. \E m \in S : \A k \in S : ~(<<k, m>> \in R)
  <2> HIDE DEF R
  <2> QED
    BY <1>1, WFMin
<1>3. PICK m \in S : \A k \in S : ~(<<k, m>> \in R)
  BY <1>2
<1>4. \A k \in S : ~(k < m)
  BY <1>3 DEF OpToRel
<1> QED
  BY <1>4

LEMMA UpwardInduction ==
    ASSUME NEW S, NEW a \in Nat, NEW b \in Nat, a \in S,
           \A n \in a .. b - 1 : n \in S => n + 1 \in S
    PROVE  a .. b \subseteq S
<1> SUFFICES ASSUME NEW x \in a .. b, x \notin S
             PROVE  FALSE
  OBVIOUS
<1> DEFINE T == {n \in a .. b : n \notin S}
<1>1. T \in SUBSET Nat /\ T # {}
  OBVIOUS
<1>2. PICK n \in T : \A m \in T : n <= m
  BY <1>1, LeastNatural
<1>3. n \in Nat /\ n \in a .. b /\ n # a /\ n \notin S
  BY <1>2
<1>4. n - 1 \in a .. b - 1 /\ n - 1 + 1 = n
  BY <1>3
<1>5. n - 1 \in S
  BY <1>2, <1>3, <1>4
<1> QED
  BY <1>3, <1>4, <1>5

\* A search over the slots ends in one of the slots it looks for.
LEMMA FirstSlot ==
    ASSUME NEW s \in Splits, NEW k, SlotsHolding(s, k) # {}
    PROVE  /\ Min(SlotsHolding(s, k)) \in ByteSlot
           /\ s.slots[Min(SlotsHolding(s, k))] = k
<1> DEFINE S == SlotsHolding(s, k)
<1>1. S \in SUBSET Nat /\ S \subseteq ByteSlot
  BY DEF SlotsHolding, ByteSlot
<1>2. \E m \in S : \A j \in S : m <= j
  BY <1>1, LeastNatural
<1>3. Min(S) \in S
  BY <1>2 DEF Min
<1> QED
  BY <1>3 DEF SlotsHolding

-----------------------------------------------------------------------------
(* One key of the loop *)

\* What a press or a release of k must do to the buffers: hold k or not, leave
\* the other keys and the modifiers alone, and flag what it changed.
Moves(s, t, k, held) ==
    /\ t \in Splits
    /\ OnePlace(t)
    /\ Holds(t, k) <=> held
    /\ \A j \in Key \ {k} : Holds(t, j) <=> Holds(s, j)
    /\ t.mods = s.mods
    /\ s.due \subseteq t.due
    /\ "byte" \in t.due \/ t.slots = s.slots
    /\ "bit" \in t.due \/ t.bits = s.bits

\* rf_driver.c:84-96: a pressed key lands in one place.
LEMMA AddKeyMoves ==
    ASSUME NEW s \in Splits, OnePlace(s), NEW k \in Key, ~Holds(s, k)
    PROVE  Moves(s, AddKey(s, k), k, TRUE)
<1>0. NoKey \notin Key
  BY DEF NoKey, Key
<1>1. CASE SlotsHolding(s, NoKey) # {}
  <2>1. PICK m \in ByteSlot : m = Min(SlotsHolding(s, NoKey)) /\ s.slots[m] = NoKey
    BY <1>1, FirstSlot
  <2>2. AddKey(s, k) = PutSlot(s, m, k)
    BY <1>1, <2>1 DEF AddKey
  <2> DEFINE t == AddKey(s, k)
  <2>3. /\ t \in Splits
        /\ t.slots = [s.slots EXCEPT ![m] = k]
        /\ t.bits = s.bits
        /\ t.mods = s.mods
        /\ t.due = s.due \cup {"byte"}
    BY <2>1, <2>2 DEF Splits, PutSlot
  <2> HIDE DEF t
  <2>4. s.slots \in [ByteSlot -> Key \cup {NoKey}]
    BY DEF Splits
  <2>5. OnePlace(t)
    BY <1>0, <2>1, <2>3, <2>4 DEF Holds, OnePlace
  <2>6. Holds(t, k) <=> TRUE
    BY <1>0, <2>1, <2>3, <2>4 DEF Holds, OnePlace
  <2>7. \A j \in Key \ {k} : Holds(t, j) <=> Holds(s, j)
    BY <1>0, <2>1, <2>3, <2>4 DEF Holds, OnePlace
  <2> QED
    BY <2>3, <2>4, <2>5, <2>6, <2>7 DEF Moves, t
<1>2. CASE SlotsHolding(s, NoKey) = {}
  <2>1. AddKey(s, k) = PutBits(s, s.bits \cup {k})
    BY <1>2 DEF AddKey
  <2> DEFINE t == AddKey(s, k)
  <2>3. /\ t \in Splits
        /\ t.slots = s.slots
        /\ t.bits = s.bits \cup {k}
        /\ t.mods = s.mods
        /\ t.due = s.due \cup {"bit"}
    BY <2>1 DEF Splits, PutBits
  <2> HIDE DEF t
  <2>4. s.slots \in [ByteSlot -> Key \cup {NoKey}]
    BY DEF Splits
  <2>5. OnePlace(t)
    BY <1>0, <2>3, <2>4 DEF Holds, OnePlace
  <2>6. Holds(t, k) <=> TRUE
    BY <1>0, <2>3, <2>4 DEF Holds, OnePlace
  <2>7. \A j \in Key \ {k} : Holds(t, j) <=> Holds(s, j)
    BY <1>0, <2>3, <2>4 DEF Holds, OnePlace
  <2> QED
    BY <2>3, <2>4, <2>5, <2>6, <2>7 DEF Moves, t
<1> QED
  BY <1>1, <1>2

\* rf_driver.c:97-109: a released key is removed from the one place it is in.
LEMMA DelKeyMoves ==
    ASSUME NEW s \in Splits, OnePlace(s), NEW k \in Key
    PROVE  Moves(s, DelKey(s, k), k, FALSE)
<1>0. NoKey \notin Key
  BY DEF NoKey, Key
<1>1. CASE SlotsHolding(s, k) # {}
  <2>1. PICK m \in ByteSlot : m = Min(SlotsHolding(s, k)) /\ s.slots[m] = k
    BY <1>1, FirstSlot
  <2>2. DelKey(s, k) = PutSlot(s, m, NoKey)
    BY <1>1, <2>1 DEF DelKey
  <2> DEFINE t == DelKey(s, k)
  <2>3. /\ t \in Splits
        /\ t.slots = [s.slots EXCEPT ![m] = NoKey]
        /\ t.bits = s.bits
        /\ t.mods = s.mods
        /\ t.due = s.due \cup {"byte"}
    BY <2>1, <2>2 DEF Splits, PutSlot
  <2> HIDE DEF t
  <2>4. s.slots \in [ByteSlot -> Key \cup {NoKey}] /\ s.bits \subseteq Key
    BY DEF Splits
  <2>5. OnePlace(t)
    BY <1>0, <2>1, <2>3, <2>4 DEF Holds, OnePlace
  <2>6. Holds(t, k) <=> FALSE
    BY <1>0, <2>1, <2>3, <2>4 DEF Holds, OnePlace
  <2>7. \A j \in Key \ {k} : Holds(t, j) <=> Holds(s, j)
    BY <1>0, <2>1, <2>3, <2>4 DEF Holds, OnePlace
  <2> QED
    BY <2>3, <2>4, <2>5, <2>6, <2>7 DEF Moves, t
<1>2. CASE SlotsHolding(s, k) = {}
  <2>1. DelKey(s, k) = PutBits(s, s.bits \ {k})
    BY <1>2 DEF DelKey
  <2>2. \A i \in ByteSlot : s.slots[i] # k
    BY <1>2 DEF SlotsHolding
  <2> DEFINE t == DelKey(s, k)
  <2>3. /\ t \in Splits
        /\ t.slots = s.slots
        /\ t.bits = s.bits \ {k}
        /\ t.mods = s.mods
        /\ t.due = s.due \cup {"bit"}
    BY <2>1 DEF Splits, PutBits
  <2> HIDE DEF t
  <2>4. s.slots \in [ByteSlot -> Key \cup {NoKey}]
    BY DEF Splits
  <2>5. OnePlace(t)
    BY <1>0, <2>2, <2>3, <2>4 DEF Holds, OnePlace
  <2>6. Holds(t, k) <=> FALSE
    BY <1>0, <2>2, <2>3, <2>4 DEF Holds, OnePlace
  <2>7. \A j \in Key \ {k} : Holds(t, j) <=> Holds(s, j)
    BY <1>0, <2>3, <2>4 DEF Holds, OnePlace
  <2> QED
    BY <2>3, <2>4, <2>5, <2>6, <2>7 DEF Moves, t
<1> QED
  BY <1>1, <1>2

\* rf_driver.c:79-112: one key code of the loop, given that it was held as in the
\* previous report.
LEMMA KeyStepMoves ==
    ASSUME NEW s \in Splits, OnePlace(s), NEW k \in Key, NEW pre, NEW now,
           Holds(s, k) <=> k \in pre
    PROVE  Moves(s, KeyStep(s, k, pre, now), k, k \in now)
<1> DEFINE t == KeyStep(s, k, pre, now)
<1>1. CASE (k \in pre) = (k \in now)
  <2>1. t = s
    BY <1>1 DEF KeyStep
  <2> QED
    BY <1>1, <2>1 DEF Moves
<1>2. CASE k \notin pre /\ k \in now
  <2>1. t = AddKey(s, k)
    BY <1>2 DEF KeyStep
  <2> QED
    BY <1>2, <2>1, AddKeyMoves DEF Moves
<1>3. CASE k \in pre /\ k \notin now
  <2>1. t = DelKey(s, k)
    BY <1>3 DEF KeyStep
  <2> QED
    BY <1>3, <2>1, DelKeyMoves DEF Moves
<1> QED
  BY <1>1, <1>2, <1>3

-----------------------------------------------------------------------------
(* The loop as one operator *)

LEMMA SplitRunSteps ==
    ASSUME NEW s, NEW pre, NEW now
    PROVE  /\ SplitRun(s, pre, now)[0] = ModsStep(s, pre.mods, now.mods)
           /\ \A k \in Key : SplitRun(s, pre, now)[k]
                = KeyStep(SplitRun(s, pre, now)[k - 1], k, pre.keys, now.keys)
<1> DEFINE first == ModsStep(s, pre.mods, now.mods)
           step(y, k) == KeyStep(y, k, pre.keys, now.keys)
           IsRun(r, n) == r = [k \in 0 .. n |-> IF k = 0 THEN first ELSE step(r[k - 1], k)]
           S == {n \in Nat : \E r : IsRun(r, n)}
<1> HIDE DEF first, step
<1>0. NUM_KEYS \in Nat
  BY ReportAssumption
<1>1. 0 \in S
  <2> DEFINE r == [k \in 0 .. 0 |-> first]
  <2>1. IsRun(r, 0)
    OBVIOUS
  <2> HIDE DEF r, IsRun
  <2> QED
    BY <2>1
<1>2. ASSUME NEW n \in 0 .. NUM_KEYS - 1, n \in S
      PROVE  n + 1 \in S
  <2>0. n \in Nat
    BY <1>0
  <2>1. PICK r : IsRun(r, n)
    BY <1>2
  <2> DEFINE q == [k \in 0 .. n + 1 |-> IF k = n + 1 THEN step(r[n], k) ELSE r[k]]
  <2>2. ASSUME NEW k \in 0 .. n + 1
        PROVE  q[k] = IF k = 0 THEN first ELSE step(q[k - 1], k)
    <3>1. CASE k = n + 1
      <4>1. k # 0 /\ k - 1 = n /\ n \in 0 .. n + 1 /\ n # n + 1
        BY <2>0, <3>1
      <4>2. q[k] = step(r[n], k) /\ q[n] = r[n]
        BY <3>1, <4>1
      <4> HIDE DEF q
      <4> QED
        BY <4>1, <4>2
    <3>2. CASE k # n + 1 /\ k # 0
      <4>1. k \in 0 .. n /\ k - 1 \in 0 .. n + 1 /\ k - 1 # n + 1
        BY <2>0, <3>2
      <4>2. r[k] = step(r[k - 1], k)
        BY <2>1, <3>2, <4>1
      <4>3. q[k] = r[k] /\ q[k - 1] = r[k - 1]
        BY <3>2, <4>1
      <4> HIDE DEF q
      <4> QED
        BY <3>2, <4>2, <4>3
    <3>3. CASE k = 0
      <4>1. k # n + 1 /\ k \in 0 .. n
        BY <2>0, <3>3
      <4>2. r[k] = first
        BY <2>1, <3>3, <4>1
      <4> QED
        BY <3>3, <4>1, <4>2
    <3> QED
      BY <3>1, <3>2, <3>3
  <2>3. q = [k \in 0 .. n + 1 |-> q[k]]
    OBVIOUS
  <2> HIDE DEF q
  <2>4. IsRun(q, n + 1)
    BY <2>2, <2>3
  <2> HIDE DEF IsRun
  <2> QED
    BY <2>0, <2>4
<1>3. NUM_KEYS \in S
  <2> HIDE DEF S
  <2>1. 0 .. NUM_KEYS \subseteq S
    BY <1>0, <1>1, <1>2, UpwardInduction
  <2> QED
    BY <1>0, <2>1
<1>4. \E r : IsRun(r, NUM_KEYS)
  BY <1>3
<1>5. SplitRun(s, pre, now) = CHOOSE r : IsRun(r, NUM_KEYS)
  BY DEF SplitRun, first, step
<1>6. IsRun(SplitRun(s, pre, now), NUM_KEYS)
  <2> HIDE DEF IsRun
  <2> QED
    BY <1>4, <1>5
<1> DEFINE run == SplitRun(s, pre, now)
<1>7. /\ run[0] = first
      /\ \A k \in Key : run[k] = step(run[k - 1], k)
  <2> HIDE DEF run
  <2>1. 0 \in 0 .. NUM_KEYS /\ \A k \in Key : k \in 0 .. NUM_KEYS /\ k # 0
    BY <1>0 DEF Key
  <2>2. IsRun(run, NUM_KEYS)
    BY <1>6 DEF run
  <2> QED
    BY <2>1, <2>2
<1> QED
  BY <1>7 DEF first, step
\* What the buffers s show, if keys and modifiers are those of the report r.
Shows(s, r) ==
    /\ s \in Splits
    /\ OnePlace(s)
    /\ \A k \in Key : Holds(s, k) <=> k \in r.keys
    /\ s.mods = r.mods

\* What is not due is as it was in s.
UnlessDue(s, t) ==
    /\ "byte" \in t.due \/ (t.slots = s.slots /\ t.mods = s.mods)
    /\ "bit" \in t.due \/ t.bits = s.bits

LEMMA ModsStepShows ==
    ASSUME NEW s \in Splits, NEW m \in Mods, NEW r \in Mods, s.mods = m
    PROVE  /\ ModsStep(s, m, r) \in Splits
           /\ ModsStep(s, m, r).slots = s.slots
           /\ ModsStep(s, m, r).bits = s.bits
           /\ ModsStep(s, m, r).mods = r
           /\ "byte" \in ModsStep(s, m, r).due \/ r = m
  BY DEF ModsStep, Splits

\* rf_driver.c:69-113: from buffers that show the previous report, the loop makes
\* buffers that show the new one, and flags what it changed.
LEMMA SplitLoopShows ==
    ASSUME NEW pre \in NkroReports, NEW now \in NkroReports, NEW s, Shows(s, pre)
    PROVE  /\ Shows(SplitLoop(s, pre, now), now)
           /\ UnlessDue(s, SplitLoop(s, pre, now))
<1> DEFINE run == SplitRun(s, pre, now)
           Done(n) == /\ run[n] \in Splits
                      /\ OnePlace(run[n])
                      /\ \A k \in Key : Holds(run[n], k) <=> IF k <= n THEN k \in now.keys
                                                                       ELSE k \in pre.keys
                      /\ run[n].mods = now.mods
                      /\ UnlessDue(s, run[n])
           S == {n \in Nat : Done(n)}
<1>0. NUM_KEYS \in Nat /\ \A k \in Key : k \in Nat /\ k > 0 /\ k <= NUM_KEYS
  BY ReportAssumption DEF Key
<1>1. /\ run[0] = ModsStep(s, pre.mods, now.mods)
      /\ \A k \in Key : run[k] = KeyStep(run[k - 1], k, pre.keys, now.keys)
  BY SplitRunSteps
<1>2. SplitLoop(s, pre, now) = run[NUM_KEYS]
  BY DEF SplitLoop
<1> HIDE DEF run
<1>3. Done(0)
  <2>1. /\ run[0] \in Splits /\ run[0].slots = s.slots /\ run[0].bits = s.bits
        /\ run[0].mods = now.mods /\ ("byte" \in run[0].due \/ now.mods = pre.mods)
    BY <1>1, ModsStepShows DEF Shows, NkroReports
  <2>2. OnePlace(run[0]) /\ \A k \in Key : Holds(run[0], k) <=> Holds(s, k)
    BY <2>1 DEF Shows, OnePlace, Holds
  <2>3. \A k \in Key : ~(k <= 0)
    BY <1>0
  <2> QED
    BY <2>1, <2>2, <2>3 DEF Shows, UnlessDue
<1>4. ASSUME NEW n \in 0 .. NUM_KEYS - 1, Done(n)
      PROVE  Done(n + 1)
  <2> DEFINE k == n + 1
  <2>1. n \in Nat /\ k \in Nat /\ k \in Key /\ k - 1 = n /\ ~(k <= n)
    BY <1>0 DEF Key
  <2> HIDE DEF k
  <2>2. run[k] = KeyStep(run[n], k, pre.keys, now.keys)
    BY <1>1, <2>1
  <2>3. Holds(run[n], k) <=> k \in pre.keys
    BY <1>4, <2>1
  <2>4. Moves(run[n], run[k], k, k \in now.keys)
    BY <1>4, <2>1, <2>2, <2>3, KeyStepMoves
  <2>5. \A j \in Key : j <= k <=> j <= n \/ j = k
    BY <1>0, <2>1 DEF k
  <2>6. \A j \in Key : Holds(run[k], j) <=> IF j <= k THEN j \in now.keys ELSE j \in pre.keys
    BY <1>4, <2>4, <2>5 DEF Moves
  <2>7. UnlessDue(s, run[k])
    BY <1>4, <2>4 DEF Moves, UnlessDue
  <2> QED
    BY <1>4, <2>4, <2>6, <2>7 DEF Moves, k
<1>5. Done(NUM_KEYS)
  <2>1. 0 \in S /\ \A n \in 0 .. NUM_KEYS - 1 : n \in S => n + 1 \in S
    <3> HIDE DEF Done
    <3> QED
      BY <1>0, <1>3, <1>4
  <2> HIDE DEF S
  <2>2. 0 .. NUM_KEYS \subseteq S
    BY <1>0, <2>1, UpwardInduction
  <2>3. NUM_KEYS \in S
    BY <1>0, <2>2
  <2> QED
    BY <2>3 DEF S
<1> QED
  BY <1>0, <1>2, <1>5 DEF Shows

-----------------------------------------------------------------------------
(* The loop *)

LEMMA CallPreserves ==
    ASSUME LoopInv, NEW r \in NkroReports, Call(r)
    PROVE  LoopInv'
<1> DEFINE t == ModsStep(split, pre_bit_report.mods, r.mods)
<1> USE DEF LoopInv
<1>1. /\ t \in Splits
      /\ t.slots = split.slots /\ t.bits = split.bits
      /\ t.mods = r.mods
      /\ "byte" \notin t.due => t.mods = split.mods
  BY DEF TypeOK, Splits, ModsStep, Call, NkroReports
<1>2. split' = t /\ key_code = 0 /\ key_code' = 1 /\ now_bit_report' = r
  BY DEF Call
<1> HIDE DEF t
<1>3. TypeOK'
  BY <1>1, <1>2, ReportAssumption DEF TypeOK, Call
<1>4. HeldOnce'
  BY <1>1, <1>2 DEF HeldOnce, OnePlace
<1>5. \A k \in Key : Holds(split, k)' <=> Holds(split, k)
  BY <1>1, <1>2 DEF Holds
<1>6. \A k \in Key : ~(k < 1) /\ ~(k < 0)
  BY DEF Key
<1>7. \A k \in Key : Holds(split, k)' <=> IF k < key_code' THEN k \in now_bit_report'.keys
                                                          ELSE k \in pre_bit_report'.keys
  BY <1>2, <1>5, <1>6 DEF Call
<1>8. FlaggedSince(split, sentByte, sentBit)'
  BY <1>1, <1>2 DEF FlaggedSince, Call
<1> QED
  BY <1>1, <1>2, <1>3, <1>4, <1>7, <1>8 DEF Call

LEMMA KeyLoopPreserves ==
    ASSUME LoopInv, KeyLoop
    PROVE  LoopInv'
<1> DEFINE t == KeyStep(split, key_code, pre_bit_report.keys, now_bit_report.keys)
<1> USE DEF LoopInv
<1>1. /\ key_code \in Key /\ key_code \in Nat /\ key_code # 0 /\ key_code' = key_code + 1
      /\ split' = t
      /\ split \in Splits /\ OnePlace(split)
  BY DEF KeyLoop, TypeOK, HeldOnce, Key
<1>2. Holds(split, key_code) <=> key_code \in pre_bit_report.keys
  BY <1>1
<1>3. Moves(split, t, key_code, key_code \in now_bit_report.keys)
  BY <1>1, <1>2, KeyStepMoves
<1> HIDE DEF t
<1>4. TypeOK'
  BY <1>1, <1>3, ReportAssumption DEF TypeOK, KeyLoop, Moves, Key
<1>5. HeldOnce'
  BY <1>1, <1>3 DEF HeldOnce, OnePlace, Moves
<1>6. \A k \in Key : Holds(split, k)' <=> IF k < key_code' THEN k \in now_bit_report'.keys
                                                          ELSE k \in pre_bit_report'.keys
  <2> SUFFICES ASSUME NEW k \in Key
               PROVE  Holds(split, k)' <=> IF k < key_code' THEN k \in now_bit_report'.keys
                                                            ELSE k \in pre_bit_report'.keys
    OBVIOUS
  <2>0. Holds(split, k)' <=> Holds(t, k)
    BY <1>1 DEF Holds
  <2>1. CASE k = key_code
    <3>1. k < key_code'
      BY <1>1, <2>1
    <3> QED
      BY <1>3, <2>0, <2>1, <3>1 DEF Moves, KeyLoop
  <2>2. CASE k # key_code
    <3>1. k < key_code' <=> k < key_code
      BY <1>1, <2>2 DEF Key
    <3> QED
      BY <1>3, <2>0, <2>2, <3>1 DEF Moves, KeyLoop
  <2> QED
    BY <2>1, <2>2
<1>7. FlaggedSince(split, sentByte, sentBit)'
  BY <1>1, <1>3 DEF FlaggedSince, Moves, KeyLoop
<1>8. key_code' # 0
  BY <1>1
<1> QED
  BY <1>1, <1>3, <1>4, <1>5, <1>6, <1>7, <1>8 DEF KeyLoop, Moves

LEMMA ReturnPreserves ==
    ASSUME LoopInv, Return
    PROVE  LoopInv'
<1> USE DEF LoopInv
<1>0. key_code = NUM_KEYS + 1 /\ key_code # 0 /\ key_code' = 0
  BY ReportAssumption DEF Return
<1>1. TypeOK'
  BY ReportAssumption DEF Return, TypeOK, Splits
<1>2. HeldOnce'
  BY DEF Return, HeldOnce, OnePlace
<1>3. \A k \in Key : k < key_code /\ ~(k < key_code')
  BY <1>0, ReportAssumption DEF Key
<1>4. \A k \in Key : Holds(split, k)' <=> Holds(split, k)
  BY DEF Return, Holds
<1>5. sentByte' = [mods |-> split.mods, slots |-> split.slots] /\ sentBit' = split.bits
  BY <1>0 DEF Return, FlaggedSince
<1>6. \A k \in Key : Holds(split, k)' <=> IF k < key_code' THEN k \in now_bit_report'.keys
                                                          ELSE k \in pre_bit_report'.keys
  BY <1>3, <1>4 DEF Return
<1> QED
  BY <1>0, <1>1, <1>2, <1>5, <1>6 DEF Return

\* rf_driver.c:62-127: the loop invariant holds at every iteration.
THEOREM LoopInvariant == Spec => []LoopInv
<1>1. Init => LoopInv
  <2> SUFFICES ASSUME Init PROVE LoopInv
    OBVIOUS
  <2>1. TypeOK
    BY ReportAssumption DEF Init, TypeOK, NkroReports, NoKeysHeld, EmptySplit, Splits
  <2>2. \A k \in Key : ~Holds(split, k) /\ k \notin pre_bit_report.keys /\ ~(k < key_code)
    BY DEF Init, Holds, EmptySplit, Key, NoKey, NoKeysHeld
  <2>3. HeldOnce
    BY DEF Init, HeldOnce, OnePlace, EmptySplit
  <2> QED
    BY <2>1, <2>2, <2>3 DEF Init, LoopInv, EmptySplit, NoKeysHeld
<1>2. LoopInv /\ [Next]_vars => LoopInv'
  <2> SUFFICES ASSUME LoopInv, [Next]_vars
               PROVE  LoopInv'
    OBVIOUS
  <2>1. CASE UNCHANGED vars
    BY <2>1 DEF vars, LoopInv, TypeOK, HeldOnce, OnePlace, Holds, FlaggedSince
  <2> QED
    BY <2>1, CallPreserves, KeyLoopPreserves, ReturnPreserves DEF Next
<1> QED
  BY <1>1, <1>2, PTL DEF Spec

\* rf_driver.c:59-127: the buffers keep their shape: slots that hold a key code or
\* nothing, a bit per key code, and a loop variable that does not run past them.
THEOREM TypeCorrect == Spec => []TypeOK
BY LoopInvariant, PTL DEF LoopInv

\* rf_driver.c:62-127: whatever keys change from one report to the next, for
\* any number of slots and keys, the last byte and the last bit report sent
\* show the receiver exactly the keys and modifiers of the last report.
THEOREM ReceiverAlwaysSeesReport == Spec => []ReceiverSeesReport
<1>1. LoopInv => ReceiverSeesReport
  <2> SUFFICES ASSUME LoopInv, key_code = 0
               PROVE  /\ SentKeys = pre_bit_report.keys
                      /\ sentByte.mods = pre_bit_report.mods
    BY DEF ReceiverSeesReport
  <2> USE DEF LoopInv
  <2>1. \A k \in Key : Holds(split, k) <=> k \in pre_bit_report.keys
    BY DEF Key
  <2>2. SentKeys = {k \in Key : Holds(split, k)}
    BY DEF SentKeys, Holds, TypeOK, Splits, Key, NoKey
  <2>3. pre_bit_report.keys \subseteq Key
    BY DEF TypeOK, NkroReports
  <2> QED
    BY <2>1, <2>2, <2>3
<1> QED
  BY <1>1, LoopInvariant, PTL

\* rf_driver.c:84-110: a key is held in at most one place at every iteration.
THEOREM AlwaysHeldOnce == Spec => []HeldOnce
<1>1. LoopInv => HeldOnce
  BY DEF LoopInv
<1> QED
  BY <1>1, LoopInvariant, PTL

\* The bits last sent are of keys that were held, and those of a key that is held
\* throughout the call do not change in it.
BitsStay ==
    key_code # 0 => /\ sentBit \subseteq pre_bit_report.keys
                    /\ \A k \in pre_bit_report.keys \cap now_bit_report.keys :
                          k \in split.bits <=> k \in sentBit

\* rf_driver.c:79-112: one key code of the loop leaves the bits of the others, and
\* of a key that is held, as they are.
LEMMA KeyStepKeepsBits ==
    ASSUME NEW s \in Splits, NEW k, NEW pre, NEW now, NEW j, j # k \/ j \in pre \cap now
    PROVE  j \in KeyStep(s, k, pre, now).bits <=> j \in s.bits
<1>1. CASE (k \in pre) = (k \in now)
  BY <1>1 DEF KeyStep
<1>2. CASE (k \in pre) # (k \in now)
  <2>1. j # k
    BY <1>2
  <2>2. j \in AddKey(s, k).bits <=> j \in s.bits
    BY <2>1 DEF AddKey, PutSlot, PutBits
  <2>3. j \in DelKey(s, k).bits <=> j \in s.bits
    BY <2>1 DEF DelKey, PutSlot, PutBits
  <2> QED
    BY <1>2, <2>2, <2>3 DEF KeyStep
<1> QED
  BY <1>1, <1>2

\* rf_driver.c:79-126: between the two reports of a call, for any number of slots and
\* keys, no key that is held throughout is missed, and none is seen that is in
\* neither report.
THEOREM NoneEverReleasedBetween == Spec => NoneReleasedBetween
<1>1. Init => BitsStay
  BY DEF Init, BitsStay
<1>2. LoopInv /\ BitsStay /\ [Next]_vars => BitsStay'
  <2> SUFFICES ASSUME LoopInv, BitsStay, [Next]_vars
               PROVE  BitsStay'
    OBVIOUS
  <2>1. ASSUME NEW r \in NkroReports, Call(r)
        PROVE  BitsStay'
    <3>1. /\ key_code = 0 /\ split'.bits = split.bits
          /\ sentBit' = sentBit /\ pre_bit_report' = pre_bit_report
      BY <2>1 DEF Call, ModsStep, LoopInv, TypeOK, Splits
    <3>2. sentBit = split.bits /\ sentBit \subseteq Key
      BY <3>1 DEF LoopInv, TypeOK
    <3>3. \A k \in Key : ~(k < 0)
      BY DEF Key
    <3>4. \A k \in sentBit : Holds(split, k) /\ k \in pre_bit_report.keys
      BY <3>1, <3>2, <3>3 DEF LoopInv, Holds
    <3> QED
      BY <3>1, <3>2, <3>4 DEF BitsStay
  <2>2. CASE KeyLoop
    <3>1. /\ key_code \in Key /\ key_code # 0 /\ split \in Splits
          /\ split' = KeyStep(split, key_code, pre_bit_report.keys, now_bit_report.keys)
          /\ sentBit' = sentBit /\ pre_bit_report' = pre_bit_report
          /\ now_bit_report' = now_bit_report
      BY <2>2 DEF KeyLoop, Key, LoopInv, TypeOK
    <3>2. \A k \in pre_bit_report.keys \cap now_bit_report.keys :
             k \in split'.bits <=> k \in split.bits
      BY <3>1, KeyStepKeepsBits
    <3> QED
      BY <3>1, <3>2 DEF BitsStay
  <2>3. CASE Return
    BY <2>3 DEF Return, BitsStay
  <2>4. CASE UNCHANGED vars
    BY <2>4 DEF vars, BitsStay
  <2> QED
    BY <2>1, <2>2, <2>3, <2>4 DEF Next
<1>3. LoopInv /\ BitsStay /\ [Next]_vars
        => [key_code # 0 /\ key_code' = 0
              => /\ pre_bit_report.keys \cap now_bit_report.keys \subseteq SeenBetween
                 /\ SeenBetween \subseteq pre_bit_report.keys \cup now_bit_report.keys]_vars
  <2> SUFFICES ASSUME LoopInv, BitsStay, [Next]_vars, key_code # 0, key_code' = 0
               PROVE  /\ pre_bit_report.keys \cap now_bit_report.keys \subseteq SeenBetween
                      /\ SeenBetween \subseteq pre_bit_report.keys \cup now_bit_report.keys
    OBVIOUS
  <2>1. Return
    BY DEF Next, Call, KeyLoop, Key, vars
  <2>2. sentByte'.slots = split.slots
    BY <2>1 DEF Return, LoopInv, FlaggedSince
  <2>3. \A k \in Key : k < key_code
    BY <2>1, ReportAssumption DEF Return, Key
  <2>4. \A k \in Key : Holds(split, k) <=> k \in now_bit_report.keys
    BY <2>3 DEF LoopInv
  <2>5. /\ pre_bit_report.keys \subseteq Key /\ now_bit_report.keys \subseteq Key
        /\ split.slots \in [ByteSlot -> Key \cup {NoKey}] /\ NoKey \notin Key
    BY DEF LoopInv, TypeOK, NkroReports, Splits, Key, NoKey
  <2>6. SeenBetween = ({split.slots[i] : i \in ByteSlot} \ {NoKey}) \cup sentBit
    BY <2>2 DEF SeenBetween
  <2>7. ASSUME NEW k \in pre_bit_report.keys \cap now_bit_report.keys
        PROVE  k \in SeenBetween
    BY <2>4, <2>5, <2>6, <2>7 DEF Holds, BitsStay
  <2>8. ASSUME NEW k \in SeenBetween
        PROVE  k \in pre_bit_report.keys \cup now_bit_report.keys
    BY <2>4, <2>5, <2>6, <2>8 DEF Holds, BitsStay
  <2> QED
    BY <2>7, <2>8
<1> QED
  BY <1>1, <1>2, <1>3, LoopInvariant, PTL DEF Spec, NoneReleasedBetween
=============================================================================
