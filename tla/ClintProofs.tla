---------------------------- MODULE ClintProofs -----------------------------
(***************************************************************************)
(* Proofs about the core-local interruptor for any register width, scaler  *)
(* and compare values: types, MTIP at the end of every instant, the        *)
(* wake-up time, and the compare timer that timer_proc implements.         *)
(***************************************************************************)
EXTENDS Clint, TLAPS

-----------------------------------------------------------------------------
(* Division *)

\* Comparing ticks is comparing clock units.
LEMMA DivBound ==
    ASSUME NEW n \in Nat, NEW d \in Nat \ {0}, NEW q \in Nat
    PROVE  n \div d >= q <=> n >= q * d
<1> DEFINE m == n \div d
           r == n % d
<1>1. m \in Nat /\ r \in 0 .. d - 1 /\ n = d * m + r
  OBVIOUS
<1> HIDE DEF m, r
<1>2. ASSUME m >= q PROVE n >= q * d
  <2>1. d * m >= d * q
    BY <1>1, <1>2
  <2> QED
    BY <1>1, <2>1
<1>3. ASSUME ~(m >= q) PROVE ~(n >= q * d)
  <2>1. m + 1 <= q
    BY <1>1, <1>3
  <2>2. d * (m + 1) <= d * q
    BY <1>1, <2>1
  <2>3. d * (m + 1) = d * m + d
    BY <1>1
  <2> QED
    BY <1>1, <2>2, <2>3
<1> QED
  BY <1>2, <1>3 DEF m

\* The halves of a register are what it was put together from.
LEMMA Halves ==
    ASSUME NEW d \in Nat \ {0}, NEW hi \in Nat, NEW lo \in 0 .. d - 1
    PROVE  (hi * d + lo) % d = lo /\ (hi * d + lo) \div d = hi
<1> DEFINE n == hi * d + lo
<1>1. n \div d \in Nat /\ n % d \in 0 .. d - 1 /\ n = d * (n \div d) + (n % d)
  OBVIOUS
<1>2. n \div d >= hi
  BY DivBound
<1>3. ~(n \div d >= hi + 1)
  <2>1. n < (hi + 1) * d
    OBVIOUS
  <2> QED
    BY <2>1, DivBound
<1>4. n \div d = hi
  BY <1>1, <1>2, <1>3
<1> QED
  BY <1>1, <1>4

\* A write of either half or of both gives a compare value again.
LEMMA SlicesTyped ==
    ASSUME NEW old \in CmpValues, NEW hi \in 0 .. MaxHigh, NEW lo \in HalfWord
    PROVE  Slices(old, hi, lo) \subseteq CmpValues
<1>1. PICK h \in 0 .. MaxHigh, l \in HalfWord : old = h * Half + l
  BY DEF CmpValues
<1>2. Half \in Nat \ {0} /\ h \in Nat /\ l \in 0 .. Half - 1
  BY ClintAssumption DEF HalfWord
<1>3. old % Half = l /\ old \div Half = h
  BY <1>1, <1>2, Halves
<1>4. Slices(old, hi, lo) = {hi * Half + lo, hi * Half + l, h * Half + lo}
  BY <1>3 DEF Slices
<1> QED
  BY <1>4 DEF CmpValues

\* Compare values, goals and the word.
LEMMA CompareTyped ==
    ASSUME NEW cmp \in CmpValues
    PROVE  /\ cmp \in Nat /\ cmp * Scaler \in Nat
           /\ Goal(cmp) \in 0 .. Word - 1 /\ Goal(cmp) <= cmp * Scaler
           /\ cmp * Scaler < Word => Goal(cmp) = cmp * Scaler
<1>1. Half \in Nat \ {0} /\ Scaler \in Nat \ {0}
  BY ClintAssumption
<1>2. Word \in Nat \ {0}
  BY <1>1 DEF Word
<1>3. cmp \in Nat /\ cmp * Scaler \in Nat
  BY <1>1, ClintAssumption DEF CmpValues, HalfWord
<1> HIDE DEF Word
<1>4. ASSUME NEW n \in Nat
      PROVE  n % Word \in 0 .. Word - 1 /\ n % Word <= n /\ (n < Word => n % Word = n)
  BY <1>2
<1> QED
  BY <1>3, <1>4 DEF Goal

-----------------------------------------------------------------------------
(* Types *)

\* Type correctness: a pending notification of cmp_event_ is never in the
\* past, whatever the compare value and however the product wraps.
THEOREM TypeCorrect == SafetySpec => []TypeOK
<1> DEFINE Bounds == /\ MaxNow \in Nat /\ MaxAccess \in Nat \ {0}
                     /\ Word \in Nat /\ MaxNow < Word
<1>1. Bounds
  BY ClintAssumption DEF Word
<1>2. Init => TypeOK
  <2> SUFFICES ASSUME Init PROVE TypeOK
    OBVIOUS
  <2>1. 0 \in 0 .. MaxHigh /\ 0 \in HalfWord /\ 0 * Half + 0 = 0
    BY ClintAssumption DEF HalfWord
  <2>2. mtimecmp \in CmpValues
    BY <2>1 DEF Init, CmpValues
  <2>3. now \in 0 .. MaxNow /\ cmpEvent \in now .. Never /\ accesses \in 0 .. MaxAccess
    BY <1>1 DEF Init, Never
  <2> QED
    BY <2>2, <2>3 DEF Init, TypeOK
<1>3. TypeOK /\ [Next]_vars => TypeOK'
  <2> SUFFICES ASSUME TypeOK, [Next]_vars PROVE TypeOK'
    OBVIOUS
  <2> USE <1>1 DEF TypeOK, Never
  <2>1. ASSUME NEW bit \in BOOLEAN, WriteMsip(bit) PROVE TypeOK'
    BY <2>1 DEF WriteMsip, Access
  <2>2. ASSUME NEW hi \in 0 .. MaxHigh, NEW lo \in HalfWord, WriteMtimecmp(hi, lo)
        PROVE  TypeOK'
    <3>1. mtimecmp' \in CmpValues
      BY <2>2, SlicesTyped DEF WriteMtimecmp
    <3> QED
      BY <2>2, <3>1 DEF WriteMtimecmp, Access
  <2>3. CASE StartTimerProc
    BY <2>3 DEF StartTimerProc
  <2>4. CASE TimerProc
    <3>1. cmpEvent' \in now .. Never
      BY <2>4, CompareTyped DEF TimerProc, Reschedule, Earlier
    <3>2. mtip' \in BOOLEAN
      BY <2>4 DEF TimerProc, Reached
    <3> QED
      BY <2>4, <3>1, <3>2 DEF TimerProc
  <2>5. CASE DeltaNotify
    BY <2>5 DEF DeltaNotify
  <2>6. CASE AdvanceTime
    BY <2>6 DEF AdvanceTime
  <2>7. CASE UNCHANGED vars
    BY <2>7 DEF vars
  <2> QED
    BY <2>1, <2>2, <2>3, <2>4, <2>5, <2>6, <2>7 DEF Next, BTransport
<1> QED
  BY <1>2, <1>3, PTL DEF SafetySpec

-----------------------------------------------------------------------------
(* MTIP and the wake-up *)

\* With no notification due in this instant MTIP is right and a compare value
\* that lies ahead has its wake-up at Goal, which wraps; a thread that has
\* been woken finds no notification but one of this instant, so that the
\* earlier of two notifications is never one of an old compare value.
ArmedInv ==
    /\ proc # "ready" /\ cmpEvent # now =>
        /\ mtip <=> Reached
        /\ mtimecmp # 0 /\ ~Reached => cmpEvent = Goal(mtimecmp)
    /\ proc = "ready" => cmpEvent \in {now, Never}

\* The invariant both results need.
LEMMA Armed == SafetySpec => []ArmedInv
<1>1. Init => ArmedInv
  BY DEF Init, ArmedInv, Reached
<1>2. TypeOK /\ ArmedInv /\ [Next]_vars => ArmedInv'
  <2> SUFFICES ASSUME TypeOK, ArmedInv, [Next]_vars PROVE ArmedInv'
    OBVIOUS
  <2>1. CASE BTransport
    BY <2>1 DEF BTransport, WriteMsip, WriteMtimecmp, ArmedInv, Reached, NowMtime
  <2>2. CASE StartTimerProc
    BY <2>2 DEF StartTimerProc, ArmedInv, Reached, NowMtime
  <2>3. CASE TimerProc
    <3>1. proc' = "waiting" /\ now' = now /\ mtimecmp' = mtimecmp /\ mtip' = Reached
      BY <2>3 DEF TimerProc
    <3>2. Reached' = Reached
      BY <3>1 DEF Reached, NowMtime
    <3>3. mtimecmp # 0 /\ ~Reached => cmpEvent' \in {now, Goal(mtimecmp)}
      <4>1. cmpEvent \in {now, Never}
        BY <2>3 DEF TimerProc, ArmedInv
      <4>2. Goal(mtimecmp) \in 0 .. Word - 1 /\ now \in Nat /\ Word \in Nat /\ now < Word
        BY CompareTyped, ClintAssumption DEF TypeOK, Word
      <4>3. ASSUME mtimecmp # 0, ~Reached
            PROVE  cmpEvent' = Earlier(cmpEvent, IF Goal(mtimecmp) > now THEN Goal(mtimecmp) ELSE now)
        BY <2>3, <4>3 DEF TimerProc, Reschedule
      <4> QED
        BY <4>1, <4>2, <4>3 DEF Earlier, Never
    <3> QED
      BY <3>1, <3>2, <3>3 DEF ArmedInv
  <2>4. CASE DeltaNotify
    BY <2>4 DEF DeltaNotify, ArmedInv
  <2>5. CASE AdvanceTime
    <3>1. /\ proc = "waiting" /\ cmpEvent # now /\ now' = now + 1
          /\ mtimecmp' = mtimecmp /\ mtip' = mtip
          /\ \/ cmpEvent' = Never /\ proc' = "ready"
             \/ UNCHANGED <<cmpEvent, proc>> /\ cmpEvent # now + 1
      BY <2>5 DEF AdvanceTime
    <3>2. CASE proc' = "ready"
      BY <3>1, <3>2 DEF ArmedInv
    <3>3. CASE proc' # "ready"
      <4>1. cmpEvent' = cmpEvent /\ cmpEvent # now + 1
        BY <3>1, <3>3
      <4>2. now \in Nat /\ cmpEvent \in Nat /\ cmpEvent >= now /\ Scaler \in Nat \ {0}
        BY ClintAssumption DEF TypeOK, Never, Word
      <4>3. mtimecmp \in Nat /\ mtimecmp * Scaler \in Nat /\ Goal(mtimecmp) <= mtimecmp * Scaler
        BY CompareTyped DEF TypeOK
      <4>4. now \div Scaler >= mtimecmp <=> now >= mtimecmp * Scaler
        BY <4>2, <4>3, DivBound
      <4>5. (now + 1) \div Scaler >= mtimecmp <=> now + 1 >= mtimecmp * Scaler
        BY <4>2, <4>3, DivBound
      <4>6. mtimecmp # 0 /\ ~Reached => cmpEvent = Goal(mtimecmp)
        BY <3>1 DEF ArmedInv
      <4>7. Reached' <=> Reached
        BY <3>1, <4>1, <4>2, <4>3, <4>4, <4>5, <4>6 DEF Reached, NowMtime
      <4>8. mtip <=> Reached
        BY <3>1 DEF ArmedInv
      <4> QED
        BY <3>1, <3>3, <4>1, <4>6, <4>7, <4>8 DEF ArmedInv
    <3> QED
      BY <3>2, <3>3
  <2>6. CASE UNCHANGED vars
    BY <2>6 DEF vars, ArmedInv, Reached, NowMtime
  <2> QED
    BY <2>1, <2>2, <2>3, <2>4, <2>5, <2>6 DEF Next
<1> QED
  BY <1>1, <1>2, TypeCorrect, PTL DEF SafetySpec

\* At the end of every instant MTIP is high exactly when the compare time has
\* been reached, also for compare values whose product with kScaler wraps:
\* such a value keeps timer_proc busy in one instant, it never shows a wrong
\* level.
THEOREM MtipCorrect == SafetySpec => []MtipMatchesCompare
<1>1. ArmedInv => MtipMatchesCompare
  BY DEF ArmedInv, MtipMatchesCompare, Settled
<1> QED
  BY <1>1, Armed, PTL

\* Software stays below the compare values whose product wraps.
NoWrap == \A cmp \in CmpValues : cmp * Scaler < Word

\* While the product does not wrap, the wake-up is pending at exactly the
\* compare time whenever it lies ahead.
THEOREM WakeupExact ==
    ASSUME NoWrap
    PROVE  SafetySpec => []WakeupArmed
<1>1. TypeOK /\ ArmedInv => WakeupArmed
  <2> SUFFICES ASSUME TypeOK, ArmedInv PROVE WakeupArmed
    OBVIOUS
  <2>1. Goal(mtimecmp) = mtimecmp * Scaler
    BY CompareTyped DEF NoWrap, TypeOK
  <2> QED
    BY <2>1 DEF ArmedInv, WakeupArmed, Settled
<1> QED
  BY <1>1, TypeCorrect, Armed, PTL

-----------------------------------------------------------------------------
(* The abstract timer *)

\* Every step of the CLINT is a step of the compare timer or a stutter; in
\* particular time passes only while MTIP is right.
THEOREM CompareTimerImplemented == SafetySpec => Abstract!TSafety
<1>1. Init => Abstract!TInit
  BY DEF Init, Abstract!TInit
<1>2. TypeOK /\ ArmedInv /\ [Next]_vars => [Abstract!TNext]_(Abstract!tvars)
  <2> SUFFICES ASSUME TypeOK, ArmedInv, [Next]_vars
               PROVE  Abstract!TNext \/ UNCHANGED Abstract!tvars
    OBVIOUS
  <2> USE DEF Abstract!TNext, Abstract!tvars
  <2>1. Abstract!Due = Reached
    BY DEF Abstract!Due, Reached, NowMtime
  <2>2. ASSUME NEW bit \in BOOLEAN, WriteMsip(bit) PROVE UNCHANGED Abstract!tvars
    BY <2>2 DEF WriteMsip
  <2>3. ASSUME NEW hi \in 0 .. MaxHigh, NEW lo \in HalfWord, WriteMtimecmp(hi, lo)
        PROVE  Abstract!SetCompare
    BY <2>3, SlicesTyped DEF WriteMtimecmp, TypeOK, Abstract!SetCompare
  <2>4. CASE StartTimerProc \/ DeltaNotify
    BY <2>4 DEF StartTimerProc, DeltaNotify
  <2>5. CASE TimerProc
    BY <2>1, <2>5 DEF TimerProc, Abstract!Settle
  <2>6. CASE AdvanceTime
    <3>1. mtip = Reached
      <4>1. mtip <=> Reached
        BY <2>6 DEF AdvanceTime, ArmedInv
      <4>2. mtip \in BOOLEAN /\ Reached \in BOOLEAN
        BY DEF TypeOK, Reached
      <4> QED
        BY <4>1, <4>2
    <3> QED
      BY <2>1, <2>6, <3>1 DEF AdvanceTime, Abstract!Pass
  <2>7. CASE UNCHANGED vars
    BY <2>7 DEF vars
  <2> QED
    BY <2>2, <2>3, <2>4, <2>5, <2>6, <2>7 DEF Next, BTransport
<1> QED
  BY <1>1, <1>2, TypeCorrect, Armed, PTL DEF SafetySpec, Abstract!TSafety

=============================================================================
