--------------------------- MODULE CounterProofs ----------------------------
(***************************************************************************)
(* Proofs about the two counters of the peripherals.  The timer, for any   *)
(* counter range: its types, the interrupt line against the status flag,   *)
(* the reset input and the external clock.  The PWM generator, for any     *)
(* widths and any register values: types, and the exact number of high     *)
(* ticks in a period.  The two share no state: neither's theorems use the  *)
(* other's definitions or assumption.                                      *)
(***************************************************************************)
EXTENDS Timer, Pwm, Integers, TLAPS

-----------------------------------------------------------------------------
(* The timer *)

\* Type correctness: the unsigned counter never underflows, whatever wakes
\* timer_thread and whatever software writes meanwhile.
THEOREM TypeCorrect == SafetySpec => []TypeOK
<1> USE TimerAssumption DEF Count, Void
<1>1. Init => TypeOK
  <2> SUFFICES ASSUME Init PROVE TypeOK
    OBVIOUS
  <2>1. value \in Count /\ reload \in Count /\ ideal \in Count \cup {Void}
    BY DEF Init
  <2>2. ctrl \in SUBSET CtrlBit /\ loc \in Waits
    BY DEF Init, Waits
  <2> QED
    BY <2>1, <2>2 DEF Init, TypeOK
<1>2. TypeOK /\ [Next]_vars => TypeOK'
  <2> SUFFICES ASSUME TypeOK, [Next]_vars PROVE TypeOK'
    OBVIOUS
  <2> USE DEF TypeOK, Waits, registers, signals
  <2>1. CASE Software
    <3>1. ideal' \in Count \cup {Void}
      BY <2>1 DEF Software
    <3>2. ASSUME NEW bits \in SUBSET CtrlBit, WriteCtrl(bits) PROVE TypeOK'
      BY <3>1, <3>2 DEF WriteCtrl, NotifyUpdate
    <3>3. ASSUME NEW n \in Count, WriteValue(n) \/ WriteReload(n) PROVE TypeOK'
      BY <3>1, <3>3 DEF WriteValue, WriteReload, NotifyUpdate
    <3>4. CASE ClearIntStatus
      BY <3>1, <3>4 DEF ClearIntStatus, NotifyClear
    <3> QED
      BY <2>1, <3>2, <3>3, <3>4 DEF Software
  <2>2. CASE TimerThread
    <3>1. CASE ~prstn /\ Reset
      <4>1. value' \in Count /\ reload' \in Count /\ ctrl' \in SUBSET CtrlBit
        BY <3>1 DEF Reset
      <4>2. loc' = "reset" /\ ideal' = Void
        BY <2>2, <3>1 DEF TimerThread, Reset
      <4>3. intrStatus' \in BOOLEAN /\ intrClear' \in BOOLEAN /\ written' \in BOOLEAN
        BY <3>1 DEF Reset
      <4> QED
        BY <2>2, <4>1, <4>2, <4>3 DEF TimerThread
    <3>2. CASE prstn /\ loc' = NextWait
      <4>1. value' \in Count
        BY <2>2, <3>2 DEF TimerThread, Reset, Step, CountDown
      <4>2. intrStatus' \in BOOLEAN /\ intrClear' \in BOOLEAN /\ written' \in BOOLEAN
        <5>1. Step \/ UNCHANGED <<value, intrStatus, intrClear, written>>
          BY <2>2, <3>2 DEF TimerThread, Reset
        <5>2. CASE Step
          BY <5>2, Zenon DEF Step, CountDown
        <5> QED
          BY <5>1, <5>2
      <4>3. loc' \in Waits /\ ctrl' = ctrl /\ reload' = reload
        BY <2>2, <3>2 DEF TimerThread, NextWait
      <4>4. ideal' \in Count \cup {Void}
        BY <2>2, <4>1 DEF TimerThread
      <4> QED
        BY <2>2, <4>1, <4>2, <4>3, <4>4 DEF TimerThread
    <3> QED
      BY <2>2, <3>1, <3>2 DEF TimerThread
  <2>3. CASE TickPeriod
    BY <2>3 DEF TickPeriod
  <2>4. ASSUME NEW reset \in BOOLEAN, NEW ext \in BOOLEAN, UpdatePhase(reset, ext)
        PROVE  TypeOK'
    <3>1. ideal' \in Count \cup {Void}
      BY <2>4 DEF UpdatePhase
    <3>2. runnable' \in BOOLEAN
      BY <2>4 DEF UpdatePhase, WokenBy
    <3> QED
      BY <2>4, <3>1, <3>2 DEF UpdatePhase
  <2>5. CASE UNCHANGED vars
    BY <2>5 DEF vars
  <2> QED
    BY <2>1, <2>2, <2>3, <2>4, <2>5 DEF Next
<1> QED
  BY <1>1, <1>2, PTL DEF SafetySpec

-----------------------------------------------------------------------------
(* The interrupt line *)

\* A line driven high without a status flag is owed a clear, also before the
\* update phase shows it.
LineInv == written /\ ~intrStatus => intrClear

\* The line outlives INTSTATUS only while intr_clear_inc holds the clear, for
\* every order of clears, expiries, enabling and resets.
THEOREM LineOwedClear == SafetySpec => []LineOutlivesStatusOnlyIfClearOwed
<1>1. Init => LineInv
  BY DEF Init, LineInv
<1>2. TypeOK /\ LineInv /\ [Next]_vars => LineInv'
  <2> SUFFICES ASSUME TypeOK, LineInv, [Next]_vars PROVE LineInv'
    OBVIOUS
  <2> USE DEF LineInv, registers
  <2>1. CASE Software
    BY <2>1 DEF Software, WriteCtrl, WriteValue, WriteReload, ClearIntStatus
  <2>2. CASE TimerThread
    <3>1. CASE Reset
      BY <3>1 DEF Reset
    <3>2. CASE Step
      BY <3>2 DEF Step, CountDown
    <3>3. CASE UNCHANGED <<value, intrStatus, intrClear, written>>
      BY <3>3
    <3> QED
      BY <2>2, <3>1, <3>2, <3>3 DEF TimerThread
  <2>3. CASE TickPeriod
    BY <2>3 DEF TickPeriod
  <2>4. ASSUME NEW reset \in BOOLEAN, NEW ext \in BOOLEAN, UpdatePhase(reset, ext)
        PROVE  LineInv'
    BY <2>4 DEF UpdatePhase
  <2>5. CASE UNCHANGED vars
    BY <2>5 DEF vars
  <2> QED
    BY <2>1, <2>2, <2>3, <2>4, <2>5 DEF Next
<1>3. LineInv => LineOutlivesStatusOnlyIfClearOwed
  BY DEF LineInv, LineOutlivesStatusOnlyIfClearOwed, Settled
<1> QED
  BY <1>1, <1>2, <1>3, TypeCorrect, PTL DEF SafetySpec

-----------------------------------------------------------------------------
(* The reset input *)

\* A thread that is not runnable waits at the reset wait exactly while prstn
\* is low, because every other wait lists the falling edge and the reset wait
\* the rising one; at the reset wait the line has been driven low.
ResetInv ==
    /\ ~runnable => loc # "start" /\ (loc = "reset" <=> ~prstn)
    /\ loc = "reset" => ~written

\* No reset pulse is missed, from any wait statement and however short.
THEOREM ResetSeen == SafetySpec => []ResetHonoured
<1>1. Init => ResetInv
  BY DEF Init, ResetInv
<1>2. TypeOK /\ ResetInv /\ [Next]_vars => ResetInv'
  <2> SUFFICES ASSUME TypeOK, ResetInv, [Next]_vars PROVE ResetInv'
    OBVIOUS
  <2> USE DEF ResetInv, registers, signals
  <2>1. CASE Software
    <3>1. loc' = loc /\ written' = written /\ prstn' = prstn
      BY <2>1 DEF Software, WriteCtrl, WriteValue, WriteReload, ClearIntStatus
    <3>2. NotifyUpdate \/ NotifyClear
      BY <2>1 DEF Software, WriteCtrl, WriteValue, WriteReload, ClearIntStatus
    <3>3. ~runnable' => ~runnable
      BY <3>2, Zenon DEF NotifyUpdate, NotifyClear
    <3> QED
      BY <3>1, <3>3
  <2>2. CASE TimerThread
    BY <2>2 DEF TimerThread, Reset, NextWait
  <2>3. CASE TickPeriod
    BY <2>3 DEF TickPeriod
  <2>4. ASSUME NEW reset \in BOOLEAN, NEW ext \in BOOLEAN, UpdatePhase(reset, ext)
        PROVE  ResetInv'
    BY <2>4 DEF UpdatePhase, WokenBy, TypeOK, Waits
  <2>5. CASE UNCHANGED vars
    BY <2>5 DEF vars
  <2> QED
    BY <2>1, <2>2, <2>3, <2>4, <2>5 DEF Next
<1>3. ResetInv => ResetHonoured
  BY DEF ResetInv, ResetHonoured, Settled
<1> QED
  BY <1>1, <1>2, <1>3, TypeCorrect, PTL DEF SafetySpec

-----------------------------------------------------------------------------
(* The external clock *)

Counted(n) == IF n = 0 THEN reload ELSE n - 1

\* While the ideal counter is compared with, the thread is at the wait for
\* extin and owes no clear.  Runnable, it was woken by a reset or by one
\* rising edge the ideal counter has counted already and value_reg has not.
ClockInv ==
    ideal # Void =>
        /\ loc = "extclk" /\ ~intrClear
        /\ ~runnable => value = ideal
        /\ runnable => ~prstn \/ (extin /\ ideal = Counted(value))

\* Between register accesses every rising edge of extin counts exactly once.
THEOREM ExternalClock == SafetySpec => []ExternalClockExact
<1>1. Init => ClockInv
  BY DEF Init, ClockInv
<1>2. TypeOK /\ ClockInv /\ [Next]_vars => ClockInv'
  <2> SUFFICES ASSUME TypeOK, ClockInv, [Next]_vars PROVE ClockInv'
    OBVIOUS
  <2> USE DEF ClockInv, Counted, registers, signals
  <2>1. CASE Software
    BY <2>1 DEF Software
  <2>2. CASE TimerThread
    <3>1. CASE ideal' = Void
      BY <3>1
    <3>2. CASE ideal' # Void
      <4>1. loc' = "extclk" /\ ~intrClear' /\ ~runnable'
        BY <2>2, <3>2 DEF TimerThread
      <4>2. prstn
        BY <2>2, <4>1 DEF TimerThread, Reset
      <4>3. CASE ideal = Void
        BY <2>2, <3>2, <4>1, <4>3 DEF TimerThread
      <4>4. CASE ideal # Void
        <5>1. ideal' = ideal /\ Step
          BY <2>2, <3>2, <4>2, <4>4 DEF TimerThread, Reset
        <5>2. value' = ideal
          BY <2>2, <4>2, <4>4, <5>1 DEF TimerThread, Step, CountDown
        <5> QED
          BY <4>1, <5>1, <5>2
      <4> QED
        BY <4>3, <4>4
    <3> QED
      BY <3>1, <3>2
  <2>3. CASE TickPeriod
    BY <2>3 DEF TickPeriod
  <2>4. ASSUME NEW reset \in BOOLEAN, NEW ext \in BOOLEAN, UpdatePhase(reset, ext)
        PROVE  ClockInv'
    <3>1. CASE ideal = Void
      BY <2>4, <3>1 DEF UpdatePhase
    <3>2. CASE ideal # Void /\ ext /\ ~extin
      BY <2>4, <3>2 DEF UpdatePhase, WokenBy
    <3>3. CASE ideal # Void /\ ~(ext /\ ~extin)
      BY <2>4, <3>3 DEF UpdatePhase, WokenBy
    <3> QED
      BY <3>1, <3>2, <3>3
  <2>5. CASE UNCHANGED vars
    BY <2>5 DEF vars
  <2> QED
    BY <2>1, <2>2, <2>3, <2>4, <2>5 DEF Next
<1>3. ClockInv => ExternalClockExact
  BY DEF ClockInv, ExternalClockExact
<1> QED
  BY <1>1, <1>2, <1>3, TypeCorrect, PTL DEF SafetySpec

-----------------------------------------------------------------------------
(* The PWM generator *)

\* Type correctness: the counter stays a 16-bit value across every write.
THEOREM PwmTypeCorrect == PwmSpec => []PwmTypeOK
<1>1. PwmInit => PwmTypeOK
  <2> SUFFICES ASSUME PwmInit PROVE PwmTypeOK
    OBVIOUS
  <2>1. counter \in 0 .. Half - 1 /\ period \in PeriodValues
    BY PwmAssumption DEF PwmInit
  <2>2. ticks \in 0 .. period /\ highs \in 0 .. ticks
    BY <2>1, PwmAssumption DEF PwmInit
  <2> QED
    BY <2>1, <2>2 DEF PwmInit, PwmTypeOK
<1>2. PwmTypeOK /\ [PwmNext]_pwmVars => PwmTypeOK'
  <2> SUFFICES ASSUME PwmTypeOK, [PwmNext]_pwmVars PROVE PwmTypeOK'
    OBVIOUS
  <2>1. CASE WriteReg
    <3>1. period' \in Nat
      <4>1. period' \in PeriodValues
        BY <2>1 DEF WriteReg, PwmTypeOK
      <4> QED
        BY <4>1, PwmAssumption
    <3>2. ticks' \in 0 .. period' /\ highs' \in 0 .. ticks'
      BY <2>1, <3>1 DEF WriteReg, NewWindow
    <3> QED
      BY <2>1, <3>2 DEF WriteReg, NewWindow, PwmTypeOK
  <2>2. CASE PwmThread
    <3>1. period \in Nat \ {0} /\ Half \in Nat \ {0} /\ counter \in Nat
      BY PwmAssumption DEF PwmTypeOK
    <3>2. ((counter + 1) % period) \in Nat
      BY <3>1
    <3>3. counter' \in 0 .. Half - 1
      BY <2>2, <3>1, <3>2 DEF PwmThread, NextCount
    <3>4. out' \in BOOLEAN
      BY <2>2 DEF PwmThread
    <3>5. ticks' \in 0 .. period /\ highs' \in 0 .. ticks'
      BY <2>2, <3>1 DEF PwmThread, PwmTypeOK
    <3> QED
      BY <2>2, <3>3, <3>4, <3>5 DEF PwmThread, regs, PwmTypeOK
  <2>3. CASE UNCHANGED pwmVars
    BY <2>3 DEF pwmVars, regs, PwmTypeOK
  <2> QED
    BY <2>1, <2>2, <2>3 DEF PwmNext
<1> QED
  BY <1>1, <1>2, PTL DEF PwmSpec

-----------------------------------------------------------------------------
(* The phase-shifted counter *)

\* The registers the duty cycle is promised for.
InScope == phase <= period /\ period <= Half

\* What is left of a number below twice the modulus.
LEMMA ModOnce ==
    ASSUME NEW d \in Nat \ {0}, NEW n \in Nat, n < 2 * d
    PROVE  n % d = IF n < d THEN n ELSE n - d
  OBVIOUS

\* The counter minus the phase, modulo the period, without wrapping.
Shifted(count) == IF count < phase THEN count + period - phase ELSE count - phase

\* The difference that wraps at Word, is reduced to the period and narrowed to
\* 16 bits is the shifted counter.
LEMMA ShiftExact ==
    ASSUME PwmTypeOK, InScope, NEW count \in Nat, count < period
    PROVE  /\ Shifted(count) \in 0 .. period - 1
           /\ IsHigh(count) <=> pwmEn /\ Shifted(count) < duty
<1>1. /\ Word \in Nat \ {0} /\ Half \in Nat \ {0} /\ 2 * Half <= Word
      /\ period \in Nat \ {0} /\ phase \in Nat /\ phase <= period /\ period <= Half
  BY PwmAssumption DEF PwmTypeOK, InScope
<1> DEFINE n == count + period - phase
           w == (count + period + Word) - phase
<1>2. n \in Nat /\ n < 2 * period /\ n < Word /\ w \in Nat /\ w = n + Word
  BY <1>1
<1> HIDE DEF n, w
<1>3. w % Word = n
  BY <1>1, <1>2, ModOnce
<1>4. n % period = Shifted(count) /\ Shifted(count) \in 0 .. period - 1
  <2>1. n % period = IF n < period THEN n ELSE n - period
    BY <1>1, <1>2, ModOnce
  <2> QED
    BY <1>1, <2>1 DEF n, Shifted
<1>5. (n % period) % Half = Shifted(count)
  BY <1>1, <1>4
<1> QED
  BY <1>3, <1>4, <1>5 DEF IsHigh, w

-----------------------------------------------------------------------------
(* High ticks *)

Least(m, n) == IF m < n THEN m ELSE n

\* Of the t shifted counts that end in s, those below the duty register: the
\* counts s - t + 1 .. s, or, where the counter wrapped in the window, 0 .. s
\* and the last ones of the period.
Active(t, s) ==
    LET d == Least(duty, period)
    IN  IF s + 1 >= t THEN Least(s + 1, d) - Least(s + 1 - t, d)
        ELSE (Least(s + 1, d) + d) - Least(s + 1 + period - t, d)

\* High ticks so far, of t ticks.
HighsAfter(t, s) ==
    LET active == IF pwmEn THEN Active(t, s) ELSE 0
    IN  IF invert THEN t - active ELSE active

\* In a window that has begun the counter is within the period, whatever the
\* period before it left behind, and the high ticks are those of the shifted
\* counts passed so far.
WindowInv ==
    ticks > 0 /\ InScope => counter < period /\ highs = HighsAfter(ticks, Shifted(counter))

\* The count of active ticks is a number.
LEMMA ActiveTyped ==
    ASSUME period \in Nat, duty \in Nat, NEW t \in Nat, NEW s \in Int
    PROVE  Active(t, s) \in Int
  BY DEF Active, Least

\* One more tick.
LEMMA ActiveStep ==
    ASSUME period \in Nat \ {0}, duty \in Nat,
           NEW t \in Nat, t < period, NEW s \in 0 .. period - 1,
           NEW s1 \in 0 .. period - 1,
           t > 0 => s1 = IF s + 1 = period THEN 0 ELSE s + 1
    PROVE  Active(t + 1, s1)
             = (IF t = 0 THEN 0 ELSE Active(t, s)) + (IF s1 < duty THEN 1 ELSE 0)
<1>1. CASE t = 0
  BY <1>1 DEF Active, Least
<1>2. CASE t > 0 /\ s + 1 = period
  BY <1>2 DEF Active, Least
<1>3. CASE t > 0 /\ s + 1 # period /\ s + 1 >= t
  BY <1>3 DEF Active, Least
<1>4. CASE t > 0 /\ s + 1 # period /\ ~(s + 1 >= t)
  BY <1>4 DEF Active, Least
<1> QED
  BY <1>1, <1>2, <1>3, <1>4

\* A whole period passes every shifted count once.
LEMMA ActivePeriod ==
    ASSUME period \in Nat \ {0}, duty \in Nat, NEW s \in 0 .. period - 1
    PROVE  Active(period, s) = Least(duty, period)
<1>1. CASE s + 1 >= period
  BY <1>1 DEF Active, Least
<1>2. CASE ~(s + 1 >= period)
  BY <1>2 DEF Active, Least
<1> QED
  BY <1>1, <1>2

\* Every period of unchanged registers has exactly the programmed number of
\* high ticks, for every duty, phase and inversion, whatever counter value an
\* earlier period left behind.
THEOREM DutyIsExact == PwmSpec => []DutyExact
<1>1. PwmInit => WindowInv
  BY DEF PwmInit, WindowInv
<1>2. PwmTypeOK /\ PwmTypeOK' /\ WindowInv /\ [PwmNext]_pwmVars => WindowInv'
  <2> SUFFICES ASSUME PwmTypeOK, WindowInv, [PwmNext]_pwmVars PROVE WindowInv'
    OBVIOUS
  <2>1. CASE WriteReg
    BY <2>1 DEF WriteReg, NewWindow, WindowInv
  <2>2. CASE PwmThread
    <3> SUFFICES ASSUME InScope'
                 PROVE  counter' < period' /\ highs' = HighsAfter(ticks, Shifted(counter))'
      BY DEF WindowInv
    <3>1. UNCHANGED regs /\ InScope
      BY <2>2 DEF PwmThread, regs, InScope
    <3>2. /\ period \in Nat \ {0} /\ Half \in Nat \ {0} /\ period <= Half /\ phase <= period
          /\ counter \in Nat /\ duty \in Nat /\ phase \in Nat /\ ticks \in 0 .. period
          /\ highs \in Nat
      BY <3>1, PwmAssumption DEF PwmTypeOK, InScope
    <3> DEFINE n == IF ticks = period THEN 0 ELSE ticks
               h == IF ticks = period THEN 0 ELSE highs
               c1 == (counter + 1) % period
               s == Shifted(counter)
               s1 == Shifted(c1)
    <3>3. n \in Nat /\ n < period /\ (n > 0 => n = ticks /\ h = highs) /\ (n = 0 => ticks \in {0, period})
      BY <3>2
    <3>4. c1 \in Nat /\ c1 < period
      BY <3>2
    <3>5. counter' = c1
      BY <2>2, <3>2, <3>4 DEF PwmThread, NextCount
    <3>6. ticks' = n + 1 /\ highs' = IF out' THEN h + 1 ELSE h
      BY <2>2 DEF PwmThread
    <3>7. s1 \in 0 .. period - 1 /\ (IsHigh(c1) <=> pwmEn /\ s1 < duty)
      BY <3>1, <3>4, ShiftExact
    <3>8. n > 0 => counter < period /\ h = HighsAfter(n, s)
      BY <3>1, <3>3 DEF WindowInv
    <3>9. Active(n + 1, s1)
            = (IF n = 0 THEN 0 ELSE Active(n, s)) + (IF s1 < duty THEN 1 ELSE 0)
      <4> HIDE DEF n, c1
      <4>1. CASE n = 0
        <5>1. 0 \in 0 .. period - 1
          BY <3>2
        <5> QED
          BY <3>2, <3>3, <3>7, <4>1, <5>1, ActiveStep
      <4>2. CASE n > 0
        <5>1. s \in 0 .. period - 1
          BY <3>1, <3>2, <3>8, <4>2, ShiftExact
        <5>2. c1 = IF counter + 1 < period THEN counter + 1 ELSE 0
          <6>1. counter + 1 \in Nat /\ counter + 1 < 2 * period /\ counter < period
            BY <3>2, <3>8, <4>2
          <6> DEFINE m == counter + 1
          <6> HIDE DEF m
          <6>2. m % period = IF m < period THEN m ELSE m - period
            BY <3>2, <6>1, ModOnce DEF m
          <6> QED
            BY <3>2, <6>1, <6>2 DEF c1, m
        <5>3. s1 = IF s + 1 = period THEN 0 ELSE s + 1
          BY <3>2, <3>8, <4>2, <5>2 DEF Shifted
        <5> HIDE DEF s, s1
        <5> QED
          BY <3>2, <3>3, <3>7, <4>2, <5>1, <5>3, ActiveStep
      <4> QED
        BY <3>3, <4>1, <4>2
    <3>10. HighsAfter(ticks, Shifted(counter))' = HighsAfter(n + 1, s1)
      BY <3>1, <3>5, <3>6 DEF regs, HighsAfter, Active, Shifted, Least
    <3>11. out' = ((pwmEn /\ s1 < duty) # invert)
      <4>1. out' = (IsHigh(c1) # invert)
        BY <2>2, <3>5, Zenon DEF PwmThread
      <4>2. IsHigh(c1) = (pwmEn /\ s1 < duty)
        BY <3>7, Zenon DEF IsHigh
      <4> QED
        BY <4>1, <4>2, Zenon
    <3>12. highs' = HighsAfter(n + 1, s1)
      <4>1. n = 0 => h = 0
        BY <3>2, <3>3, ticks = 0 => highs = 0 DEF PwmTypeOK
      <4> HIDE DEF n, h, s, s1
      <4>2. CASE ~pwmEn
        BY <3>3, <3>6, <3>8, <3>11, <4>1, <4>2 DEF HighsAfter, PwmTypeOK
      <4>3. CASE pwmEn
        <5> DEFINE old == IF n = 0 THEN 0 ELSE Active(n, s)
                   one == IF s1 < duty THEN 1 ELSE 0
        <5>1. old \in Int /\ h = IF invert THEN n - old ELSE old
          <6>1. s \in Int
            BY <3>2 DEF s, Shifted
          <6>2. Active(n, s) \in Int
            BY <3>2, <3>3, <6>1, ActiveTyped
          <6> QED
            BY <3>3, <3>8, <4>1, <4>3, <6>2 DEF HighsAfter
        <5>2. HighsAfter(n + 1, s1) = IF invert THEN n + 1 - (old + one) ELSE old + one
          <6>1. Active(n + 1, s1) = old + one
            BY <3>9
          <6>2. old \in Int /\ one \in Int /\ n \in Nat
            BY <3>3, <5>1
          <6> HIDE DEF old, one
          <6> QED
            BY <4>3, <6>1, <6>2 DEF HighsAfter
        <5>3. highs' = h + (IF invert THEN 1 - one ELSE one)
          <6>1. h \in Nat
            BY <3>2 DEF h
          <6>2. out' <=> (s1 < duty <=> ~invert)
            BY <3>11, <4>3, Zenon DEF PwmTypeOK
          <6> QED
            BY <3>6, <6>1, <6>2 DEF PwmTypeOK
        <5> HIDE DEF old
        <5> QED
          BY <3>3, <5>1, <5>2, <5>3
      <4> QED
        BY <4>2, <4>3
    <3> QED
      BY <3>1, <3>4, <3>5, <3>10, <3>12 DEF regs
  <2>3. CASE UNCHANGED pwmVars
    BY <2>3 DEF pwmVars, regs, WindowInv, InScope, HighsAfter, Active, Shifted, Least
  <2> QED
    BY <2>1, <2>2, <2>3 DEF PwmNext
<1>3. PwmTypeOK /\ WindowInv => DutyExact
  <2> SUFFICES ASSUME PwmTypeOK, WindowInv, ticks = period, InScope PROVE highs = HighTicks
    BY DEF DutyExact, InScope
  <2>1. period \in Nat \ {0} /\ duty \in Nat /\ counter \in Nat
    BY PwmAssumption DEF PwmTypeOK
  <2>2. counter < period /\ highs = HighsAfter(period, Shifted(counter))
    BY <2>1 DEF WindowInv
  <2>3. Shifted(counter) \in 0 .. period - 1
    BY <2>1, <2>2, ShiftExact
  <2>4. Active(period, Shifted(counter)) = Least(duty, period)
    BY <2>1, <2>3, ActivePeriod
  <2> QED
    BY <2>2, <2>4 DEF HighsAfter, HighTicks, Least
<1> QED
  BY <1>1, <1>2, <1>3, PwmTypeCorrect, PTL DEF PwmSpec

=============================================================================
