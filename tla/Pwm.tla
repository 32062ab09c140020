-------------------------------- MODULE Pwm ---------------------------------
(***************************************************************************)
(* The PWM generator: pwm_thread advances a 16-bit counter every 10 ns     *)
(* while CFG enables it and compares the phase-shifted counter with the    *)
(* duty register; the registers may be rewritten between any two ticks.    *)
(* Arithmetic wraps as in the code: 32-bit sums, a 16-bit counter.         *)
(* ticks and highs are history variables for the property.                 *)
(***************************************************************************)
EXTENDS Naturals

CONSTANTS Word,          \* modulus of uint32_t
          Half,          \* modulus of uint16_t
          PeriodValues,  \* values software writes to PERIOD, never 0
          PhaseValues,   \* ... to PWM_PARAM0
          DutyValues,    \* ... to DUTY0
          FirstPeriod    \* value the constructor gives PERIOD, 256 in the code

ASSUME PwmAssumption ==
    /\ {Word, Half} \subseteq Nat \ {0} /\ 2 * Half <= Word
    /\ PeriodValues \subseteq 1 .. Word - 1 /\ FirstPeriod \in PeriodValues
    /\ PhaseValues \subseteq 0 .. Word - 1
    /\ DutyValues \subseteq 0 .. Word - 1

VARIABLES
    running,   \* bit 31 of cfg
    pwmEn,     \* bit 0 of pwm_en
    invert,    \* bit 0 of invert
    phase,     \* phase_delay
    duty,      \* duty_cycle
    period,
    counter,
    out,       \* value last written to pwm_out
    ticks,     \* history: counted ticks in the current window, a window being
               \* at most one period of unchanged registers
    highs      \* history: those of them that wrote a high output

regs == <<running, pwmEn, invert, phase, duty, period>>
pwmVars == <<regs, counter, out, ticks, highs>>

PwmInit ==
    /\ running = FALSE /\ pwmEn = FALSE /\ invert = FALSE
    /\ phase = 0 /\ duty = 0
    /\ period = FirstPeriod
    /\ counter = 0
    /\ out = FALSE
    /\ ticks = 0 /\ highs = 0

-----------------------------------------------------------------------------
(* b_transport: a write to one register starts a new window *)

NewWindow == ticks' = 0 /\ highs' = 0 /\ UNCHANGED <<counter, out>>

WriteReg ==
    /\ \/ running' \in BOOLEAN /\ UNCHANGED <<pwmEn, invert, phase, duty, period>>
       \/ pwmEn' \in BOOLEAN /\ UNCHANGED <<running, invert, phase, duty, period>>
       \/ invert' \in BOOLEAN /\ UNCHANGED <<running, pwmEn, phase, duty, period>>
       \/ phase' \in PhaseValues /\ UNCHANGED <<running, pwmEn, invert, duty, period>>
       \/ duty' \in DutyValues /\ UNCHANGED <<running, pwmEn, invert, phase, period>>
       \/ period' \in PeriodValues /\ UNCHANGED <<running, pwmEn, invert, phase, duty>>
    /\ NewWindow

-----------------------------------------------------------------------------
(* pwm_thread *)

\* Fault: the counter is wider than its 16-bit register.
NextCountWide == (counter + 1) % period

NextCount == ((counter + 1) % period) % Half

\* Fault: the duty comparison includes its bound.
IsHighInclusive(count) ==
    pwmEn /\ ((((count + period + Word) - phase) % Word) % period) % Half <= duty

\* The unsigned difference wraps below zero, modulo Word.
IsHigh(count) ==
    pwmEn /\ ((((count + period + Word) - phase) % Word) % period) % Half < duty

PwmThread ==
    /\ running
    /\ counter' = NextCount
    /\ out' = (IsHigh(counter') # invert)
    /\ LET n == IF ticks = period THEN 0 ELSE ticks
           h == IF ticks = period THEN 0 ELSE highs
       IN  ticks' = n + 1 /\ highs' = IF out' THEN h + 1 ELSE h
    /\ UNCHANGED regs

PwmNext == WriteReg \/ PwmThread

PwmSpec == PwmInit /\ [][PwmNext]_pwmVars

-----------------------------------------------------------------------------
(* Properties *)

\* Type invariant; the counter stays a 16-bit value.
PwmTypeOK ==
    /\ running \in BOOLEAN /\ pwmEn \in BOOLEAN /\ invert \in BOOLEAN
    /\ phase \in PhaseValues \cup {0} /\ duty \in DutyValues \cup {0}
    /\ period \in PeriodValues
    /\ counter \in 0 .. Half - 1
    /\ out \in BOOLEAN
    /\ ticks \in 0 .. period /\ highs \in 0 .. ticks

\* Ticks of one period that the generator should output high.
HighTicks ==
    LET active == IF ~pwmEn THEN 0 ELSE IF duty < period THEN duty ELSE period
    IN  IF invert THEN period - active ELSE active

\* README.md, "Duty Cycle Control": every period of unchanged registers has
\* exactly the programmed number of high ticks, whatever the counter value
\* an earlier, longer period left behind, for a phase within the period and
\* a period the 16-bit counter can reach.
DutyExact ==
    ticks = period /\ phase <= period /\ period <= Half => highs = HighTicks

=============================================================================
