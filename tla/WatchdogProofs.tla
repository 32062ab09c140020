--------------------------- MODULE WatchdogProofs ---------------------------
(***************************************************************************)
(* Proofs about the watchdog for any load range: its types, the agreement  *)
(* of its output signals with its registers, and the exact timing of the   *)
(* two-stage timeout.                                                      *)
(***************************************************************************)
EXTENDS Watchdog, TLAPS

\* Type correctness: in particular m_counter never exceeds m_load, whatever
\* the order of load writes, services and ticks.
THEOREM TypeCorrect == SafetySpec => []TypeOK
<1> USE WatchdogAssumption DEF LoadValue, QuietCap
<1>1. Init => TypeOK
  <2> SUFFICES ASSUME Init PROVE TypeOK
    OBVIOUS
  <2>1. /\ load \in LoadValue /\ counter \in 0 .. load
        /\ accesses \in 0 .. MaxAccess
        /\ quiet \in 0 .. QuietCap /\ needed \in 0 .. QuietCap
    BY DEF Init
  <2>2. /\ written \in [irq : BOOLEAN, reset : BOOLEAN]
        /\ out \in [irq : BOOLEAN, reset : BOOLEAN]
    BY DEF Init, Low
  <2> QED
    BY <2>1, <2>2 DEF Init, TypeOK
<1>2. TypeOK /\ [Next]_vars => TypeOK'
  <2> SUFFICES ASSUME TypeOK, [Next]_vars PROVE TypeOK'
    OBVIOUS
  <2> USE DEF TypeOK, registers, levels, kernel, history
  <2>1. CASE BTransport
    <3>1. CASE ReadReg
      BY <3>1 DEF ReadReg, Access, UpdateOutputs
    <3>2. ASSUME NEW key \in BOOLEAN, WriteLock(key) PROVE TypeOK'
      BY <3>2 DEF WriteLock, Access
    <3>3. ASSUME NEW value \in LoadValue, WriteLoad(value) PROVE TypeOK'
      BY <3>3 DEF WriteLoad, Writable, Access, Reloaded
    <3>4. ASSUME NEW ie \in BOOLEAN, NEW re \in BOOLEAN, WriteControl(ie, re)
          PROVE TypeOK'
      BY <3>4 DEF WriteControl, Writable, Access, Reloaded, UpdateOutputs
    <3>5. CASE WriteIntClr
      <4>1. /\ counter' \in 0 .. load' /\ load' \in LoadValue
            /\ accesses' \in 0 .. MaxAccess
        BY <3>5 DEF WriteIntClr, Writable, Access
      <4>2. quiet' \in 0 .. QuietCap /\ needed' \in 0 .. QuietCap
        BY <3>5 DEF WriteIntClr, Reloaded
      <4>3. irqLevel' \in BOOLEAN /\ resetLevel' \in BOOLEAN /\ notified' \in BOOLEAN
        BY <3>5 DEF WriteIntClr, UpdateOutputs
      <4> QED
        BY <3>5, <4>1, <4>2, <4>3 DEF WriteIntClr
    <3> QED
      BY <2>1, <3>1, <3>2, <3>3, <3>4, <3>5 DEF BTransport
  <2>2. CASE CounterThread
    <3>1. CASE ~Counts
      <4>1. /\ UNCHANGED <<counter, ris, resetAsserted, levels, quiet, load, inten, resen>>
            /\ UNCHANGED <<locked, driving, written, out, accesses, needed>>
            /\ ticking' = FALSE
        BY <2>2, <3>1 DEF CounterThread
      <4>2. /\ counter' \in 0 .. load' /\ load' \in LoadValue
            /\ accesses' \in 0 .. MaxAccess
            /\ quiet' \in 0 .. QuietCap /\ needed' \in 0 .. QuietCap
        BY <4>1
      <4>3. /\ inten' \in BOOLEAN /\ resen' \in BOOLEAN
            /\ ris' \in BOOLEAN /\ irqLevel' \in BOOLEAN
            /\ resetAsserted' \in BOOLEAN /\ resetLevel' \in BOOLEAN
            /\ locked' \in BOOLEAN /\ notified' \in BOOLEAN
            /\ driving' \in BOOLEAN /\ ticking' \in BOOLEAN
        BY <4>1
      <4> QED
        BY <4>1, <4>2, <4>3
    <3>2. CASE Counts
      <4>1. quiet' \in 0 .. QuietCap
        BY <2>2, <3>2 DEF CounterThread
      <4>2. counter' \in 0 .. load' /\ load' \in LoadValue
        BY <2>2, <3>2 DEF CounterThread, HandleTimeout
      <4>3. /\ ris' \in BOOLEAN /\ irqLevel' \in BOOLEAN /\ notified' \in BOOLEAN
            /\ resetAsserted' \in BOOLEAN /\ resetLevel' \in BOOLEAN
        BY <2>2, <3>2 DEF CounterThread, HandleTimeout, UpdateOutputs
      <4> QED
        BY <2>2, <4>1, <4>2, <4>3 DEF CounterThread
    <3> QED
      BY <3>1, <3>2
  <2>3. CASE DriveOutputs
    BY <2>3 DEF DriveOutputs
  <2>4. CASE DeltaCycle
    BY <2>4 DEF DeltaCycle
  <2>5. CASE AdvanceTime
    BY <2>5 DEF AdvanceTime
  <2>6. CASE UNCHANGED vars
    BY <2>6 DEF vars
  <2> QED
    BY <2>1, <2>2, <2>3, <2>4, <2>5, <2>6 DEF Next
<1> QED
  BY <1>1, <1>2, PTL DEF SafetySpec

-----------------------------------------------------------------------------
(* The output signals *)

\* The computed levels are never stale, and neither are the written signal
\* values once no run of drive_outputs is due.
OutputsInv ==
    /\ irqLevel = (ris /\ inten)
    /\ resetLevel = resetAsserted
    /\ ~notified /\ ~driving => written = [irq |-> irqLevel, reset |-> resetLevel]

\* At the end of every instant WDOGINT and WDOGRES show the registers.
THEOREM OutputsCorrect == SafetySpec => []OutputsTrackState
<1>1. Init => OutputsInv
  BY DEF Init, OutputsInv
<1>2. OutputsInv /\ [Next]_vars => OutputsInv'
  <2> SUFFICES ASSUME OutputsInv, [Next]_vars PROVE OutputsInv'
    OBVIOUS
  <2> USE DEF OutputsInv, registers, levels, kernel
  <2>1. CASE BTransport
    BY <2>1 DEF BTransport, ReadReg, WriteLock, WriteLoad, WriteControl, WriteIntClr, UpdateOutputs
  <2>2. CASE CounterThread
    BY <2>2 DEF CounterThread, HandleTimeout, UpdateOutputs
  <2>3. CASE DriveOutputs
    BY <2>3 DEF DriveOutputs
  <2>4. CASE DeltaCycle
    BY <2>4 DEF DeltaCycle
  <2>5. CASE AdvanceTime
    BY <2>5 DEF AdvanceTime
  <2>6. CASE UNCHANGED vars
    BY <2>6 DEF vars
  <2> QED
    BY <2>1, <2>2, <2>3, <2>4, <2>5, <2>6 DEF Next
<1>3. OutputsInv => OutputsTrackState
  BY DEF OutputsInv, OutputsTrackState, Quiescent
<1> QED
  BY <1>1, <1>2, <1>3, PTL DEF SafetySpec

-----------------------------------------------------------------------------
(* The two-stage timeout *)

\* Before the first timeout the counted ticks and the counter add up to one
\* period; after it they leave at least the rest of the required time.
TimingInv ==
    /\ ~ris /\ ~resetAsserted => quiet + counter = load /\ needed <= 2 * (load + 1)
    /\ ris /\ ~resetAsserted => quiet >= needed \/ quiet + counter + 1 >= needed
    /\ resetAsserted => quiet >= needed

\* TimingInv is invariant, in every order of services, load writes and ticks.
LEMMA TimingInvariant == SafetySpec => []TimingInv
<1> USE WatchdogAssumption DEF LoadValue, QuietCap
<1>1. Init => TimingInv
  BY DEF Init, TimingInv
<1>2. TypeOK /\ TimingInv /\ [Next]_vars => TimingInv'
  <2> SUFFICES ASSUME TypeOK, TimingInv, [Next]_vars PROVE TimingInv'
    OBVIOUS
  <2> USE DEF TypeOK, TimingInv, registers, history
  <2>1. CASE BTransport
    <3>1. CASE ReadReg
      BY <3>1 DEF ReadReg
    <3>2. ASSUME NEW key \in BOOLEAN, WriteLock(key) PROVE TimingInv'
      BY <3>2 DEF WriteLock
    <3>3. ASSUME NEW value \in LoadValue, WriteLoad(value) PROVE TimingInv'
      BY <3>3 DEF WriteLoad, Reloaded
    <3>4. ASSUME NEW ie \in BOOLEAN, NEW re \in BOOLEAN, WriteControl(ie, re)
          PROVE TimingInv'
      BY <3>4 DEF WriteControl, Reloaded
    <3>5. CASE WriteIntClr
      BY <3>5 DEF WriteIntClr, Reloaded
    <3> QED
      BY <2>1, <3>1, <3>2, <3>3, <3>4, <3>5 DEF BTransport
  <2>2. CASE CounterThread
    <3>1. CASE ~Counts
      BY <2>2, <3>1 DEF CounterThread
    <3>2. CASE Counts /\ counter # 0
      BY <2>2, <3>2 DEF CounterThread, Counts
    <3>3. CASE Counts /\ counter = 0
      BY <2>2, <3>3 DEF CounterThread, Counts, HandleTimeout, SecondTimeout
    <3> QED
      BY <3>1, <3>2, <3>3
  <2>3. CASE DriveOutputs
    BY <2>3 DEF DriveOutputs
  <2>4. CASE DeltaCycle
    BY <2>4 DEF DeltaCycle
  <2>5. CASE AdvanceTime
    BY <2>5 DEF AdvanceTime
  <2>6. CASE UNCHANGED vars
    BY <2>6 DEF vars
  <2> QED
    BY <2>1, <2>2, <2>3, <2>4, <2>5, <2>6 DEF Next
<1> QED
  BY <1>1, <1>2, TypeCorrect, PTL DEF SafetySpec

\* The interrupt comes with exactly the (load + 1)st counted tick.
THEOREM InterruptOnTime == SafetySpec => []InterruptNeverLate
<1>1. TimingInv => InterruptNeverLate
  BY DEF TimingInv, InterruptNeverLate
<1> QED
  BY <1>1, TimingInvariant, PTL

\* No reset before the second timeout of an unserviced interrupt.
THEOREM ResetOnlyAfterSecondTimeout == SafetySpec => []ResetNeverEarly
<1>1. TimingInv => ResetNeverEarly
  BY DEF TimingInv, ResetNeverEarly
<1> QED
  BY <1>1, TimingInvariant, PTL

=============================================================================
