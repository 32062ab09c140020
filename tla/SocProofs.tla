----------------------------- MODULE SocProofs ------------------------------
(***************************************************************************)
(* Proofs about the platform with its firmware: it drives both interrupt   *)
(* controllers within their specifications, so what is proved of them      *)
(* alone holds in it; types; the claim and completion protocol of the trap *)
(* handler; and no interrupt vanishes on its way to the hart.              *)
(***************************************************************************)
EXTENDS Soc, TLAPS

PP == INSTANCE PlicProofs WITH NumSources <- 1, MaxPriority <- 1
CP == INSTANCE ClintProofs

-----------------------------------------------------------------------------
(* main *)

\* The index of the first statement after mtimecmp is written.
ArmedAt == IF program = "soc_irq" THEN 10 ELSE 5

\* Where the statements of either main are.
LEMMA Places ==
    ASSUME program \in {"soc_irq", "clint_timer"}, pc \in 1 .. Len(Code[program])
    PROVE  /\ Statement # "done" => pc + 1 \in 1 .. Len(Code[program])
           /\ Statement \in {"mtimeHi", "mtimeLo", "cmpHi", "cmpLo"} => pc < ArmedAt
           /\ Statement = "cmpLo" => pc + 1 = ArmedAt
           /\ pc \in Nat
<1>1. CASE program = "soc_irq"
  <2>1. Code[program] = SocIrqMain /\ Len(SocIrqMain) = 12 /\ ArmedAt = 10
    BY <1>1 DEF Code, SocIrqMain, ArmedAt
  <2>2. pc \in 1 .. 12
    BY <2>1
  <2>3. CASE pc <= 9
    BY <2>1, <2>2, <2>3 DEF Statement, SocIrqMain
  <2>4. CASE pc \in {10, 11, 12}
    BY <2>1, <2>4 DEF Statement, SocIrqMain
  <2> QED
    BY <2>2, <2>3, <2>4
<1>2. CASE program = "clint_timer"
  <2>1. Code[program] = ClintTimerMain /\ Len(ClintTimerMain) = 8 /\ ArmedAt = 5
    BY <1>2 DEF Code, ClintTimerMain, ArmedAt
  <2>2. pc \in 1 .. 8
    BY <2>1
  <2> QED
    BY <2>1, <2>2 DEF Statement, ClintTimerMain
<1> QED
  BY <1>1, <1>2

\* What main has read and written so far: the timer is armed within SetupTime,
\* so both reads of mtime come from the first half word and the compare value
\* needs no carry into the upper half.
MainInv ==
    /\ program \in {"soc_irq", "clint_timer"} /\ pc \in 1 .. Len(Code[program])
    /\ now \in Nat
    /\ hi = 0 /\ lo \in 0 .. SetupTime \div Scaler
    /\ mtimecmp \in 0 .. SetupTime \div Scaler + Delay
    /\ pc < ArmedAt => mtimecmp = 0
    /\ mtimecmp = 0 => now <= SetupTime
    /\ rdata \in 0 .. 1

\* The constants, as the steps below use them.
LEMMA Bounds ==
    /\ Half \in Nat \ {0} /\ Scaler \in Nat \ {0} /\ MaxHigh \in Nat
    /\ SetupTime \in Nat \ {0} /\ Delay \in Nat \ {0}
    /\ SetupTime \div Scaler \in Nat
    /\ SetupTime \div Scaler + Delay < Half
  BY SocAssumption

\* A later time is no earlier tick.
LEMMA TicksMonotone ==
    ASSUME NEW m \in Nat, NEW n \in Nat, m <= n
    PROVE  m \div Scaler \in 0 .. n \div Scaler /\ n \div Scaler \in Nat
<1>1. PICK d \in Nat \ {0} : d = Scaler
  BY Bounds
<1> DEFINE a == m \div d
           b == n \div d
<1>2. /\ a \in Nat /\ m % d \in 0 .. d - 1 /\ m = d * a + (m % d)
      /\ b \in Nat /\ n % d \in 0 .. d - 1 /\ n = d * b + (n % d)
  OBVIOUS
<1> HIDE DEF a, b
<1>3. a <= b
  <2> SUFFICES ASSUME ~(a <= b) PROVE FALSE
    OBVIOUS
  <2>1. b + 1 <= a
    BY <1>2
  <2>2. d * (b + 1) <= d * a
    BY <1>2, <2>1
  <2>3. d * (b + 1) = d * b + d
    BY <1>2
  <2> QED
    BY <1>2, <2>2, <2>3
<1> QED
  BY <1>1, <1>2, <1>3 DEF a, b

\* A number below Half is its own lower half.
LEMMA LowerHalf ==
    ASSUME NEW n \in Nat, n < Half
    PROVE  n % Half = n /\ n \div Half = 0
<1>1. Half \in Nat \ {0}
  BY Bounds
<1> QED
  BY <1>1

\* main keeps MainInv, wherever its instructions fall between the delta cycles
\* of the controllers and whatever interrupts it.
LEMMA MainCorrect == SafetySpec => []MainInv
<1>1. Init => MainInv
  <2> SUFFICES ASSUME Init PROVE MainInv
    OBVIOUS
  <2>1. program \in {"soc_irq", "clint_timer"} /\ pc = 1
    BY SocAssumption DEF Init
  <2>2. 1 \in 1 .. Len(Code[program])
    <3>1. Code["soc_irq"] = SocIrqMain /\ Code["clint_timer"] = ClintTimerMain
      BY DEF Code
    <3>2. Len(SocIrqMain) = 12 /\ Len(ClintTimerMain) = 8
      BY DEF SocIrqMain, ClintTimerMain
    <3> DEFINE n == Len(Code[program])
    <3>3. n \in {12, 8}
      BY <2>1, <3>1, <3>2
    <3> HIDE DEF n
    <3>4. 1 \in 1 .. n
      BY <3>3
    <3> QED
      BY <3>4 DEF n
  <2>3. now = 0 /\ hi = 0 /\ lo = 0 /\ mtimecmp = 0 /\ rdata = 0
    BY DEF Init, C!Init, P!Init
  <2> QED
    BY <2>1, <2>2, <2>3, Bounds DEF MainInv
<1>2. MainInv /\ [Next]_vars => MainInv'
  <2> SUFFICES ASSUME MainInv, [Next]_vars PROVE MainInv'
    OBVIOUS
  <2> DEFINE Moves == /\ program' = program
                      /\ pc' \in 1 .. Len(Code[program])
                      /\ pc' < ArmedAt => pc < ArmedAt
             Quiet == UNCHANGED <<now, hi, lo, mtimecmp>>
  <2>1. program \in {"soc_irq", "clint_timer"} /\ pc \in 1 .. Len(Code[program])
    BY DEF MainInv
  <2>2. ASSUME program' = program PROVE ArmedAt' = ArmedAt
    BY <2>2 DEF ArmedAt
  <2>3. ASSUME NEW s, s # "done", Step(s) PROVE Moves
    <3>1. Statement = s /\ pc' = pc + 1 /\ program' = program
      BY <2>3 DEF Step
    <3>2. pc + 1 \in 1 .. Len(Code[program]) /\ pc \in Nat
      BY <2>1, <2>3, <3>1, Places
    <3>3. ArmedAt \in Nat
      BY DEF ArmedAt
    <3> QED
      BY <3>1, <3>2, <3>3
  <2>4. ASSUME Moves, Quiet, rdata' \in 0 .. 1 PROVE MainInv'
    BY <2>2, <2>4 DEF MainInv
  <2>5. ASSUME UNCHANGED <<program, pc>> PROVE Moves
    BY <2>1, <2>5
  <2> HIDE DEF Moves
  <2>6. CASE ConfigurePlic
    <3>1. Moves
      BY <2>3, <2>6 DEF ConfigurePlic
    <3>2. Quiet /\ rdata' = rdata
      BY <2>6 DEF ConfigurePlic, P!WritePriority, P!WriteEnable, P!WriteThreshold, clintVars, data
    <3> QED
      BY <2>4, <3>1, <3>2 DEF MainInv
  <2>7. CASE EnableInterrupts
    <3>1. Moves
      BY <2>3, <2>7 DEF EnableInterrupts
    <3>2. Quiet /\ rdata' = rdata
      BY <2>7 DEF EnableInterrupts, plicVars, clintVars, data
    <3> QED
      BY <2>4, <3>1, <3>2 DEF MainInv
  <2>8. CASE ReadMtime
    <3>1. Moves
      BY <2>3, <2>8 DEF ReadMtime
    <3>2. UNCHANGED <<now, mtimecmp, rdata>>
      BY <2>8 DEF ReadMtime, plicVars, clintVars
    <3>3. Statement \in {"mtimeHi", "mtimeLo"}
      BY <2>8 DEF ReadMtime, Step
    <3>4. now \in Nat /\ now <= SetupTime
      BY <2>1, <3>3, Places DEF MainInv
    <3> DEFINE m == now \div Scaler
    <3>5. m \in 0 .. SetupTime \div Scaler
      BY <3>4, TicksMonotone, Bounds
    <3>6. C!NowMtime = m
      BY DEF C!NowMtime
    <3> HIDE DEF m
    <3>7. m \in Nat /\ m < Half
      BY <3>5, Bounds
    <3>8. m % Half = m /\ m \div Half = 0
      BY <3>7, LowerHalf
    <3>9. hi' = 0 /\ lo' \in 0 .. SetupTime \div Scaler
      BY <2>8, <3>5, <3>6, <3>8 DEF ReadMtime, MainInv
    <3> QED
      BY <2>2, <3>1, <3>2, <3>9 DEF MainInv, Moves
  <2>9. CASE ArmTimer
    <3>1. Moves
      BY <2>3, <2>9 DEF ArmTimer
    <3>2. UNCHANGED <<now, hi, lo, rdata>>
      BY <2>9 DEF ArmTimer, C!WriteMtimecmp, plicVars, data
    <3>3. mtimecmp = 0
      BY <2>1, <2>9, Places DEF ArmTimer, Step, MainInv
    <3>4. 0 % Half = 0 /\ 0 \div Half = 0
      BY LowerHalf, Bounds
    <3>5. CASE Step("cmpHi") /\ mtimecmp' = hi * Half + (mtimecmp % Half)
      <4>1. mtimecmp' = 0
        BY <3>3, <3>4, <3>5, Bounds DEF MainInv
      <4> QED
        BY <2>2, <3>1, <3>2, <3>3, <4>1 DEF MainInv, Moves
    <3>6. CASE Step("cmpLo") /\ mtimecmp' = (mtimecmp \div Half) * Half + ((lo + Delay) % Half)
      <4>1. lo + Delay \in Nat /\ lo + Delay < Half /\ lo + Delay # 0
            /\ lo + Delay \in 0 .. SetupTime \div Scaler + Delay
        BY Bounds DEF MainInv
      <4>2. (lo + Delay) % Half = lo + Delay
        BY <4>1, LowerHalf
      <4>3. mtimecmp' = lo + Delay
        BY <3>3, <3>4, <3>6, <4>1, <4>2, Bounds
      <4>4. ~(pc' < ArmedAt)
        <5>1. Statement = "cmpLo" /\ pc' = pc + 1
          BY <3>6 DEF Step
        <5>2. pc < ArmedAt /\ pc \in Nat
          BY <2>1, <5>1, Places
        <5>3. pc + 1 = ArmedAt
          BY <2>1, <5>1, Places
        <5> QED
          BY <5>1, <5>2, <5>3
      <4> QED
        BY <2>2, <3>1, <3>2, <4>1, <4>3, <4>4 DEF MainInv, Moves
    <3> QED
      BY <2>9, <3>5, <3>6 DEF ArmTimer
  <2>10. CASE StartTransfer
    <3>1. Moves
      BY <2>3, <2>10 DEF StartTransfer
    <3>2. Quiet /\ rdata' = rdata
      BY <2>10 DEF StartTransfer, P!DriveLine, clintVars, data
    <3> QED
      BY <2>4, <3>1, <3>2 DEF MainInv
  <2>11. CASE Spin
    <3>1. Moves
      BY <2>3, <2>5, <2>11 DEF Spin
    <3>2. Quiet /\ rdata' = rdata
      BY <2>11 DEF Spin, plicVars, clintVars, data
    <3> QED
      BY <2>4, <3>1, <3>2 DEF MainInv
  <2>12. CASE TrapHandler
    <3>1. UNCHANGED <<program, pc>> /\ Quiet
      BY <2>12 DEF TrapHandler, TakeTrap, TimerHandler, TickHandler, ClaimInterrupt,
        ServiceI2c, CompleteInterrupt, clintVars, data
    <3>2. rdata' \in 0 .. 1
      <4>1. CASE ClaimInterrupt
        BY <4>1 DEF ClaimInterrupt, P!Claim
      <4>2. CASE ~ClaimInterrupt
        <5>1. rdata' = rdata
          BY <2>12, <4>2 DEF TrapHandler, TakeTrap, TimerHandler, TickHandler, ServiceI2c,
            CompleteInterrupt, P!DriveLine, P!Complete, plicVars
        <5> QED
          BY <5>1 DEF MainInv
      <4> QED
        BY <4>1, <4>2
    <3> QED
      BY <2>4, <2>5, <3>1, <3>2
  <2>13. CASE OnSources \/ TimerProc \/ DeltaCycle
    <3>1. UNCHANGED <<program, pc>> /\ Quiet /\ rdata' = rdata
      BY <2>13 DEF OnSources, TimerProc, DeltaCycle, P!OnSources, P!UpdatePhase,
        C!StartTimerProc, C!TimerProc, C!DeltaNotify, plicVars, clintVars, hart, data
    <3> QED
      BY <2>4, <2>5, <3>1 DEF MainInv
  <2>14. CASE AdvanceTime
    <3>1. UNCHANGED <<program, pc, hi, lo, mtimecmp, rdata>>
      BY <2>14 DEF AdvanceTime, C!AdvanceTime, plicVars, hart, data
    <3>2. now' = now + 1 /\ (mtimecmp # 0 \/ now < SetupTime)
      BY <2>14 DEF AdvanceTime, C!AdvanceTime
    <3> QED
      BY <2>2, <3>1, <3>2, Bounds DEF MainInv
  <2>15. CASE UNCHANGED vars
    <3>1. UNCHANGED <<program, pc>> /\ Quiet /\ rdata' = rdata
      BY <2>15 DEF vars, plicVars, clintVars, data
    <3> QED
      BY <2>4, <2>5, <3>1 DEF MainInv
  <2> QED
    BY <2>6, <2>7, <2>8, <2>9, <2>10, <2>11, <2>12, <2>13, <2>14, <2>15
    DEF Next, Main, Kernel
<1> QED
  BY <1>1, <1>2, PTL DEF SafetySpec

-----------------------------------------------------------------------------
(* The controllers in the platform *)

\* The platform drives the PLIC within its specification: every step of
\* firmware, handler or kernel is one of the controller's or leaves it alone.
THEOREM PlicEmbedded == SafetySpec => P!Spec
<1>1. Init => P!Init
  BY DEF Init
<1>2. MainInv /\ [Next]_vars => [P!Next]_(P!vars)
  <2> SUFFICES ASSUME MainInv, [Next]_vars PROVE P!Next \/ UNCHANGED P!vars
    OBVIOUS
  <2> USE DEF P!Source, P!Priority, P!EnableBit
  <2>1. CASE ConfigurePlic
    BY <2>1 DEF ConfigurePlic, P!Next, P!BTransport
  <2>2. CASE EnableInterrupts \/ ReadMtime \/ ArmTimer \/ Spin
    BY <2>2 DEF EnableInterrupts, ReadMtime, ArmTimer, Spin, plicVars, P!vars
  <2>3. CASE StartTransfer
    <3>1. P!DriveLine(1, TRUE)
      BY <2>3, Zenon DEF StartTransfer
    <3>2. 1 \in P!Source
      OBVIOUS
    <3> HIDE DEF P!Source
    <3> QED
      BY <3>1, <3>2, Zenon DEF P!Next, P!Peripherals
  <2>4. CASE TakeTrap \/ TimerHandler \/ TickHandler
    BY <2>4 DEF TakeTrap, TimerHandler, TickHandler, plicVars, P!vars
  <2>5. CASE ClaimInterrupt
    BY <2>5 DEF ClaimInterrupt, P!Next, P!BTransport
  <2>6. CASE ServiceI2c
    <3>1. P!DriveLine(1, FALSE)
      BY <2>6, Zenon DEF ServiceI2c
    <3>2. 1 \in P!Source
      OBVIOUS
    <3> HIDE DEF P!Source
    <3> QED
      BY <3>1, <3>2, Zenon DEF P!Next, P!Peripherals
  <2>7. CASE CompleteInterrupt
    <3>1. rdata \in 0 .. 1 + 1
      BY DEF MainInv
    <3>2. P!Complete(rdata)
      BY <2>7 DEF CompleteInterrupt
    <3> QED
      BY <3>1, <3>2 DEF P!Next, P!BTransport
  <2>8. CASE OnSources
    BY <2>8 DEF OnSources, P!Next
  <2>9. CASE DeltaCycle
    BY <2>9 DEF DeltaCycle, P!Next, plicVars, P!vars
  <2>10. CASE TimerProc \/ AdvanceTime
    BY <2>10 DEF TimerProc, AdvanceTime, plicVars, P!vars
  <2>11. CASE UNCHANGED vars
    BY <2>11 DEF vars, plicVars, P!vars
  <2> QED
    BY <2>1, <2>2, <2>3, <2>4, <2>5, <2>6, <2>7, <2>8, <2>9, <2>10, <2>11
    DEF Next, Main, TrapHandler, Kernel
<1> QED
  BY <1>1, <1>2, MainCorrect, PTL DEF SafetySpec, P!Spec

\* The platform drives the CLINT within its specification: main only writes
\* compare values of the range the controller is proved for.
THEOREM ClintEmbedded == SafetySpec => C!SafetySpec
<1>1. Init => C!Init
  BY DEF Init
<1>2. MainInv /\ [Next]_vars => [C!Next]_(C!vars)
  <2> SUFFICES ASSUME MainInv, [Next]_vars PROVE C!Next \/ UNCHANGED C!vars
    OBVIOUS
  <2>1. CASE ArmTimer
    <3>1. 0 \in 0 .. MaxHigh /\ Half \in Nat \ {0}
      BY Bounds
    <3>2. hi = 0 /\ lo + Delay \in Nat /\ mtimecmp \in Nat /\ mtimecmp < Half
      BY Bounds DEF MainInv
    <3>3. mtimecmp % Half \in 0 .. Half - 1 /\ (lo + Delay) % Half \in 0 .. Half - 1
      BY <3>1, <3>2
    <3>4. mtimecmp \div Half = 0
      BY <3>2, LowerHalf
    <3>5. \E h \in 0 .. MaxHigh, l \in 0 .. Half - 1 : C!WriteMtimecmp(h, l)
      BY <2>1, <3>1, <3>2, <3>3, <3>4 DEF ArmTimer
    <3> QED
      BY <3>5 DEF C!Next, C!BTransport, C!HalfWord
  <2>2. CASE ConfigurePlic \/ EnableInterrupts \/ ReadMtime \/ StartTransfer \/ Spin
    BY <2>2 DEF ConfigurePlic, EnableInterrupts, ReadMtime, StartTransfer, Spin, clintVars, C!vars
  <2>3. CASE TrapHandler
    BY <2>3 DEF TrapHandler, TakeTrap, TimerHandler, TickHandler, ClaimInterrupt, ServiceI2c,
      CompleteInterrupt, clintVars, C!vars
  <2>4. CASE TimerProc
    BY <2>4 DEF TimerProc, C!Next
  <2>5. CASE DeltaCycle
    BY <2>5 DEF DeltaCycle, C!Next, clintVars, C!vars
  <2>6. CASE AdvanceTime
    BY <2>6 DEF AdvanceTime, C!Next
  <2>7. CASE OnSources
    BY <2>7 DEF OnSources, clintVars, C!vars
  <2>8. CASE UNCHANGED vars
    BY <2>8 DEF vars, clintVars, C!vars
  <2> QED
    BY <2>1, <2>2, <2>3, <2>4, <2>5, <2>6, <2>7, <2>8 DEF Next, Main, Kernel
<1> QED
  BY <1>1, <1>2, MainCorrect, PTL DEF SafetySpec, C!SafetySpec

\* What PlicProofs shows of the controller, of the platform's instance of it.
LEMMA PlicResults == P!Spec => [](P!TypeOK /\ P!MeipTracksEligible)
<1>1. PP!PlicAssumption
  BY DEF PP!PlicAssumption
<1>2. PP!Spec => []PP!TypeOK
  BY <1>1, PP!TypeCorrect
<1>3. PP!Spec => []PP!MeipTracksEligible
  BY <1>1, PP!MeipCorrect
<1>4. P!Init => PP!Init
  BY DEF P!Init, PP!Init, P!Source, PP!Source
<1>5. [P!Next]_(P!vars) => [PP!Next]_(PP!vars)
  <2> USE DEF P!Source, PP!Source, P!Priority, PP!Priority, P!EnableBit, PP!EnableBit,
        P!config, PP!config, P!vars, PP!vars, P!UpdateMeip, PP!UpdateMeip, P!Eligible, PP!Eligible
  <2> SUFFICES ASSUME [P!Next]_(P!vars) PROVE PP!Next \/ UNCHANGED PP!vars
    OBVIOUS
  <2>1. CASE P!Peripherals
    BY <2>1 DEF P!Peripherals, PP!Peripherals, P!DriveLine, PP!DriveLine, PP!Next
  <2>2. CASE P!UpdatePhase
    BY <2>2 DEF P!UpdatePhase, PP!UpdatePhase, PP!Next
  <2>3. CASE P!OnSources
    BY <2>3 DEF P!OnSources, PP!OnSources, PP!Next
  <2>4. CASE P!Claim
    BY <2>4 DEF P!Claim, PP!Claim, P!IsBest, PP!IsBest, P!Mark, PP!Mark, PP!Next, PP!BTransport
  <2>5. CASE P!BTransport
    BY <2>4, <2>5 DEF P!BTransport, P!WritePriority, PP!WritePriority, P!WriteEnable,
      PP!WriteEnable, P!WriteThreshold, PP!WriteThreshold, P!Complete, PP!Complete,
      PP!Next, PP!BTransport
  <2> QED
    BY <2>1, <2>2, <2>3, <2>5 DEF P!Next
<1>6. PP!TypeOK => P!TypeOK
  BY DEF P!TypeOK, PP!TypeOK, P!Source, PP!Source, P!Priority, PP!Priority, P!EnableBit, PP!EnableBit
<1>7. PP!MeipTracksEligible => P!MeipTracksEligible
  BY DEF P!MeipTracksEligible, PP!MeipTracksEligible, P!Eligible, PP!Eligible, P!Source, PP!Source
<1> QED
  BY <1>2, <1>3, <1>4, <1>5, <1>6, <1>7, PTL DEF P!Spec, PP!Spec

\* What ClintProofs shows of the controller, of the platform's instance of it.
LEMMA ClintResults == C!SafetySpec => [](C!TypeOK /\ C!MtipMatchesCompare)
<1>1. CP!ClintAssumption
  BY SocAssumption DEF CP!ClintAssumption
<1>2. CP!SafetySpec => []CP!TypeOK
  BY <1>1, CP!TypeCorrect
<1>3. CP!SafetySpec => []CP!MtipMatchesCompare
  BY <1>1, CP!MtipCorrect
<1>4. C!Init => CP!Init
  BY DEF C!Init, CP!Init, C!Never, CP!Never, C!Word, CP!Word
<1>5. [C!Next]_(C!vars) => [CP!Next]_(CP!vars)
  <2> USE DEF C!HalfWord, CP!HalfWord, C!Never, CP!Never, C!Word, CP!Word, C!vars, CP!vars,
        C!Access, CP!Access
  <2> SUFFICES ASSUME [C!Next]_(C!vars) PROVE CP!Next \/ UNCHANGED CP!vars
    OBVIOUS
  <2>1. CASE C!BTransport
    BY <2>1 DEF C!BTransport, CP!BTransport, C!WriteMsip, CP!WriteMsip, C!WriteMtimecmp,
      CP!WriteMtimecmp, C!Slices, CP!Slices, CP!Next
  <2>2. CASE C!StartTimerProc
    BY <2>2 DEF C!StartTimerProc, CP!StartTimerProc, CP!Next
  <2>3. CASE C!TimerProc
    BY <2>3 DEF C!TimerProc, CP!TimerProc, C!Reached, CP!Reached, C!NowMtime, CP!NowMtime,
      C!Reschedule, CP!Reschedule, C!Goal, CP!Goal, C!Earlier, CP!Earlier, CP!Next
  <2>4. CASE C!DeltaNotify
    BY <2>4 DEF C!DeltaNotify, CP!DeltaNotify, CP!Next
  <2>5. CASE C!AdvanceTime
    BY <2>5 DEF C!AdvanceTime, CP!AdvanceTime, CP!Next
  <2> QED
    BY <2>1, <2>2, <2>3, <2>4, <2>5 DEF C!Next
<1>6. CP!TypeOK => C!TypeOK
  BY DEF C!TypeOK, CP!TypeOK, C!CmpValues, CP!CmpValues, C!HalfWord, CP!HalfWord,
    C!Never, CP!Never, C!Word, CP!Word
<1>7. CP!MtipMatchesCompare => C!MtipMatchesCompare
  BY DEF C!MtipMatchesCompare, CP!MtipMatchesCompare, C!Settled, CP!Settled,
    C!Reached, CP!Reached, C!NowMtime, CP!NowMtime
<1> QED
  BY <1>2, <1>3, <1>4, <1>5, <1>6, <1>7, PTL DEF C!SafetySpec, CP!SafetySpec

\* In the platform, too, MEIP and MTIP are what the controllers' registers and
\* lines call for, except in the window before on_sources or timer_proc runs.
THEOREM LevelsCorrect == SafetySpec => [](P!MeipTracksEligible /\ C!MtipMatchesCompare)
  BY PlicEmbedded, ClintEmbedded, PlicResults, ClintResults, PTL

-----------------------------------------------------------------------------
(* Types *)

\* The hart's inputs, its CSRs and the firmware's flags keep their types, and
\* only the causes the program wants are ever enabled.
HartInv ==
    /\ H!TypeOK
    /\ backend \in {"riscv_vp", "riscv_tlm"} /\ program \in Programs
    /\ trap \in {"none", "timer", "tick", "claim", "service", "complete"}
    /\ timerDone \in BOOLEAN /\ extDone \in BOOLEAN
    /\ mie \subseteq Wanted

\* set_irq of either backend keeps the types of the hart's inputs.
LEMMA SetIrqTyped ==
    ASSUME H!TypeOK, NEW cause \in H!Cause, NEW level \in BOOLEAN, H!SetIrq(cause, level)
    PROVE  mip' \subseteq H!Cause /\ lost' \subseteq H!Cause /\ slot' \in H!Cause \cup {H!NoCause}
<1>1. CASE level
  BY <1>1 DEF H!TypeOK, H!SetIrq, H!SetLevel, H!SetEdge, H!Inject, H!inputs
<1>2. CASE ~level
  BY <1>2 DEF H!TypeOK, H!SetIrq, H!SetLevel, H!SetEdge, H!Inject, H!inputs
<1> QED
  BY <1>1, <1>2

\* HartInv is invariant.
LEMMA HartCorrect == SafetySpec => []HartInv
<1>1. Init => HartInv
  BY SocAssumption DEF Init, H!Init, HartInv, H!TypeOK
<1>2. HartInv /\ P!TypeOK' /\ C!TypeOK' /\ [Next]_vars => HartInv'
  <2> SUFFICES ASSUME HartInv, P!TypeOK', C!TypeOK', [Next]_vars PROVE HartInv'
    OBVIOUS
  <2>1. meip' \in BOOLEAN /\ mtip' \in BOOLEAN
    BY DEF P!TypeOK, C!TypeOK
  <2>2. ASSUME PassMeip \/ PassMtip \/ UNCHANGED inputs
        PROVE  mip' \subseteq H!Cause /\ lost' \subseteq H!Cause /\ slot' \in H!Cause \cup {H!NoCause}
    <3>1. H!External \in H!Cause /\ H!Timer \in H!Cause /\ H!TypeOK
      BY DEF HartInv, H!Cause
    <3>2. CASE PassMeip
      BY <2>1, <3>1, <3>2, SetIrqTyped DEF PassMeip
    <3>3. CASE PassMtip
      BY <2>1, <3>1, <3>3, SetIrqTyped DEF PassMtip
    <3>4. CASE UNCHANGED inputs
      BY <3>4 DEF HartInv, H!TypeOK, inputs
    <3> QED
      BY <2>2, <3>2, <3>3, <3>4
  <2>3. ASSUME PassMeip \/ PassMtip \/ UNCHANGED inputs,
               UNCHANGED <<backend, program, trap, mie, gie, timerDone, extDone>>
        PROVE  HartInv'
    BY <2>2, <2>3 DEF HartInv, H!TypeOK, Wanted
  <2>4. CASE ConfigurePlic
    BY <2>3, <2>4 DEF ConfigurePlic, Step, csrs, data
  <2>5. CASE EnableInterrupts
    <3>1. /\ UNCHANGED <<inputs, backend, program, trap, timerDone, extDone>>
          /\ mie' \in {mie, Wanted}
      BY <2>5 DEF EnableInterrupts, Step, data
    <3>2. gie' \in BOOLEAN
      BY <2>5, Zenon DEF EnableInterrupts, HartInv, H!TypeOK
    <3>3. mie' \subseteq Wanted' /\ Wanted \subseteq H!Cause
      BY <3>1 DEF Wanted, HartInv, H!Cause
    <3> QED
      BY <3>1, <3>2, <3>3 DEF HartInv, H!TypeOK, Wanted, inputs
  <2>6. CASE ReadMtime \/ ArmTimer \/ StartTransfer \/ Spin
    <3>1. UNCHANGED <<inputs, backend, program, trap, mie, gie, timerDone, extDone>>
      BY <2>6 DEF ReadMtime, ArmTimer, StartTransfer, Spin, Step, inputs, csrs, data
    <3> QED
      BY <2>3, <3>1
  <2>7. CASE TakeTrap
    <3>1. /\ UNCHANGED <<backend, program, mip, lost, mie, timerDone, extDone>>
          /\ trap' \in {"tick", "claim", "timer"} /\ slot' = H!NoCause
      BY <2>7 DEF TakeTrap, H!EnterTrap, data
    <3>2. gie' \in BOOLEAN
      BY <2>7, Zenon DEF TakeTrap, H!EnterTrap
    <3> QED
      BY <3>1, <3>2 DEF HartInv, H!TypeOK, Wanted
  <2>8. CASE TimerHandler \/ TickHandler
    <3>1. /\ UNCHANGED <<inputs, backend, program, extDone>>
          /\ trap' = "none" /\ mie' = mie \ {H!Timer}
      BY <2>8 DEF TimerHandler, TickHandler, MaskTimer, Return
    <3>2. gie' \in BOOLEAN /\ timerDone' \in BOOLEAN
      BY <2>8, Zenon DEF TimerHandler, TickHandler, Return, H!Mret
    <3> QED
      BY <3>1, <3>2 DEF HartInv, H!TypeOK, Wanted, inputs
  <2>9. CASE ClaimInterrupt
    <3>1. /\ UNCHANGED <<backend, program, mie, gie, timerDone, extDone>> /\ PassMeip
          /\ trap' \in {"service", "complete"}
      BY <2>9 DEF ClaimInterrupt, csrs, data
    <3> QED
      BY <2>2, <3>1 DEF HartInv, H!TypeOK, Wanted
  <2>10. CASE ServiceI2c
    <3>1. UNCHANGED <<inputs, backend, program, mie, gie, timerDone>> /\ trap' = "complete"
      BY <2>10 DEF ServiceI2c, csrs
    <3>2. extDone' \in BOOLEAN
      BY <2>10, Zenon DEF ServiceI2c
    <3> QED
      BY <3>1, <3>2 DEF HartInv, H!TypeOK, Wanted, inputs
  <2>11. CASE CompleteInterrupt
    <3>1. /\ UNCHANGED <<backend, program, mie, timerDone, extDone>> /\ PassMeip
          /\ trap' = "none"
      BY <2>11 DEF CompleteInterrupt, Return, data
    <3>2. gie' \in BOOLEAN
      BY <2>11, Zenon DEF CompleteInterrupt, Return, H!Mret
    <3> QED
      BY <2>2, <3>1, <3>2 DEF HartInv, H!TypeOK, Wanted
  <2>12. CASE Kernel
    BY <2>3, <2>12 DEF Kernel, OnSources, TimerProc, DeltaCycle, AdvanceTime, hart, csrs, data
  <2>13. CASE UNCHANGED vars
    BY <2>3, <2>13 DEF vars, csrs, data
  <2> QED
    BY <2>4, <2>5, <2>6, <2>7, <2>8, <2>9, <2>10, <2>11, <2>12, <2>13
    DEF Next, Main, TrapHandler
<1> QED
  BY <1>1, <1>2, PlicEmbedded, ClintEmbedded, PlicResults, ClintResults, PTL DEF SafetySpec

\* Type correctness of the whole platform, on either backend and with either
\* program; both controllers keep their own type invariants in it.
THEOREM TypeCorrect == SafetySpec => []TypeOK
<1>1. MainInv /\ HartInv /\ P!TypeOK /\ C!TypeOK => TypeOK
  <2> SUFFICES ASSUME MainInv, HartInv, P!TypeOK, C!TypeOK PROVE TypeOK
    OBVIOUS
  <2>1. hi \in 0 .. Half - 1 /\ lo \in 0 .. Half - 1
    BY Bounds DEF MainInv
  <2> QED
    BY <2>1 DEF MainInv, HartInv, TypeOK
<1> QED
  BY <1>1, MainCorrect, HartCorrect, PlicEmbedded, ClintEmbedded, PlicResults, ClintResults, PTL

-----------------------------------------------------------------------------
(* Claim and completion *)

\* The handler serves the device only with the claim in hand.
ServiceInv == GatewayClosedOnlyInHandler /\ (trap = "service" => rdata = 1)

\* The gateway of the I2C line is closed exactly between the handler's claim
\* and its completion, also when the interrupt is spurious or served twice.
THEOREM GatewayCorrect == SafetySpec => []GatewayClosedOnlyInHandler
<1> USE DEF ServiceInv, GatewayClosedOnlyInHandler
<1>1. Init => ServiceInv
  BY DEF Init, P!Init
<1>2. P!TypeOK /\ ServiceInv /\ [Next]_vars => ServiceInv'
  <2> SUFFICES ASSUME P!TypeOK, ServiceInv, [Next]_vars PROVE ServiceInv'
    OBVIOUS
  <2>1. claimed \subseteq {1}
    BY DEF P!TypeOK, P!Source
  <2>2. CASE ConfigurePlic
    BY <2>2 DEF ConfigurePlic, Step, P!WritePriority, P!WriteEnable, P!WriteThreshold
  <2>3. CASE EnableInterrupts \/ ReadMtime \/ ArmTimer \/ Spin
    BY <2>3 DEF EnableInterrupts, ReadMtime, ArmTimer, Spin, Step, plicVars
  <2>4. CASE StartTransfer
    BY <2>4 DEF StartTransfer, Step, P!DriveLine
  <2>5. CASE TakeTrap \/ TimerHandler \/ TickHandler
    BY <2>5 DEF TakeTrap, TimerHandler, TickHandler, Return, plicVars
  <2>6. CASE ClaimInterrupt
    <3>1. PICK best \in 0 .. 1 : rdata' = best /\ claimed' = P!Mark(best)
      BY <2>6 DEF ClaimInterrupt, P!Claim
    <3>2. claimed = {} /\ trap' = IF rdata' = 1 THEN "service" ELSE "complete"
      BY <2>6 DEF ClaimInterrupt
    <3>3. CASE best = 0
      BY <3>1, <3>2, <3>3 DEF P!Mark
    <3>4. CASE best = 1
      BY <3>1, <3>2, <3>4 DEF P!Mark
    <3> QED
      BY <3>3, <3>4
  <2>7. CASE ServiceI2c
    BY <2>7 DEF ServiceI2c, P!DriveLine
  <2>8. CASE CompleteInterrupt
    <3>1. trap = "complete" /\ trap' = "none" /\ rdata' = rdata
      BY <2>8 DEF CompleteInterrupt, Return, P!Complete
    <3>2. claimed' = IF rdata \in 1 .. 1 THEN claimed \ {rdata} ELSE claimed
      BY <2>8 DEF CompleteInterrupt, P!Complete, P!Source
    <3>3. claimed' = {}
      <4>1. CASE rdata = 1
        BY <2>1, <3>2, <4>1
      <4>2. CASE rdata # 1
        <5>1. claimed = {} /\ rdata \notin 1 .. 1
          BY <3>1, <4>2
        <5> QED
          BY <3>2, <5>1
      <4> QED
        BY <4>1, <4>2
    <3> QED
      BY <3>1, <3>3
  <2>9. CASE Kernel
    BY <2>9 DEF Kernel, OnSources, TimerProc, DeltaCycle, AdvanceTime, hart, plicVars,
      P!OnSources, P!UpdatePhase
  <2>10. CASE UNCHANGED vars
    BY <2>10 DEF vars, plicVars
  <2> QED
    BY <2>2, <2>3, <2>4, <2>5, <2>6, <2>7, <2>8, <2>9, <2>10 DEF Next, Main, TrapHandler
<1> QED
  BY <1>1, <1>2, PlicEmbedded, PlicResults, PTL DEF SafetySpec

-----------------------------------------------------------------------------
(* No interrupt vanishes *)

\* The causes the hart knows of.
Known == H!Pending \cup lost

\* set_irq with an asserted level makes the cause pending; a cause the hart
\* knows of is forgotten only by set_irq with its own level deasserted.
LEMMA SetIrqKeeps ==
    ASSUME HartInv, NEW cause \in {H!Timer, H!External}, NEW level \in BOOLEAN,
           H!SetIrq(cause, level), UNCHANGED backend
    PROVE  /\ level => cause \in Known'
           /\ \A c \in Known : c # cause => c \in Known'
<1> USE DEF Known, H!Pending, H!SetIrq, H!SetLevel, H!SetEdge, H!Inject, H!inputs,
        H!Timer, H!External, H!NoCause
<1>1. backend \in {"riscv_vp", "riscv_tlm"}
  BY DEF HartInv
<1>2. CASE backend = "riscv_vp"
  <2>1. CASE level
    BY <1>2, <2>1
  <2>2. CASE ~level
    BY <1>2, <2>2
  <2> QED
    BY <2>1, <2>2
<1>3. CASE backend = "riscv_tlm"
  <2>1. CASE level
    BY <1>3, <2>1
  <2>2. CASE ~level
    BY <1>3, <2>2
  <2> QED
    BY <2>1, <2>2
<1> QED
  BY <1>1, <1>2, <1>3

\* Once the CLINT or the PLIC has asserted its level, the cause is pending in
\* the hart or being handled; only riscv_tlm replaces one, and that is recorded
\* in lost.
THEOREM NothingVanishes == SafetySpec => []NoInterruptVanishes
<1> DEFINE TimerKnown == mtip /\ ~timerDone => H!Timer \in Known \/ trap \in {"timer", "tick"}
           ExternalKnown == meip => H!External \in Known \/ trap = "claim"
<1>1. Init => TimerKnown /\ ExternalKnown
  BY DEF Init, P!Init, C!Init
<1>2. /\ HartInv /\ P!TypeOK' /\ C!TypeOK'
      /\ TimerKnown /\ ExternalKnown /\ [Next]_vars
      => TimerKnown' /\ ExternalKnown'
  <2> SUFFICES ASSUME HartInv, P!TypeOK', C!TypeOK', TimerKnown, ExternalKnown, [Next]_vars
               PROVE  TimerKnown' /\ ExternalKnown'
    OBVIOUS
  <2>1. meip' \in BOOLEAN /\ mtip' \in BOOLEAN
    BY DEF P!TypeOK, C!TypeOK
  <2>2. H!Timer # H!External
    BY DEF H!Timer, H!External
  <2>3. ASSUME PassMeip, UNCHANGED backend
        PROVE  /\ meip' => H!External \in Known'
               /\ H!Timer \in Known => H!Timer \in Known'
    <3>1. H!SetIrq(H!External, meip')
      BY <2>3 DEF PassMeip
    <3> QED
      BY <2>1, <2>2, <2>3, <3>1, SetIrqKeeps
  <2>4. ASSUME PassMtip, UNCHANGED backend
        PROVE  /\ mtip' => H!Timer \in Known'
               /\ H!External \in Known => H!External \in Known'
    <3>1. H!SetIrq(H!Timer, mtip')
      BY <2>4 DEF PassMtip
    <3> QED
      BY <2>1, <2>2, <2>4, <3>1, SetIrqKeeps
  <2>5. ASSUME UNCHANGED <<inputs, backend>> PROVE Known' = Known
    BY <2>5 DEF Known, H!Pending, inputs
  <2>6. CASE ConfigurePlic
    <3>1. PassMeip /\ UNCHANGED <<backend, mtip, timerDone, trap>>
      BY <2>6 DEF ConfigurePlic, Step, clintVars, data
    <3> QED
      BY <2>3, <3>1
  <2>7. CASE EnableInterrupts \/ ReadMtime \/ ArmTimer \/ StartTransfer \/ Spin
    <3>1. UNCHANGED <<inputs, backend, mtip, meip, timerDone, trap>>
      BY <2>7 DEF EnableInterrupts, ReadMtime, ArmTimer, StartTransfer, Spin, Step,
        C!WriteMtimecmp, P!DriveLine, clintVars, plicVars, data
    <3> QED
      BY <2>5, <3>1
  <2>8. CASE TakeTrap
    <3>1. /\ UNCHANGED <<backend, mip, lost, mtip, meip, timerDone>> /\ slot' = H!NoCause
          /\ trap = "none" /\ H!Takeable # {}
          /\ trap' = IF program = "clint_timer" THEN "tick"
                     ELSE IF H!External \in H!Takeable THEN "claim" ELSE "timer"
      BY <2>8 DEF TakeTrap, H!EnterTrap, clintVars, plicVars, data
    <3>2. H!Takeable \subseteq Wanted /\ H!Takeable \subseteq H!Pending
      BY DEF H!Takeable, HartInv
    <3>3. CASE backend = "riscv_vp"
      <4>1. Known' = Known
        BY <3>1, <3>3 DEF Known, H!Pending
      <4> QED
        BY <3>1, <4>1
    <3>4. CASE backend = "riscv_tlm"
      <4>1. H!Pending = {slot} \ {H!NoCause}
        BY <3>4 DEF H!Pending
      <4>2. H!Takeable = {slot} /\ slot \in Wanted
        BY <3>1, <3>2, <4>1
      <4>3. lost \subseteq Known'
        BY <3>1 DEF Known
      <4>4. ASSUME NEW c \in Known, c # slot PROVE c \in Known'
        BY <4>1, <4>3, <4>4 DEF Known
      <4>5. CASE slot = H!Timer
        <5>1. trap' \in {"tick", "timer"}
          BY <2>2, <3>1, <4>2, <4>5
        <5> QED
          BY <2>2, <3>1, <4>4, <4>5, <5>1
      <4>6. CASE slot = H!External
        <5>1. program = "soc_irq"
          BY <2>2, <4>2, <4>6 DEF Wanted
        <5>2. trap' = "claim"
          BY <3>1, <4>2, <4>6, <5>1
        <5> QED
          BY <2>2, <3>1, <4>4, <4>6, <5>2
      <4> QED
        BY <4>2, <4>5, <4>6 DEF Wanted
    <3> QED
      BY <3>3, <3>4 DEF HartInv
  <2>9. CASE TimerHandler \/ TickHandler
    <3>1. UNCHANGED <<inputs, backend, mtip, meip>> /\ timerDone' /\ trap \in {"timer", "tick"}
      BY <2>9 DEF TimerHandler, TickHandler, clintVars, plicVars
    <3> QED
      BY <2>5, <3>1
  <2>10. CASE ClaimInterrupt
    <3>1. PassMeip /\ UNCHANGED <<backend, mtip, timerDone>> /\ trap = "claim"
      BY <2>10 DEF ClaimInterrupt, clintVars, data
    <3> QED
      BY <2>3, <3>1
  <2>11. CASE ServiceI2c
    <3>1. UNCHANGED <<inputs, backend, mtip, meip, timerDone>> /\ trap = "service"
      BY <2>11 DEF ServiceI2c, P!DriveLine, clintVars
    <3> QED
      BY <2>5, <3>1
  <2>12. CASE CompleteInterrupt
    <3>1. PassMeip /\ UNCHANGED <<backend, mtip, timerDone>> /\ trap = "complete"
      BY <2>12 DEF CompleteInterrupt, clintVars, data
    <3> QED
      BY <2>3, <3>1
  <2>13. CASE OnSources
    <3>1. PassMeip /\ UNCHANGED <<backend, mtip, timerDone, trap>>
      BY <2>13 DEF OnSources, clintVars, hart, data
    <3> QED
      BY <2>3, <3>1
  <2>14. CASE TimerProc
    <3>1. UNCHANGED <<backend, meip, timerDone, trap>>
      BY <2>14 DEF TimerProc, plicVars, hart, data
    <3>2. CASE PassMtip
      BY <2>4, <3>1, <3>2
    <3>3. CASE C!StartTimerProc /\ UNCHANGED inputs
      BY <2>5, <3>1, <3>3 DEF C!StartTimerProc
    <3> QED
      BY <2>14, <3>2, <3>3 DEF TimerProc
  <2>15. CASE DeltaCycle \/ AdvanceTime
    <3>1. UNCHANGED <<inputs, backend, mtip, meip, timerDone, trap>>
      BY <2>15 DEF DeltaCycle, AdvanceTime, P!UpdatePhase, C!DeltaNotify, C!AdvanceTime,
        plicVars, clintVars, hart, data
    <3> QED
      BY <2>5, <3>1
  <2>16. CASE UNCHANGED vars
    <3>1. UNCHANGED <<inputs, backend, mtip, meip, timerDone, trap>>
      BY <2>16 DEF vars, plicVars, clintVars, data
    <3> QED
      BY <2>5, <3>1
  <2> QED
    BY <2>6, <2>7, <2>8, <2>9, <2>10, <2>11, <2>12, <2>13, <2>14, <2>15, <2>16
    DEF Next, Main, TrapHandler, Kernel
<1>3. TimerKnown /\ ExternalKnown => NoInterruptVanishes
  BY DEF NoInterruptVanishes, Known
<1> HIDE DEF TimerKnown, ExternalKnown
<1> QED
  BY <1>1, <1>2, <1>3, HartCorrect, PlicEmbedded, ClintEmbedded, PlicResults, ClintResults, PTL
  DEF SafetySpec

-----------------------------------------------------------------------------
(* Levels and mip *)

\* set_irq of riscv_vp makes the bit of the cause its level and leaves the
\* others alone.
LEMMA SetLevelExact ==
    ASSUME backend = "riscv_vp", NEW cause \in {H!Timer, H!External}, NEW level \in BOOLEAN,
           H!SetIrq(cause, level)
    PROVE  /\ cause \in mip' <=> level
           /\ \A c \in {H!Timer, H!External} : c # cause => (c \in mip' <=> c \in mip)
<1>1. mip' = IF level THEN mip \cup {cause} ELSE mip \ {cause}
  BY DEF H!SetIrq, H!SetLevel
<1>2. CASE level
  BY <1>1, <1>2
<1>3. CASE ~level
  BY <1>1, <1>3
<1> QED
  BY <1>2, <1>3

\* mip holds the levels the controllers passed last, at every point of a
\* delta cycle, because each call that computes a level passes it on.
MipInv ==
    backend = "riscv_vp" => (H!External \in mip <=> meip) /\ (H!Timer \in mip <=> mtip)

\* On riscv_vp the pending bits are what the I2C line and the compare register
\* call for: neither controller's set_irq disturbs the other's bit, and no
\* level is left behind when the request behind it has gone.
THEOREM LevelsArrive == SafetySpec => []LevelsReachHart
<1>1. Init => MipInv
  BY DEF Init, P!Init, C!Init, H!Init, MipInv
<1>2. P!TypeOK' /\ C!TypeOK' /\ MipInv /\ [Next]_vars => MipInv'
  <2> SUFFICES ASSUME P!TypeOK', C!TypeOK', MipInv, [Next]_vars, backend' = "riscv_vp"
               PROVE  (H!External \in mip' <=> meip') /\ (H!Timer \in mip' <=> mtip')
    BY DEF MipInv
  <2>1. meip' \in BOOLEAN /\ mtip' \in BOOLEAN
    BY DEF P!TypeOK, C!TypeOK
  <2>2. H!Timer # H!External
    BY DEF H!Timer, H!External
  <2>3. backend' = backend
    BY DEF Next, Main, TrapHandler, Kernel, ConfigurePlic, EnableInterrupts, ReadMtime, ArmTimer,
      StartTransfer, Spin, Step, TakeTrap, TimerHandler, TickHandler, ClaimInterrupt, ServiceI2c,
      CompleteInterrupt, OnSources, TimerProc, DeltaCycle, AdvanceTime, hart, vars
  <2>4. (H!External \in mip <=> meip) /\ (H!Timer \in mip <=> mtip) /\ backend = "riscv_vp"
    BY <2>3 DEF MipInv
  <2>5. CASE PassMeip /\ UNCHANGED mtip
    <3>1. H!SetIrq(H!External, meip')
      BY <2>5 DEF PassMeip
    <3> QED
      BY <2>1, <2>2, <2>4, <2>5, <3>1, SetLevelExact
  <2>6. CASE PassMtip /\ UNCHANGED meip
    <3>1. H!SetIrq(H!Timer, mtip')
      BY <2>6 DEF PassMtip
    <3> QED
      BY <2>1, <2>2, <2>4, <2>6, <3>1, SetLevelExact
  <2>7. CASE UNCHANGED <<mip, meip, mtip>>
    BY <2>4, <2>7
  <2>8. CASE ConfigurePlic \/ ClaimInterrupt \/ CompleteInterrupt \/ OnSources
    <3>1. PassMeip /\ UNCHANGED mtip
      BY <2>8 DEF ConfigurePlic, ClaimInterrupt, CompleteInterrupt, OnSources, clintVars
    <3> QED
      BY <2>5, <3>1
  <2>9. CASE EnableInterrupts \/ ReadMtime \/ ArmTimer \/ StartTransfer \/ Spin
    <3>1. UNCHANGED <<mip, meip, mtip>>
      BY <2>9 DEF EnableInterrupts, ReadMtime, ArmTimer, StartTransfer, Spin,
        C!WriteMtimecmp, P!DriveLine, clintVars, plicVars, inputs
    <3> QED
      BY <2>7, <3>1
  <2>10. CASE TakeTrap \/ TimerHandler \/ TickHandler \/ ServiceI2c
    <3>1. UNCHANGED <<mip, meip, mtip>>
      BY <2>10 DEF TakeTrap, H!EnterTrap, TimerHandler, TickHandler, ServiceI2c, P!DriveLine,
        clintVars, plicVars, inputs
    <3> QED
      BY <2>7, <3>1
  <2>11. CASE TimerProc
    <3>1. UNCHANGED meip
      BY <2>11 DEF TimerProc, plicVars
    <3>2. CASE C!StartTimerProc /\ UNCHANGED inputs
      BY <2>7, <3>1, <3>2 DEF C!StartTimerProc, inputs
    <3> QED
      BY <2>6, <2>11, <3>1, <3>2 DEF TimerProc
  <2>12. CASE DeltaCycle \/ AdvanceTime \/ UNCHANGED vars
    <3>1. UNCHANGED <<mip, meip, mtip>>
      BY <2>12 DEF DeltaCycle, AdvanceTime, P!UpdatePhase, C!DeltaNotify, C!AdvanceTime,
        plicVars, clintVars, inputs, vars
    <3> QED
      BY <2>7, <3>1
  <2> QED
    BY <2>8, <2>9, <2>10, <2>11, <2>12 DEF Next, Main, TrapHandler, Kernel
<1>3. MipInv /\ P!MeipTracksEligible /\ C!MtipMatchesCompare => LevelsReachHart
  <2>1. P!Source = {1}
    BY DEF P!Source
  <2> QED
    BY <2>1 DEF MipInv, P!MeipTracksEligible, C!MtipMatchesCompare, LevelsReachHart
<1> QED
  BY <1>1, <1>2, <1>3, LevelsCorrect, PlicEmbedded, ClintEmbedded, PlicResults, ClintResults, PTL
  DEF SafetySpec

-----------------------------------------------------------------------------
(* The timer interrupt is never early *)

\* Whatever backend, set_irq makes at most its own cause pending, and only
\* with the level asserted.
LEMMA SetIrqAdds ==
    ASSUME HartInv, NEW cause \in {H!Timer, H!External}, NEW level \in BOOLEAN,
           H!SetIrq(cause, level), UNCHANGED backend
    PROVE  /\ \A c \in H!Pending' : c \in H!Pending \/ (c = cause /\ level)
           /\ ~level /\ (backend = "riscv_tlm" => cause \notin H!Pending) => cause \notin H!Pending'
<1> USE DEF H!Pending, H!SetIrq, H!SetLevel, H!SetEdge, H!Inject, H!inputs
<1>1. CASE backend = "riscv_vp"
  <2>1. CASE level
    BY <1>1, <2>1
  <2>2. CASE ~level
    BY <1>1, <2>2
  <2> QED
    BY <2>1, <2>2
<1>2. CASE backend = "riscv_tlm"
  <2>1. CASE level
    BY <1>2, <2>1
  <2>2. CASE ~level
    BY <1>2, <2>2
  <2> QED
    BY <2>1, <2>2
<1> QED
  BY <1>1, <1>2 DEF HartInv

\* The timer interrupt somewhere on its way, or behind it.
Expired == mtip \/ timerDone \/ trap \in {"timer", "tick"} \/ H!Timer \in H!Pending

\* An armed compare value is the one main means, and the interrupt is nowhere
\* on its way before that time.  The first write, of the upper half, leaves 0
\* in the register, which arms nothing.
DelayInv ==
    /\ mtimecmp # 0 => mtimecmp = lo + Delay
    /\ Expired => C!Reached

\* The handler of either program runs no earlier than Delay ticks after main
\* read mtime, on either backend, wherever the writes of the two halves fall
\* between the runs of timer_proc.
THEOREM DelayHonoured == SafetySpec => []TimerNotEarly
<1>1. Init => DelayInv
  BY DEF Init, C!Init, P!Init, H!Init, H!Pending, H!NoCause, DelayInv, Expired
<1>2. MainInv /\ HartInv /\ P!TypeOK' /\ C!TypeOK' /\ DelayInv /\ [Next]_vars => DelayInv'
  <2> SUFFICES ASSUME MainInv, HartInv, P!TypeOK', C!TypeOK', DelayInv, [Next]_vars
               PROVE  DelayInv'
    OBVIOUS
  <2> DEFINE Still == UNCHANGED <<now, mtimecmp, lo>>
  <2>1. meip' \in BOOLEAN /\ mtip' \in BOOLEAN
    BY DEF P!TypeOK, C!TypeOK
  <2>2. H!Timer # H!External
    BY DEF H!Timer, H!External
  <2>3. ASSUME Still PROVE C!Reached' <=> C!Reached
    BY <2>3 DEF C!Reached, C!NowMtime
  <2>4. ASSUME Still, Expired' => Expired PROVE DelayInv'
    BY <2>3, <2>4 DEF DelayInv
  <2>5. ASSUME PassMeip, UNCHANGED <<backend, mtip, timerDone>>,
               trap' \in {"timer", "tick"} => trap \in {"timer", "tick"}
        PROVE  Expired' => Expired
    <3>1. H!SetIrq(H!External, meip')
      BY <2>5 DEF PassMeip
    <3>2. H!Timer \in H!Pending' => H!Timer \in H!Pending
      BY <2>1, <2>2, <2>5, <3>1, SetIrqAdds
    <3> QED
      BY <2>5, <3>2 DEF Expired
  <2>6. ASSUME UNCHANGED <<inputs, backend, mtip, timerDone>>,
               trap' \in {"timer", "tick"} => trap \in {"timer", "tick"}
        PROVE  Expired' => Expired
    BY <2>6 DEF Expired, H!Pending, inputs
  <2>7. CASE ConfigurePlic
    <3>1. PassMeip /\ UNCHANGED <<backend, mtip, timerDone, trap>> /\ Still
      BY <2>7 DEF ConfigurePlic, Step, clintVars, data
    <3> QED
      BY <2>4, <2>5, <3>1
  <2>8. CASE EnableInterrupts \/ StartTransfer \/ Spin
    <3>1. UNCHANGED <<inputs, backend, mtip, timerDone, trap>> /\ Still
      BY <2>8 DEF EnableInterrupts, StartTransfer, Spin, Step, clintVars, data
    <3> QED
      BY <2>4, <2>6, <3>1
  <2>9. CASE ReadMtime \/ ArmTimer
    <3>1. program \in {"soc_irq", "clint_timer"} /\ pc \in 1 .. Len(Code[program])
      BY DEF MainInv
    <3>2. Statement \in {"mtimeHi", "mtimeLo", "cmpHi", "cmpLo"}
      BY <2>9 DEF ReadMtime, ArmTimer, Step
    <3>3. mtimecmp = 0
      BY <3>1, <3>2, Places DEF MainInv
    <3>4. ~Expired
      BY <3>3 DEF DelayInv, C!Reached
    <3>5. UNCHANGED <<inputs, backend, mtip, timerDone, trap>>
      BY <2>9 DEF ReadMtime, ArmTimer, Step, C!WriteMtimecmp, clintVars, data
    <3>6. ~Expired'
      BY <2>6, <3>4, <3>5
    <3>7. mtimecmp' # 0 => mtimecmp' = lo' + Delay
      <4>1. CASE ReadMtime
        BY <3>3, <4>1 DEF ReadMtime, clintVars
      <4>2. CASE ArmTimer
        <5>1. lo' = lo /\ hi = 0
          BY <4>2 DEF ArmTimer, data, MainInv
        <5>2. 0 % Half = 0 /\ 0 \div Half = 0 /\ 0 * Half = 0
          BY LowerHalf, Bounds
        <5>3. lo + Delay \in Nat /\ lo + Delay < Half
          BY Bounds DEF MainInv
        <5>4. (lo + Delay) % Half = lo + Delay
          BY <5>3, LowerHalf
        <5>5. mtimecmp' = 0 \/ mtimecmp' = lo + Delay
          BY <3>3, <4>2, <5>1, <5>2, <5>3, <5>4 DEF ArmTimer
        <5> QED
          BY <5>1, <5>5
      <4> QED
        BY <2>9, <4>1, <4>2
    <3> QED
      BY <3>6, <3>7 DEF DelayInv
  <2>10. CASE TakeTrap
    <3>1. /\ UNCHANGED <<backend, mip, mtip, timerDone>> /\ slot' = H!NoCause /\ Still
          /\ H!Takeable # {}
          /\ trap' = IF program = "clint_timer" THEN "tick"
                     ELSE IF H!External \in H!Takeable THEN "claim" ELSE "timer"
      BY <2>10 DEF TakeTrap, H!EnterTrap, clintVars, data
    <3>2. H!Takeable \subseteq Wanted /\ H!Takeable \subseteq H!Pending
      BY DEF H!Takeable, HartInv
    <3>3. H!Pending' \subseteq H!Pending
      BY <3>1 DEF H!Pending
    <3>4. trap' \in {"timer", "tick"} => H!Timer \in H!Pending
      BY <3>1, <3>2 DEF Wanted
    <3> QED
      BY <2>4, <3>1, <3>3, <3>4 DEF Expired
  <2>11. CASE TimerHandler \/ TickHandler
    <3>1. Expired /\ Still
      BY <2>11 DEF TimerHandler, TickHandler, Expired, clintVars
    <3> QED
      BY <2>4, <3>1
  <2>12. CASE ClaimInterrupt \/ CompleteInterrupt
    <3>1. PassMeip /\ UNCHANGED <<backend, mtip, timerDone>> /\ Still
          /\ trap' \in {"service", "complete", "none"}
      BY <2>12 DEF ClaimInterrupt, CompleteInterrupt, Return, clintVars, data
    <3> QED
      BY <2>4, <2>5, <3>1
  <2>13. CASE ServiceI2c
    <3>1. UNCHANGED <<inputs, backend, mtip, timerDone>> /\ Still /\ trap' = "complete"
      BY <2>13 DEF ServiceI2c, clintVars
    <3> QED
      BY <2>4, <2>6, <3>1
  <2>14. CASE OnSources
    <3>1. PassMeip /\ UNCHANGED <<backend, mtip, timerDone, trap>> /\ Still
      BY <2>14 DEF OnSources, clintVars, hart, data
    <3> QED
      BY <2>4, <2>5, <3>1
  <2>15. CASE TimerProc
    <3>1. UNCHANGED <<backend, timerDone, trap>> /\ Still
      BY <2>15 DEF TimerProc, C!StartTimerProc, C!TimerProc, hart, data
    <3>2. CASE C!StartTimerProc /\ UNCHANGED inputs
      BY <2>4, <2>6, <3>1, <3>2 DEF C!StartTimerProc
    <3>3. CASE C!TimerProc /\ PassMtip
      <4>1. mtip' <=> C!Reached
        BY <3>3 DEF C!TimerProc
      <4>2. H!SetIrq(H!Timer, mtip')
        BY <3>3 DEF PassMtip
      <4>3. H!Timer \in H!Pending' => H!Timer \in H!Pending \/ mtip'
        BY <2>1, <3>1, <4>2, SetIrqAdds
      <4>4. Expired' => C!Reached
        BY <3>1, <4>1, <4>3 DEF Expired, DelayInv
      <4> QED
        BY <2>3, <3>1, <4>4 DEF DelayInv
    <3> QED
      BY <2>15, <3>2, <3>3 DEF TimerProc
  <2>16. CASE DeltaCycle
    <3>1. UNCHANGED <<inputs, backend, mtip, timerDone, trap>> /\ Still
      BY <2>16 DEF DeltaCycle, C!DeltaNotify, clintVars, hart, data
    <3> QED
      BY <2>4, <2>6, <3>1
  <2>17. CASE AdvanceTime
    <3>1. UNCHANGED <<inputs, backend, mtip, timerDone, trap, mtimecmp, lo>> /\ now' = now + 1
      BY <2>17 DEF AdvanceTime, C!AdvanceTime, hart, data
    <3>2. now \div Scaler \in Nat /\ (now + 1) \div Scaler \in Nat
          /\ now \div Scaler <= (now + 1) \div Scaler
      <4>1. now \in Nat /\ now + 1 \in Nat /\ now <= now + 1
        BY DEF MainInv
      <4>2. now \div Scaler \in 0 .. (now + 1) \div Scaler /\ (now + 1) \div Scaler \in Nat
        BY <4>1, TicksMonotone, Zenon
      <4> DEFINE t == now \div Scaler
                 u == (now + 1) \div Scaler
      <4>3. t \in 0 .. u /\ u \in Nat
        BY <4>2
      <4> HIDE DEF t, u
      <4>4. t \in Nat /\ u \in Nat /\ t <= u
        BY <4>3
      <4> QED
        BY <4>4 DEF t, u
    <3>3. mtimecmp \in Nat
      BY Bounds DEF MainInv
    <3>4. C!Reached => C!Reached'
      BY <3>1, <3>2, <3>3 DEF C!Reached, C!NowMtime
    <3> QED
      BY <2>6, <3>1, <3>4 DEF DelayInv
  <2>18. CASE UNCHANGED vars
    <3>1. UNCHANGED <<inputs, backend, mtip, timerDone, trap>> /\ Still
      BY <2>18 DEF vars, clintVars, data
    <3> QED
      BY <2>4, <2>6, <3>1
  <2> QED
    BY <2>7, <2>8, <2>9, <2>10, <2>11, <2>12, <2>13, <2>14, <2>15, <2>16, <2>17, <2>18
    DEF Next, Main, TrapHandler, Kernel
<1>3. MainInv /\ DelayInv => TimerNotEarly
  <2> SUFFICES ASSUME MainInv, DelayInv, timerDone \/ trap \in {"timer", "tick"}
               PROVE  C!NowMtime >= hi * Half + lo + Delay
    BY DEF TimerNotEarly
  <2>1. C!NowMtime >= lo + Delay
    BY DEF DelayInv, Expired, C!Reached
  <2>2. hi * Half + lo + Delay = lo + Delay
    BY Bounds DEF MainInv
  <2> QED
    BY <2>1, <2>2
<1> QED
  BY <1>1, <1>2, <1>3, MainCorrect, HartCorrect, PlicEmbedded, ClintEmbedded, PlicResults,
     ClintResults, PTL DEF SafetySpec

-----------------------------------------------------------------------------
(* Spurious external interrupts *)

\* main configures the PLIC before it starts the transfer.
LEMMA ConfiguredFirst ==
    ASSUME program \in {"soc_irq", "clint_timer"}, pc \in 1 .. Len(Code[program])
    PROVE  /\ program = "soc_irq" /\ pc > 10 => Statement \notin {"priority", "enable", "threshold"}
           /\ Statement = "start" => program = "soc_irq" /\ pc + 1 > 10
<1>1. CASE program = "soc_irq"
  <2>1. Code[program] = SocIrqMain /\ Len(SocIrqMain) = 12
    BY <1>1 DEF Code, SocIrqMain
  <2>2. pc \in 1 .. 12
    BY <2>1
  <2> QED
    BY <1>1, <2>1, <2>2 DEF Statement, SocIrqMain
<1>2. CASE program = "clint_timer"
  <2>1. Code[program] = ClintTimerMain /\ Len(ClintTimerMain) = 8
    BY <1>2 DEF Code, ClintTimerMain
  <2>2. pc \in 1 .. 8
    BY <2>1
  <2> QED
    BY <1>2, <2>1, <2>2 DEF Statement, ClintTimerMain
<1> QED
  BY <1>1, <1>2

\* The external interrupt on its way to the handler's claim.
Asked == meip \/ H!External \in H!Pending \/ trap = "claim"

\* Until the device is served its line only rises, once, with the PLIC
\* configured; so an interrupt on its way has an eligible source behind it,
\* on_sources is not about to change that, and the edge-style core holds no
\* second cause while the handler is about to claim.
RequestInv ==
    /\ trap = "complete" => extDone
    /\ ~extDone =>
        /\ line[1] => driven[1]
        /\ driven[1] => program = "soc_irq" /\ pc > 10
        /\ Asked => P!Eligible(1) /\ ~runnable
        /\ trap = "claim" /\ backend = "riscv_tlm" => H!External \notin H!Pending

\* The handler claims 0 only after it has served the device, on either backend
\* and in every order of delta cycles, traps and instructions.
THEOREM SpuriousOnlyLater == SafetySpec => SpuriousOnlyOnceServed
<1>1. Init => RequestInv
  BY DEF Init, P!Init, H!Init, H!Pending, H!NoCause, P!Source, Asked, RequestInv
<1>2. MainInv /\ HartInv /\ P!TypeOK /\ P!TypeOK' /\ C!TypeOK' /\ RequestInv /\ [Next]_vars
        => RequestInv' /\ (ClaimInterrupt /\ rdata' = 0 => extDone)
  <2> SUFFICES ASSUME MainInv, HartInv, P!TypeOK, P!TypeOK', C!TypeOK', RequestInv, [Next]_vars
               PROVE  RequestInv' /\ (ClaimInterrupt /\ rdata' = 0 => extDone)
    OBVIOUS
  <2>1. /\ meip' \in BOOLEAN /\ mtip' \in BOOLEAN
        /\ P!Source = {1}
        /\ line \in [{1} -> BOOLEAN] /\ driven \in [{1} -> BOOLEAN]
    BY DEF P!TypeOK, C!TypeOK, P!Source
  <2>2. H!Timer # H!External
    BY DEF H!Timer, H!External
  <2>3. program \in {"soc_irq", "clint_timer"} /\ pc \in 1 .. Len(Code[program]) /\ pc \in Nat
    BY Places DEF MainInv
  <2>4. ASSUME PassMeip, UNCHANGED backend, ~meip'
        PROVE  /\ H!External \in H!Pending' => H!External \in H!Pending
               /\ (backend = "riscv_tlm" => H!External \notin H!Pending) => H!External \notin H!Pending'
    <3>1. H!SetIrq(H!External, meip')
      BY <2>4 DEF PassMeip
    <3> QED
      BY <2>1, <2>4, <3>1, SetIrqAdds
  \* A step that leaves the PLIC and the hart's inputs alone.
  <2>5. ASSUME UNCHANGED plicVars, UNCHANGED <<inputs, backend, program, extDone>>,
               pc' \in {pc, pc + 1}, trap' \in {trap, "none"}
        PROVE  RequestInv'
    <3>1. Asked' => Asked
      BY <2>5 DEF Asked, H!Pending, plicVars, inputs
    <3>2. (P!Eligible(1) <=> P!Eligible(1)') /\ UNCHANGED <<line, driven, runnable>>
      BY <2>5 DEF P!Eligible, plicVars
    <3>3. H!Pending' = H!Pending
      BY <2>5 DEF H!Pending, inputs
    <3> QED
      BY <2>3, <2>5, <3>1, <3>2, <3>3 DEF RequestInv
  <2>6. CASE ConfigurePlic
    <3>1. /\ PassMeip /\ UNCHANGED <<backend, program, trap, extDone>> /\ trap = "none"
          /\ pc' = pc + 1 /\ Statement \in {"priority", "enable", "threshold"}
          /\ UNCHANGED <<driven, line, runnable>> /\ P!UpdateMeip
      BY <2>6 DEF ConfigurePlic, Step, P!WritePriority, P!WriteEnable, P!WriteThreshold, data
    <3>2. ASSUME ~extDone PROVE ~driven[1] /\ ~line[1] /\ ~Asked
      BY <2>3, <3>1, <3>2, ConfiguredFirst DEF RequestInv, P!Eligible
    <3>3. ASSUME ~extDone PROVE ~meip'
      BY <2>1, <3>1, <3>2, <3>3 DEF P!UpdateMeip, P!Eligible
    <3>4. ASSUME ~extDone PROVE ~Asked'
      BY <2>4, <3>1, <3>2, <3>3, <3>4 DEF Asked
    <3>5. RequestInv'
      BY <3>1, <3>2, <3>4 DEF RequestInv
    <3>6. ~ClaimInterrupt
      BY <3>1 DEF ClaimInterrupt
    <3> QED
      BY <3>5, <3>6
  <2>7. CASE EnableInterrupts \/ ReadMtime \/ ArmTimer \/ Spin
    <3>1. /\ UNCHANGED plicVars /\ UNCHANGED <<inputs, backend, program, extDone>>
          /\ pc' \in {pc, pc + 1} /\ trap' = trap /\ trap = "none"
      BY <2>7 DEF EnableInterrupts, ReadMtime, ArmTimer, Spin, Step, data
    <3> QED
      BY <2>5, <3>1 DEF ClaimInterrupt
  <2>8. CASE StartTransfer
    <3>1. /\ UNCHANGED <<inputs, backend, program, extDone, line, runnable, meip, trap>>
          /\ UNCHANGED <<priority, enable, threshold, claimed>>
          /\ trap = "none" /\ pc' = pc + 1 /\ Statement = "start"
          /\ driven' = [driven EXCEPT ![1] = TRUE]
      BY <2>8 DEF StartTransfer, Step, P!DriveLine, P!config, data
    <3>2. program = "soc_irq" /\ pc' > 10
      BY <2>3, <3>1, ConfiguredFirst
    <3>3. driven'[1]
      BY <2>1, <3>1
    <3>4. Asked' => Asked
      BY <3>1 DEF Asked, H!Pending, inputs
    <3>5. P!Eligible(1) => P!Eligible(1)'
      BY <3>1 DEF P!Eligible
    <3> QED
      BY <3>1, <3>2, <3>3, <3>4, <3>5 DEF RequestInv, ClaimInterrupt
  <2>9. CASE TakeTrap
    <3>1. /\ UNCHANGED plicVars /\ UNCHANGED <<mip, backend, program, extDone, pc>>
          /\ trap = "none" /\ slot' = H!NoCause
          /\ trap' = IF program = "clint_timer" THEN "tick"
                     ELSE IF H!External \in H!Takeable THEN "claim" ELSE "timer"
      BY <2>9 DEF TakeTrap, H!EnterTrap, data
    <3>2. H!Pending' \subseteq H!Pending /\ (backend = "riscv_tlm" => H!Pending' = {})
      BY <3>1 DEF H!Pending
    <3>3. trap' = "claim" => H!External \in H!Pending
      BY <3>1 DEF H!Takeable
    <3>4. Asked' => Asked
      BY <3>1, <3>2, <3>3 DEF Asked, plicVars
    <3>5. (P!Eligible(1) => P!Eligible(1)') /\ UNCHANGED <<line, driven, runnable>>
      BY <3>1 DEF P!Eligible, plicVars
    <3> QED
      BY <3>1, <3>2, <3>4, <3>5 DEF RequestInv, ClaimInterrupt
  <2>10. CASE TimerHandler \/ TickHandler
    <3>1. /\ UNCHANGED plicVars /\ UNCHANGED <<inputs, backend, program, extDone, pc>>
          /\ trap' = "none" /\ trap # "claim"
      BY <2>10 DEF TimerHandler, TickHandler, Return
    <3> QED
      BY <2>5, <3>1 DEF ClaimInterrupt
  <2>11. CASE ClaimInterrupt
    <3>1. PICK best \in 0 .. 1 :
            /\ P!IsBest(best) /\ rdata' = best /\ claimed' = P!Mark(best)
            /\ UNCHANGED <<driven, line, runnable>> /\ P!UpdateMeip
      BY <2>11 DEF ClaimInterrupt, P!Claim
    <3>2. /\ trap = "claim" /\ trap' = IF rdata' = 1 THEN "service" ELSE "complete"
          /\ PassMeip /\ UNCHANGED <<backend, program, pc, extDone>>
      BY <2>11 DEF ClaimInterrupt, data
    <3>3. ASSUME ~extDone
          PROVE  rdata' = 1 /\ 1 \in claimed' /\ ~meip' /\ ~Asked'
      <4>1. P!Eligible(1)
        BY <3>2, <3>3 DEF RequestInv, Asked
      <4>2. best = 1
        BY <2>1, <3>1, <4>1 DEF P!IsBest
      <4>3. 1 \in claimed'
        BY <3>1, <4>2 DEF P!Mark
      <4>4. ~meip'
        BY <2>1, <3>1, <4>3 DEF P!UpdateMeip, P!Eligible
      <4>5. H!External \notin H!Pending'
        BY <2>4, <3>2, <3>3, <4>4 DEF RequestInv
      <4> QED
        BY <3>1, <3>2, <4>2, <4>3, <4>4, <4>5 DEF Asked
    <3>4. RequestInv'
      BY <3>1, <3>2, <3>3 DEF RequestInv
    <3> QED
      BY <3>3, <3>4
  <2>12. CASE ServiceI2c
    <3>1. extDone' /\ trap = "service"
      BY <2>12 DEF ServiceI2c
    <3> QED
      BY <3>1 DEF RequestInv, ClaimInterrupt
  <2>13. CASE CompleteInterrupt
    <3>1. trap = "complete" /\ extDone' = extDone /\ trap' = "none"
      BY <2>13 DEF CompleteInterrupt, Return, data
    <3> QED
      BY <3>1 DEF RequestInv, ClaimInterrupt
  <2>14. CASE OnSources
    <3>1. /\ PassMeip /\ UNCHANGED <<backend, program, pc, trap, extDone>>
          /\ runnable /\ ~runnable' /\ P!UpdateMeip
          /\ UNCHANGED <<driven, line, priority, enable, threshold, claimed>>
      BY <2>14 DEF OnSources, P!OnSources, P!config, hart, data
    <3>2. meip' <=> P!Eligible(1)'
      BY <2>1, <3>1 DEF P!UpdateMeip
    <3>3. ASSUME ~extDone PROVE ~Asked /\ trap # "claim"
      BY <3>1, <3>3 DEF RequestInv, Asked
    <3>4. ASSUME ~extDone, ~meip' PROVE ~Asked'
      BY <2>4, <3>1, <3>3, <3>4 DEF Asked
    <3>5. RequestInv'
      BY <3>1, <3>2, <3>3, <3>4 DEF RequestInv
    <3>6. ClaimInterrupt => UNCHANGED runnable
      BY DEF ClaimInterrupt, P!Claim
    <3> QED
      BY <3>1, <3>5, <3>6
  <2>15. CASE TimerProc
    <3>1. /\ UNCHANGED plicVars /\ UNCHANGED <<backend, program, pc, trap, extDone>>
          /\ UNCHANGED inputs \/ PassMtip
      BY <2>15 DEF TimerProc, hart, data
    <3>2. H!External \in H!Pending' => H!External \in H!Pending
      <4>1. CASE UNCHANGED inputs
        BY <3>1, <4>1 DEF H!Pending, inputs
      <4>2. CASE PassMtip
        <5>1. H!SetIrq(H!Timer, mtip')
          BY <4>2 DEF PassMtip
        <5> QED
          BY <2>1, <2>2, <3>1, <5>1, SetIrqAdds
      <4> QED
        BY <3>1, <4>1, <4>2
    <3>3. Asked' => Asked
      BY <3>1, <3>2 DEF Asked, plicVars
    <3>4. (P!Eligible(1) => P!Eligible(1)') /\ UNCHANGED <<line, driven, runnable>>
      BY <3>1 DEF P!Eligible, plicVars
    <3>5. ClaimInterrupt => trap' # trap
      BY DEF ClaimInterrupt
    <3> QED
      BY <3>1, <3>2, <3>3, <3>4, <3>5 DEF RequestInv
  <2>16. CASE DeltaCycle
    <3>1. /\ UNCHANGED <<inputs, backend, program, pc, trap, extDone, meip, driven>>
          /\ UNCHANGED <<priority, enable, threshold, claimed>>
          /\ \/ line' = driven /\ line # driven
             \/ UNCHANGED <<line, runnable>>
      BY <2>16 DEF DeltaCycle, P!UpdatePhase, P!config, plicVars, hart, data
    <3>2. Asked' <=> Asked
      BY <3>1 DEF Asked, H!Pending, inputs
    <3>3. H!Pending' = H!Pending
      BY <3>1 DEF H!Pending, inputs
    <3>4. ASSUME ~extDone, Asked PROVE UNCHANGED <<line, runnable>>
      <4>1. line[1] /\ driven[1]
        BY <3>4 DEF RequestInv, P!Eligible
      <4>2. line = driven
        BY <2>1, <4>1
      <4> QED
        BY <3>1, <4>2
    <3>5. ASSUME ~extDone, Asked PROVE P!Eligible(1)' /\ ~runnable'
      BY <3>1, <3>4, <3>5 DEF RequestInv, P!Eligible
    <3>6. RequestInv'
      BY <3>1, <3>2, <3>3, <3>5 DEF RequestInv
    <3>7. ClaimInterrupt => trap' # trap
      BY DEF ClaimInterrupt
    <3> QED
      BY <3>1, <3>6, <3>7
  <2>17. CASE AdvanceTime \/ UNCHANGED vars
    <3>1. UNCHANGED plicVars /\ UNCHANGED <<inputs, backend, program, extDone, pc, trap>>
      BY <2>17 DEF AdvanceTime, hart, vars, data
    <3>2. ClaimInterrupt => trap' # trap
      BY DEF ClaimInterrupt
    <3> QED
      BY <2>5, <3>1, <3>2
  <2> QED
    BY <2>6, <2>7, <2>8, <2>9, <2>10, <2>11, <2>12, <2>13, <2>14, <2>15, <2>16, <2>17
    DEF Next, Main, TrapHandler, Kernel
<1> QED
  BY <1>1, <1>2, MainCorrect, HartCorrect, PlicEmbedded, ClintEmbedded, PlicResults, ClintResults,
     PTL DEF SafetySpec, SpuriousOnlyOnceServed

=============================================================================
