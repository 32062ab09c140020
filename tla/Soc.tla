-------------------------------- MODULE Soc ---------------------------------
(***************************************************************************)
(* The platform riscv_custom_soc with its firmware: the CLINT and a PLIC   *)
(* with one source call the hart's set_irq, and the I2C controller's line  *)
(* is the PLIC's source 1.  Either backend runs either program:            *)
(* soc_irq_riscv takes a timer and an external interrupt,                  *)
(* clint_timer_riscv arms the timer before it enables it and takes one.    *)
(* The hart is one kernel process whose quantum ends at arbitrary points,  *)
(* so its instructions interleave freely with the delta cycles of the      *)
(* controllers.  Decoding and the UART are left out.                       *)
(***************************************************************************)
EXTENDS Naturals, Sequences

CONSTANTS Half, Scaler, MaxHigh, MaxNow, MaxAccess,   \* of Clint
          Backends,    \* riscv_vp, riscv_tlm
          Programs,    \* soc_irq, clint_timer
          Delay,       \* ticks from arming to the compare time, 100 in main
          SetupTime    \* bound on the time main takes to arm the timer

ASSUME SocAssumption ==
    /\ {Half, Scaler, MaxNow, MaxAccess} \subseteq Nat \ {0}   \* as in Clint
    /\ MaxHigh \in 0 .. Half - 1
    /\ MaxNow < Half * Half
    /\ Backends \subseteq {"riscv_vp", "riscv_tlm"}
    /\ Programs \subseteq {"soc_irq", "clint_timer"}
    /\ {Delay, SetupTime} \subseteq Nat \ {0}
    /\ SetupTime \div Scaler + Delay < Half             \* no carry into the upper half
    /\ (SetupTime \div Scaler + Delay) * Scaler <= MaxNow

VARIABLES driven, line, runnable, priority, enable, threshold, claimed, meip, rdata,
          now, mtimecmp, cmpEvent, proc, mtip, msip, accesses,
          backend, mip, slot, lost, mie, gie,
          program,    \* the firmware the hart runs
          pc,         \* main: index of the statement it executes next
          trap,       \* trap_handler: its next statement, or "none"
          hi, lo,     \* halves of mtime main has read
          timerDone,  \* timer_done of soc_irq, ticks of clint_timer
          extDone

plicVars == <<driven, line, runnable, priority, enable, threshold, claimed, meip, rdata>>
clintVars == <<now, mtimecmp, cmpEvent, proc, mtip, msip, accesses>>
inputs == <<mip, slot, lost>>
csrs == <<mie, gie>>
data == <<hi, lo, timerDone, extDone>>
vars == <<plicVars, clintVars, inputs, csrs, backend, program, pc, trap, data>>

P == INSTANCE Plic WITH NumSources <- 1, MaxPriority <- 1
C == INSTANCE Clint
H == INSTANCE Hart

\* The statements of either main that matter, in order.
SocIrqMain == <<"priority", "enable", "threshold", "mie", "mstatus",
                "mtimeHi", "mtimeLo", "cmpHi", "cmpLo", "start", "spin", "done">>
ClintTimerMain == <<"mtimeHi", "mtimeLo", "cmpHi", "cmpLo", "mie", "mstatus", "spin", "done">>

Code == [soc_irq |-> SocIrqMain, clint_timer |-> ClintTimerMain]

Statement == Code[program][pc]

Init ==
    /\ P!Init /\ C!Init /\ H!Init
    /\ backend \in Backends /\ program \in Programs
    /\ pc = 1 /\ trap = "none"
    /\ hi = 0 /\ lo = 0 /\ timerDone = FALSE /\ extDone = FALSE

\* update_meip and timer_proc pass their level to the hart on every call.
PassMeip == H!SetIrq(H!External, meip')
PassMtip == H!SetIrq(H!Timer, mtip')

-----------------------------------------------------------------------------
(* main *)

Step(statement) ==
    /\ trap = "none" /\ H!Takeable = {}
    /\ Statement = statement /\ pc' = pc + 1
    /\ UNCHANGED <<backend, program, trap>>

ConfigurePlic ==
    /\ \/ Step("priority") /\ P!WritePriority(1, 1)
       \/ Step("enable") /\ P!WriteEnable({1})
       \/ Step("threshold") /\ P!WriteThreshold(0)
    /\ PassMeip
    /\ UNCHANGED <<clintVars, csrs, data>>

Wanted == IF program = "soc_irq" THEN {H!Timer, H!External} ELSE {H!Timer}

EnableInterrupts ==
    /\ \/ Step("mie") /\ mie' = Wanted /\ UNCHANGED gie
       \/ Step("mstatus") /\ gie' = TRUE /\ UNCHANGED mie
    /\ UNCHANGED <<plicVars, clintVars, inputs, data>>

ReadMtime ==
    /\ \/ Step("mtimeHi") /\ hi' = C!NowMtime \div Half /\ UNCHANGED lo
       \/ Step("mtimeLo") /\ lo' = C!NowMtime % Half /\ UNCHANGED hi
    /\ UNCHANGED <<plicVars, clintVars, inputs, csrs, timerDone, extDone>>

\* Fault: the compare value is the delay itself.
ArmTimerRelative ==
    /\ \/ /\ Step("cmpHi")
          /\ mtimecmp' = hi * Half + (mtimecmp % Half)
          /\ C!WriteMtimecmp(hi, mtimecmp % Half)
       \/ /\ Step("cmpLo")
          /\ mtimecmp' = (mtimecmp \div Half) * Half + (Delay % Half)
          /\ C!WriteMtimecmp(mtimecmp \div Half, Delay % Half)
    /\ UNCHANGED <<plicVars, inputs, csrs, data>>

ArmTimer ==
    /\ \/ /\ Step("cmpHi")
          /\ mtimecmp' = hi * Half + (mtimecmp % Half)
          /\ C!WriteMtimecmp(hi, mtimecmp % Half)
       \/ /\ Step("cmpLo")
          /\ mtimecmp' = (mtimecmp \div Half) * Half + ((lo + Delay) % Half)
          /\ C!WriteMtimecmp(mtimecmp \div Half, (lo + Delay) % Half)
    /\ UNCHANGED <<plicVars, inputs, csrs, data>>

\* The external I2C controller raises its line when the transfer is done.
StartTransfer ==
    /\ Step("start")
    /\ P!DriveLine(1, TRUE)
    /\ UNCHANGED <<clintVars, inputs, csrs, data>>

\* The flags main waits for.
Served == timerDone /\ (program = "soc_irq" => extDone)

\* The loop on the flags, and the last one, which never ends.
Spin ==
    /\ \/ Step("spin") /\ Served
       \/ /\ trap = "none" /\ H!Takeable = {}
          /\ Statement = "done" \/ (Statement = "spin" /\ ~Served)
          /\ UNCHANGED <<backend, program, pc, trap>>
    /\ UNCHANGED <<plicVars, clintVars, inputs, csrs, data>>

Main == ConfigurePlic \/ EnableInterrupts \/ ReadMtime \/ ArmTimer \/ StartTransfer \/ Spin

-----------------------------------------------------------------------------
(* trap_handler *)

\* The core takes the external interrupt before the timer interrupt.  The
\* handler of soc_irq dispatches on mcause, that of clint_timer does not.
TakeTrap ==
    /\ trap = "none" /\ H!Takeable # {}
    /\ trap' = IF program = "clint_timer" THEN "tick"
               ELSE IF H!External \in H!Takeable THEN "claim" ELSE "timer"
    /\ H!EnterTrap
    /\ UNCHANGED <<plicVars, clintVars, backend, program, pc, data>>

Return == trap' = "none" /\ H!Mret

\* Fault: the handler leaves the timer interrupt enabled.
MaskTimerNot == UNCHANGED mie

\* MTIP stays high, so the handler masks it.
MaskTimer == mie' = mie \ {H!Timer}

TimerHandler ==
    /\ trap = "timer"
    /\ timerDone' = TRUE
    /\ MaskTimer
    /\ Return
    /\ UNCHANGED <<plicVars, clintVars, inputs, backend, program, pc, hi, lo, extDone>>

\* The whole handler of clint_timer.
TickHandler ==
    /\ trap = "tick"
    /\ timerDone' = TRUE
    /\ mie' = mie \ {H!Timer}
    /\ Return
    /\ UNCHANGED <<plicVars, clintVars, inputs, backend, program, pc, hi, lo, extDone>>

ClaimInterrupt ==
    /\ trap = "claim"
    /\ P!Claim
    /\ PassMeip
    /\ trap' = IF rdata' = 1 THEN "service" ELSE "complete"
    /\ UNCHANGED <<clintVars, backend, program, pc, csrs, data>>

\* The write to IICR drops the line; the PLIC sees that an update phase later.
ServiceI2c ==
    /\ trap = "service"
    /\ P!DriveLine(1, FALSE)
    /\ extDone' = TRUE
    /\ trap' = "complete"
    /\ UNCHANGED <<clintVars, inputs, backend, program, pc, csrs, hi, lo, timerDone>>

\* Fault: the handler returns without completing the interrupt.
CompleteInterruptNot ==
    /\ trap = "complete"
    /\ Return
    /\ UNCHANGED <<plicVars, clintVars, inputs, backend, program, pc, mie, data>>

CompleteInterrupt ==
    /\ trap = "complete"
    /\ P!Complete(rdata)
    /\ PassMeip
    /\ Return
    /\ UNCHANGED <<clintVars, backend, program, pc, mie, data>>

TrapHandler ==
    TakeTrap \/ TimerHandler \/ TickHandler \/ ClaimInterrupt \/ ServiceI2c \/ CompleteInterrupt

-----------------------------------------------------------------------------
(* The controllers' processes and the kernel they share *)

hart == <<csrs, backend, program, pc, trap, data>>

OnSources == P!OnSources /\ PassMeip /\ UNCHANGED <<clintVars, hart>>

TimerProc ==
    /\ \/ C!StartTimerProc /\ UNCHANGED inputs
       \/ C!TimerProc /\ PassMtip
    /\ UNCHANGED <<plicVars, hart>>

\* One delta cycle ends: signals are updated and zero-time notifications are
\* delivered together, when neither controller has a runnable process.
DeltaCycle ==
    /\ ~runnable /\ proc = "waiting"
    /\ line # driven \/ cmpEvent = now
    /\ IF line # driven THEN P!UpdatePhase ELSE UNCHANGED plicVars
    /\ IF cmpEvent = now THEN C!DeltaNotify ELSE UNCHANGED clintVars
    /\ UNCHANGED <<inputs, hart>>

AdvanceTime ==
    /\ ~runnable /\ line = driven
    /\ C!AdvanceTime
    /\ mtimecmp # 0 \/ now < SetupTime
    /\ UNCHANGED <<plicVars, inputs, hart>>

Kernel == OnSources \/ TimerProc \/ DeltaCycle \/ AdvanceTime

Next == Main \/ TrapHandler \/ Kernel

\* The hart's thread is scheduled again and again, the kernel runs what is
\* runnable and lets time pass.
Fairness ==
    /\ WF_vars(Main \/ TrapHandler)
    /\ WF_vars(OnSources) /\ WF_vars(TimerProc)
    /\ WF_vars(DeltaCycle) /\ WF_vars(AdvanceTime)

SafetySpec == Init /\ [][Next]_vars
Spec == SafetySpec /\ Fairness

-----------------------------------------------------------------------------
(* Properties *)

\* Type invariant of the composition; the controllers keep theirs.
TypeOK ==
    /\ P!TypeOK /\ C!TypeOK /\ H!TypeOK
    /\ program \in Programs /\ pc \in 1 .. Len(Code[program])
    /\ trap \in {"none", "timer", "tick", "claim", "service", "complete"}
    /\ hi \in 0 .. Half - 1 /\ lo \in 0 .. Half - 1
    /\ timerDone \in BOOLEAN /\ extDone \in BOOLEAN

\* docs/interrupt_modeling_policy.md: the handler claims, clears the source,
\* then completes.  The PLIC's gateway is closed only while the handler is
\* between its claim and its completion, also when the drop of the line is
\* not visible yet and the interrupt is served twice.
GatewayClosedOnlyInHandler ==
    claimed # {} <=> trap = "service" \/ (trap = "complete" /\ rdata = 1)

\* No interrupt vanishes: once the CLINT or the PLIC has asserted its level,
\* the cause is pending in the hart or being handled, also if it was raised
\* before the firmware enabled it; the one exception is the edge-style
\* backend, where a cause may be replaced by a later one (line 105 of
\* riscv_tlm_wrapper.cpp).
NoInterruptVanishes ==
    /\ mtip /\ ~timerDone =>
        H!Timer \in H!Pending \cup lost \/ trap \in {"timer", "tick"}
    /\ meip => H!External \in H!Pending \cup lost \/ trap = "claim"

\* On the level-style backend the hart's inputs show the devices: at the end of
\* a delta cycle MEIP is pending exactly while the I2C line asks for service
\* through an open gateway, at the end of an instant MTIP exactly from the
\* compare time on, whichever of the two controllers called set_irq last.
LevelsReachHart ==
    backend = "riscv_vp" =>
        /\ ~runnable => (H!External \in mip <=> P!Eligible(1))
        /\ C!Settled => (H!Timer \in mip <=> C!Reached)

\* The timer handler never runs before Delay ticks have passed since main read
\* mtime, although writing either half of mtimecmp wakes timer_proc, with a
\* register that holds half of the new value (soc_irq_riscv line 84).
TimerNotEarly ==
    timerDone \/ trap \in {"timer", "tick"} => C!NowMtime >= hi * Half + lo + Delay

\* The handler claims 0 only after it has served the device: the trap that is
\* taken for a request of the device always finds it, and only one taken
\* while the served line was still high or its level still held is spurious.
SpuriousOnlyOnceServed == [][ClaimInterrupt /\ rdata' = 0 => extDone]_vars

\* Unless a cause was replaced, every interrupt reaches the firmware, in
\* whichever order and wherever it interrupts main or the other: main gets to
\* "done" and stays there with no enabled interrupt pending, so the handler
\* is not entered for ever.
FirmwareFinishes ==
    <>[](lost # {} \/ (Statement = "done" /\ trap = "none" /\ H!Takeable = {}))

=============================================================================
