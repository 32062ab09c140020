---------------------------- MODULE EvalPlatforms ----------------------------
(***************************************************************************)
(* The bring-up platforms, each one program against one interrupting       *)
(* device behind a bus_router: mini_tlm and mini_soc, whose cpu_stub is a  *)
(* C++ thread waiting for the rising edge of the device's line, and        *)
(* riscv_cpu_eval, where on_timer_irq turns the edge into raise_irq of the *)
(* hart, which runs the firmware timer_irq_riscv.  The devices are         *)
(* external: a timer raises its line Interval after it is started, the I2C *)
(* controller in the START write.  Addresses are counted in 4-KiB pages.   *)
(***************************************************************************)
EXTENDS Naturals, Sequences, SequencesExt

CONSTANTS Platforms, Backends,
          Interval,    \* 10 ms in mini_tlm, 50 us in riscv_cpu_eval
          SetupTime,   \* bound on the time the firmware takes to arm the timer
          MaxNow       \* bound on the clock

Stubs == {"mini_tlm", "mini_soc"}

ASSUME EvalAssumption ==
    /\ Platforms \subseteq Stubs \cup {"riscv_cpu_eval"}
    /\ Backends \subseteq {"riscv_vp", "riscv_tlm"}
    /\ {Interval, SetupTime} \subseteq Nat \ {0}
    /\ MaxNow \in Nat /\ SetupTime + Interval <= MaxNow

VARIABLES
    platform,
    backend, mip, slot, lost, mie, gie,   \* of Hart
    now,
    deadline,       \* when the running timer raises its line, or Never
    regs,           \* registers written in the I2C controller
    driven, line,   \* value written to the line; its value in this delta cycle
    woken,          \* a process waiting for the edge is runnable
    ram,            \* the word at kRamBase
    pc,             \* index of the statement the program executes next
    trap, fired,    \* the firmware is in trap_handler; its flag
    output,         \* what the UART has printed
    started,        \* history: when the device was started, or Never
    heard           \* history: when the program learned of the interrupt, or Never

inputs == <<mip, slot, lost>>
csrs == <<mie, gie>>
device == <<deadline, regs, driven, started>>
world == <<platform, backend>>
vars == <<world, inputs, csrs, now, device, line, woken, ram, pc, trap, fired, output, heard>>

H == INSTANCE Hart

Never == MaxNow + 1

\* The bases the programs use, not those of the platforms' memory maps.
UartPage == 65536
RamPage == 524288
DevicePage == IF platform = "mini_tlm" THEN 65537 ELSE 65552

Region(target, base, size) == [target |-> target, base |-> base, size |-> size]

\* Fault: regions of 64 KiB, so the UART of mini_tlm hides its timer.
RegionSizeWide == 16

RegionSize == 1

\* The add_target calls of the three tops, in order.
MiniTlmMap == <<Region("uart", 65536, RegionSize), Region("device", 65537, RegionSize),
                Region("ram", 524288, RegionSize)>>
MiniSocMap == <<Region("uart", 65536, RegionSize), Region("device", 65552, RegionSize),
                Region("ram", 524288, 16)>>
CpuEvalMap == <<Region("ram", 524288, 16), Region("uart", 65536, RegionSize),
                Region("device", 65552, RegionSize)>>

Map == [mini_tlm |-> MiniTlmMap, mini_soc |-> MiniSocMap, riscv_cpu_eval |-> CpuEvalMap]

\* The first region that contains the page serves it.
Decode(page) ==
    LET regions == Map[platform]
        hits == {i \in DOMAIN regions :
                    /\ regions[i].base <= page
                    /\ page < regions[i].base + regions[i].size}
    IN  IF hits = {} THEN "none"
        ELSE regions[CHOOSE i \in hits : \A j \in hits : i <= j].target

\* Fault: on_timer_irq lacks dont_initialize and runs at the start of simulation.
RunnableAtStart == platform = "riscv_cpu_eval"

InitiallyRunnable == FALSE

Init ==
    /\ platform \in Platforms
    /\ backend \in (IF platform \in Stubs THEN {"cpu_stub"} ELSE Backends)
    /\ H!Init
    /\ now = 0 /\ deadline = Never /\ regs = {}
    /\ driven = FALSE /\ line = FALSE /\ woken = InitiallyRunnable
    /\ ram = "zero"
    /\ pc = 1 /\ trap = FALSE /\ fired = FALSE
    /\ output = <<>>
    /\ started = Never /\ heard = Never

-----------------------------------------------------------------------------
(* The bus and the devices behind it *)

StartTimer ==
    /\ deadline' = now + Interval
    /\ started' = now
    /\ UNCHANGED <<regs, driven>>

\* START completes the transfer at once; its interrupt needs IIER and IER.
WriteI2c(reg) ==
    /\ regs' = regs \cup {reg}
    /\ driven' = (driven \/ (reg = "ICTLR" /\ {"IIER", "IER"} \subseteq regs))
    /\ started' = IF reg = "ICTLR" THEN now ELSE started
    /\ UNCHANGED deadline

\* write8 and write32: a page no target serves is an error response, which
\* throws and ends the simulation.
Write(page, value) ==
    LET target == Decode(page)
    IN  /\ target # "none"
        /\ output' = IF target = "uart" THEN Append(output, value) ELSE output
        /\ ram' = IF target = "ram" THEN value ELSE ram
        /\ IF target # "device" THEN UNCHANGED device
           ELSE IF platform = "mini_soc" THEN WriteI2c(value)
           ELSE StartTimer

-----------------------------------------------------------------------------
(* The programs *)

\* run of either stub and main of timer_irq_riscv.
MiniTlmRun == <<"hello", "store", "load", "start", "wait", "report", "end">>
MiniSocRun == <<"hello", "store", "load", "IIER", "IER", "ICTLR", "wait", "report", "end">>
TimerIrqMain == <<"hello", "mie", "mstatus", "start", "spin", "report", "end">>

Code == [mini_tlm |-> MiniTlmRun, mini_soc |-> MiniSocRun, riscv_cpu_eval |-> TimerIrqMain]

Statement == Code[platform][pc]

\* A stub runs to its wait without letting any other process run.
Busy == platform \in Stubs /\ Statement \notin {"wait", "end"}

\* A statement of the program; a hart executes it when it has no trap to take.
Step(statement) ==
    /\ ~trap /\ H!Takeable = {}
    /\ Statement = statement /\ pc' = pc + 1
    /\ UNCHANGED <<world, inputs, now, line, trap, fired>>

\* Each line of text is one write; run of a stub ends with the report of the
\* interrupt, the firmware with "done".
WriteUart ==
    /\ \/ Step("hello") /\ Write(UartPage, "hello")
       \/ Step("report") /\ Write(UartPage, IF platform \in Stubs THEN "irq" ELSE "done")
    /\ UNCHANGED <<csrs, woken, heard>>

\* The pattern is read back from the RAM; a mismatch throws.
TestRam ==
    /\ \/ Step("store") /\ Write(RamPage, "pattern")
       \/ Step("load") /\ Decode(RamPage) = "ram" /\ ram = "pattern"
          /\ UNCHANGED <<output, ram, device>>
    /\ UNCHANGED <<csrs, woken, heard>>

StartDevice ==
    /\ \/ Step("start") /\ Write(DevicePage, "CONTROL")
       \/ \E reg \in {"IIER", "IER", "ICTLR"} : Step(reg) /\ Write(DevicePage, reg)
    /\ UNCHANGED <<csrs, woken, heard>>

\* The stub's wait for posedge_event.
StubResume ==
    /\ Step("wait") /\ woken
    /\ woken' = FALSE
    /\ heard' = now
    /\ UNCHANGED <<csrs, device, ram, output>>

EnableInterrupts ==
    /\ \/ Step("mie") /\ mie' = {H!Timer} /\ UNCHANGED gie
       \/ Step("mstatus") /\ gie' = TRUE /\ UNCHANGED mie
    /\ UNCHANGED <<device, woken, ram, output, heard>>

Spin == Step("spin") /\ fired /\ UNCHANGED <<csrs, device, woken, ram, output, heard>>

TakeTrap ==
    /\ ~trap /\ H!Takeable # {}
    /\ trap' = TRUE
    /\ H!EnterTrap
    /\ heard' = IF heard = Never THEN now ELSE heard
    /\ UNCHANGED <<world, now, device, line, woken, ram, pc, fired, output>>

\* trap_handler and its mret; it neither masks the timer nor clears its line.
TrapHandler ==
    /\ trap /\ trap' = FALSE
    /\ Write(UartPage, "irq")
    /\ fired' = TRUE
    /\ H!Mret
    /\ UNCHANGED <<world, inputs, mie, now, line, woken, pc, heard>>

Program ==
    WriteUart \/ TestRam \/ StartDevice \/ StubResume \/ EnableInterrupts \/ Spin
          \/ TakeTrap \/ TrapHandler

-----------------------------------------------------------------------------
(* The kernel, the timers' process and the interrupt bridge *)

\* Fault: the cause of the supervisor timer interrupt.
CauseSupervisorTimer == 5

CauseMachineTimer == 7

program == <<world, csrs, ram, pc, trap, fired, output, heard>>

TimerFires ==
    /\ ~Busy /\ deadline = now
    /\ deadline' = Never /\ driven' = TRUE
    /\ UNCHANGED <<program, inputs, now, regs, started, line, woken>>

UpdatePhase ==
    /\ ~Busy /\ line # driven
    /\ line' = driven
    /\ woken' = (woken \/ driven)
    /\ UNCHANGED <<program, inputs, now, device>>

\* Fault: the method is sensitive to the level of the line.
OnTimerIrqLevel ==
    /\ platform = "riscv_cpu_eval" /\ woken
    /\ woken' = line
    /\ H!RaiseIrq(CauseMachineTimer)
    /\ UNCHANGED <<program, now, device, line>>

OnTimerIrq ==
    /\ platform = "riscv_cpu_eval" /\ woken
    /\ woken' = FALSE
    /\ H!RaiseIrq(CauseMachineTimer)
    /\ UNCHANGED <<program, now, device, line>>

\* Time passes for a stub only while a timer is running, for a hart always.
AdvanceTime ==
    /\ ~Busy /\ ~woken /\ line = driven
    /\ deadline # now /\ now < MaxNow
    /\ IF platform \in Stubs THEN deadline # Never
       ELSE started # Never \/ now < SetupTime
    /\ now' = now + 1
    /\ UNCHANGED <<program, inputs, device, line, woken>>

Kernel == TimerFires \/ UpdatePhase \/ OnTimerIrq \/ AdvanceTime

Next == Program \/ Kernel

\* The kernel runs every runnable process and lets time pass when none is
\* left; the hart's thread is scheduled again and again.
Fairness ==
    /\ WF_vars(Program) /\ WF_vars(TimerFires) /\ WF_vars(UpdatePhase)
    /\ WF_vars(OnTimerIrq) /\ WF_vars(AdvanceTime)

SafetySpec == Init /\ [][Next]_vars
Spec == SafetySpec /\ Fairness

-----------------------------------------------------------------------------
(* Properties *)

\* Type invariant; a running timer's deadline is never in the past.
TypeOK ==
    /\ H!TypeOK
    /\ platform \in Platforms /\ now \in 0 .. MaxNow
    /\ deadline \in now .. Never /\ regs \subseteq {"IIER", "IER", "ICTLR"}
    /\ {driven, line, woken, trap, fired} \subseteq BOOLEAN
    /\ ram \in {"zero", "pattern"} /\ pc \in 1 .. Len(Code[platform])
    /\ started \in 0 .. Never /\ heard \in 0 .. Never

\* What each platform prints.  raise_irq of riscv_vp is the base class's
\* no-op, so there the firmware stays in its loop.
Expected ==
    IF platform \in Stubs THEN <<"hello", "irq">>
    ELSE IF backend = "riscv_tlm" THEN <<"hello", "irq", "done">>
    ELSE <<"hello">>

\* tests/system expects the lines in this order and each once: the interrupt
\* is handled exactly once although the handler neither masks the timer nor
\* clears its line, which stays high, and "done" follows it.
OutputInOrder == IsPrefix(output, Expected)

\* From the start of the device to its interrupt.
Latency == IF platform = "mini_soc" THEN 0 ELSE Interval

\* platforms/mini_tlm/README.md: "Timer IRQ fired at 10ms".  A stub is woken
\* at the very time the line rises, and firmware never before it: a call of
\* on_timer_irq that no edge caused would be taken as soon as main enables
\* interrupts.
FiredOnTime ==
    heard # Never =>
        /\ started # Never
        /\ heard >= started + Latency
        /\ platform \in Stubs => heard = started + Latency

\* The edge is not lost between the write that starts the device and the
\* wait: every program prints all it is expected to.
IrqReachesCpu == <>(output = Expected)

=============================================================================
