# Verification of CDC-VP

CDC-VP is a SystemC/TLM-2.0 virtual platform: peripherals and interrupt
controllers written as SystemC modules (`components/`), wrappers around external
RISC-V cores (`cpu_models/`), platforms that wire them (`platforms/`) and
bare-metal firmware (`fw/`). This directory holds TLA+ models of the components
that carry state and concurrency, TLC configurations that check them on small
instances, and TLAPS proofs of what matters most for every instance.
`PROJECT.json` lists runs, source lines behind every definition, hazards,
findings and theorems.

## 1. Inventory

| Part | State | Operations | What makes it correct |
|---|---|---|---|
| `plic_tlm` | priorities, enable word, threshold, claimed flags, level at the hart | register writes, claim, completion, method `on_sources` | the level at the hart equals "some source is eligible"; a claim returns the best eligible source; gateways close and open in pairs |
| `clint_tlm` | `mtimecmp`, `msip`, one event | register writes, thread `timer_proc` | MTIP exactly when `mtime >= mtimecmp != 0`; an armed timer has its wake-up |
| `wdt_tlm` | load, counter, control, raw status, lock, reset latch, levels | register accesses, `counter_thread`, `drive_outputs` | interrupt on time, reset only on the second timeout, reset guaranteed once locked, outputs follow the state |
| `timer_tlm` | control, value, reload, status, pending clear | register writes, `timer_thread` | expiry, clear drops the line, no reset missed, every external clock edge counts once |
| `spi_tlm` | control, mask, raw/masked status, SR, two `sc_fifo`s | register accesses, `transmit`, `update_intr`, `update_status_reg`, `handle_reset` | status and pin agree with the FIFOs; no lost wake-up; frames are read in the order they were written, lost only with an overrun or a reset |
| `pwm_tlm` | six registers, 16-bit counter | register writes, `pwm_thread` | programmed duty in every period |
| `bus_router`, `memory_tlm` | range table, bytes | `add_target`, `load`, blocking and debug transport | one flat memory; ROM is read-only |
| `elf_loader.h` | none of its own | `load_elf`, `dbg_write` | a load that returns has placed every segment |
| `riscv_custom_soc` + `fw/soc_irq_riscv`, `fw/clint_timer_riscv` | wiring; `main`, `trap_handler` | | no interrupt vanishes; the firmware reaches `done` |
| `mini_tlm`, `mini_soc`, `riscv_cpu_eval` + `fw/timer_irq_riscv` | memory map, interrupt line, program position | `cpu_stub::run`, `on_timer_irq`, `main`, `trap_handler` | the programs' addresses reach the devices they mean; the interrupt is handled once, on time; every expected line is printed |
| `riscv_vp`, `riscv_tlm` wrappers | interrupt inputs of external cores | `set_irq`, `raise_irq` | levels reach `mip`; an injected cause stays until it is taken |
| `uart_tlm`, `i2c_tlm`, `dma_tlm`, `irq_aggregator`, `example_custom_ip_tlm`, `dbt_rise`, `simple_riscv_sc`, `cosim_demo`, `riscv_linux_vp` | – | – | directories without code at this commit |

Components interact in three ways: the hart calls a target's `b_transport`
through `bus_router` (a plain call that never yields in this code base);
peripherals drive `sc_signal` lines; controllers call `cpu_base::set_irq`, and the bridge of
`riscv_cpu_eval` calls `raise_irq`.

What is hard here is the SystemC scheduler. Threads, methods and the hart are
coroutines: each runs to its next `wait`, in an unspecified order. Signals and
`sc_fifo`s change only in the update phase after all runnable processes have
run; zero-time notifications are delivered after that; immediate notifications
are lost unless somebody waits; an event holds one pending notification. A state
read in one delta cycle may be stale in the next, and a register access may fall
between any two of these steps.

## 2. How the scheduler is modelled

- One action is one run of a process from its wake-up to its next `wait`, or one
  whole `b_transport` call. They interleave in every order.
- A signal is a pair, the value written and the value visible; the update action
  is enabled only when no process of the module is runnable. An `sc_fifo` has
  entries readable, written and freed in the present delta cycle.
- Each process keeps where it waits (`loc`, `proc`) and whether it is runnable.
- The hart's quantum is not modelled as a number: its accesses may come at any
  point, and `MaxAccess` bounds how many fall in one instant where an unbounded
  number would keep time from passing (a real hart's quantum ends).
- "Settled" or "quiescent" is the end of an instant: nothing runnable, no
  pending update or zero-time notification. Most invariants speak of that point,
  because within an instant outputs lag by design.

## 3. Modules

| Module | Models | State and actions |
|---|---|---|
| `Plic` | `plic_tlm.cpp` | lines, registers, `meip`; one action per register write, `Claim`, `Complete`, `OnSources`, `UpdatePhase` |
| `Clint` | `clint_tlm.cpp` | `now`, `mtimecmp`, the event's pending time, `proc`; register writes, `TimerProc` with `Reschedule`, kernel steps. Words wrap at `Half * Half` |
| `CompareTimer` | abstract | clock, compare value, level: time passes only while the level is right |
| `Watchdog` | `watchdog.cpp` | registers, levels, both signals; accesses, `CounterThread`, `DriveOutputs`. `quiet` and `needed` are history variables |
| `Timer` | `timer.cpp` | registers, the thread's wait statement, signals; writes, `TimerThread`, `TickPeriod`, `UpdatePhase`. `ideal` is history: what a counter clocked by the external edges alone would show |
| `Spi` | `spi.cpp` | registers, FIFOs with their frames, the frame in flight, events, four processes; `resetSr` is history |
| `FrameLink` | abstract | one queue from the words written to DR to the words read from it |
| `Pwm` | `pwm.cpp` | registers and counter with 16- and 32-bit wrapping; `ticks` and `highs` are history |
| `MemBus` | `bus_router.cpp`, `common.h`, `memory_tlm.cpp`, `elf_loader.h` | range table, memories, loader phase, last transaction |
| `FlatMemory` | abstract | one byte array; a transaction transfers the prefix it reports and nothing else |
| `Hart` | `cpu_base.h`, `riscv_vp_wrapper.cpp`, `riscv_tlm_wrapper.cpp` | the interrupt inputs of a core: levels in `mip` for `riscv_vp`, one pending cause for `riscv_tlm`; `SetIrq`, `RaiseIrq`, trap entry. `lost` is history: causes replaced before they were taken |
| `Soc` | `riscv_custom_soc_top.cpp`, the `main.c` of `soc_irq_riscv` and `clint_timer_riscv` | instances of `Plic` (one source), `Clint` and `Hart` sharing one kernel; the program is a sequence of statements and a `trap_handler` |
| `EvalPlatforms` | `mini_tlm_top.cpp`, `mini_soc_top.cpp`, `riscv_cpu_eval_top.cpp`, `fw/timer_irq_riscv/src/main.c` | memory map in 4-KiB pages, the interrupt line, the program and, for `riscv_cpu_eval`, an instance of `Hart`; `started` and `heard` are history |
| `PlicProofs`, `ClintProofs`, `WatchdogProofs`, `CounterProofs`, `SpiProofs`, `MemBusProofs`, `SocProofs`, `EvalProofs` | proofs | each extends the module it is about, `CounterProofs` both `Timer` and `Pwm`; section 6 |

`MC*` modules instantiate them for TLC. Definitions commented "Fault:" are
plausible bugs of the code; no specification uses them, they show that each
property can fail.

Composition: `Soc` instantiates `Plic`, `Clint` and `Hart`, `EvalPlatforms`
instantiates `Hart`; `Clint` implements `CompareTimer`, `MemBus` implements
`FlatMemory`, `Spi` implements `FrameLink`. `SocProofs` instantiates `PlicProofs`
and `ClintProofs`, whose theorems it carries over to the platform.

External, modelled from use: the SystemC kernel and `sc_fifo`, the I2C
controller, the timer with an `irq_out` port that `mini_tlm` and `riscv_cpu_eval`
use (it is not the `timer_tlm` of this commit), trap entry and `mret` of the
cores. Both cores take an interrupt between instructions when it is pending,
enabled in `mie` and MIE is set; the edge-style core clears the cause it takes.
An SPI frame stands for the word sent and for the peripheral's answer to it.

## 4. Runs and bounds

| Run | Bounds | Shows |
|---|---|---|
| `plic` | 2 sources, priorities and thresholds 0..2, all enable words | MEIP and claims right outside the `on_sources` window. Two sources with three priorities give every tie and order; the proofs cover the rest |
| `clint` | 16-value words, scaler 2, 10 instants, 2 accesses each; no product wraps | MTIP, the armed wake-up, refinement of `CompareTimer`. Compare values lie before, at and after the bound on time; the clock is bounded, so the run may end |
| `clint_overflow` | scaler 3, all compare values, so the product wraps | **violation**: delta-cycle livelock |
| `watchdog` | loads 0..2, 2 accesses per tick | outputs, timing, reset of runaway software |
| `timer` | values 0..2, all 16 control words, arbitrary edges | reset, owed clear, external clock, expiry |
| `timer_clear` | values 0..1 | **violation**: clear while disabled leaves the line high |
| `spi` | FIFOs of 2, two frame values, one mask (overrun and receive), 2 accesses per instant | status, interrupts, wake-ups, order and loss of frames. Two entries are the fewest that are empty, half full and full; two values make a swap or a duplicate visible; the mask has one level and one sticky interrupt |
| `spi_reset` | FIFOs of 2 | **violation**: SR stale after reset |
| `pwm` | 32 bits scaled to 16 values, 16 bits to 4; periods 1..5, phases and duties at and beyond the boundaries | exact duty |
| `membus` | 6 addresses: RAM of 2, ROM of 1 behind it, RAM of 2 ending at the top; transactions up to 2 bytes; six images | flat memory, loader, ROM |
| `soc` | both backends, both programs, 9 instants, delay 2 ticks | no interrupt vanishes, the levels reach the hart, the timer handler is never early, only a served request leaves a claim of 0 behind, the programs finish. The compare time can pass before, while and after interrupts are enabled; claims of 0 happen on both backends |
| `eval_platforms` | three platforms, both backends for `riscv_cpu_eval`; interval 3, up to 4 instants of set-up | output, timing and arrival of the interrupt |

`MaxAccess`, `MaxNow`, `MaxHigh`, `MaxLoad`, `MaxReload`, `MaxPriority`,
`MaxLen`, `SetupTime` are the bounds; each is a constant used in guards or sets.
`SetupTime` only keeps `main` from arming the timer beyond `MaxNow`; the time
budget of `sc_start` in `riscv_cpu_eval` (1 ms, twenty intervals) is not modelled.

Where deadlock checking is off (`Clint`, `MemBus`, `EvalPlatforms`), the bounded
clock, an aborted elaboration or a simulation without events really ends the run.

Conditions of the properties: `DutyExact` asks for `phase <= period` and a period
the 16-bit counter reaches (beyond that the code's arithmetic is not a duty
cycle); period 0 is a division by zero and is excluded. `MemBus` assumes
disjoint ranges, each bound to a memory of its size, as all platforms have.
`StatusAccurateOutsideReset` leaves out what `spi_reset` refutes.
`ExternalClockExact` speaks of the time between register accesses: a write while
enabled wakes the thread and counts like an edge, and a clear that is owed
swallows one. `NoInterruptVanishes` and `FirmwareFinishes` except the one loss
the edge-style backend is built with: a cause injected while another is pending
replaces it, which `soc_irq_riscv` can meet when the timer and the I2C interrupt
come together. `OutputInOrder` and `IrqReachesCpu` expect `timer_irq_riscv` to
stay in its loop on `riscv_vp`: that wrapper does not override `raise_irq`, so
the bridge of `riscv_cpu_eval` has no effect there. No document promises
otherwise; the system test runs the default backend, `riscv_tlm`.

### Findings

1. `clint_tlm.cpp:102`: the wrapped product puts the wake-up in the past and
   `timer_proc` notifies itself in zero time for ever. Writing all ones to park
   the timer is the customary way to reach such values.
2. `timer.cpp:78`: INTSTATUS cleared while ENABLE is off drops the status and
   not the line.
3. `spi.cpp:322`: `update_status_reg` in the reset's own delta cycle sees the
   entries it has just drained as still occupying the FIFO, and nothing computes
   SR again.

## 5. Fairness

Weak fairness of every process, of delta cycles and of passing time: the SystemC
kernel runs every runnable process before it updates, updates before it
notifies, and advances time when nothing is left. A frame's shift time and a
tick period are finite. In `Soc` and `EvalPlatforms` the hart's thread is weakly
fair, because the kernel resumes it each quantum. No register access is assumed fair: software may
stop at any time, and the timer's liveness property is about software that does.
The safety runs of `Plic`, `Pwm` and `MemBus` need none.

## 6. Proofs

Every theorem is about `SafetySpec` (or the fairness-free `Spec`), so it holds of
the fair specification too, and for every value of the constants that the
module's named assumption admits. Every module has `TypeCorrect`, its `TypeOK`
(`PwmTypeCorrect` for `Pwm`); what that says beyond the types is mentioned below.

`PlicProofs`, for every `NumSources` in 1..31 and `MaxPriority >= 1`:
- `MeipCorrect`: `MeipTracksEligible` is inductive because each handler that may
  change eligibility ends in `update_meip` (lemma `UpdateMeipRestores`), and a
  line changes only in an update phase, which makes `on_sources` runnable.
- `SpuriousClaimWindow`: an action property, from that invariant: with MEIP right,
  a raised level means an eligible source, which `do_claim` would return.

`ClintProofs`, for every word width, scaler and bound on time:
- `TypeCorrect`: a pending notification is never in the past, because
  `reschedule` turns a past goal into a notification of this instant.
- `MtipCorrect` and `WakeupExact` follow from `ArmedInv`: with no notification due
  now, MTIP is right and a compare value that lies ahead has its wake-up at
  `Goal`; a thread that was woken finds no notification but one of this instant.
  The second part is what makes it inductive: an event keeps the earlier of two
  notifications, so one left over from an old compare value would be kept in
  place of the new one. MTIP is right even where the product with `kScaler` wraps;
  the wake-up is only armed at the compare time where it does not, so
  `WakeupExact` assumes `NoWrap`. Together with the run `clint_overflow` this says
  exactly what the overflow costs: progress, never a wrong level.
- `CompareTimerImplemented`: every step is one of `CompareTimer` or a stutter. It
  rests on `DivBound`, comparing ticks is comparing clock units.

`WatchdogProofs`, for every `MaxLoad` and `MaxAccess >= 1`:
- `TypeCorrect`: `counter <= load` is kept because each write of one writes both.
- `OutputsCorrect`: needs a strengthening. Between the change of a register and
  the quiescent state the correct value travels through `irqLevel`/`resetLevel`,
  `written` and `out`; the invariant says at each stage that the next is right
  or the process that makes it right is pending.
- `InterruptOnTime` and `ResetOnlyAfterSecondTimeout` follow from `TimingInv`,
  which ties the history to the counter: before the first timeout
  `quiet + counter = load`; after it, `needed` is at most the ticks counted plus
  those still to come.

`CounterProofs`, about the timer, for every counter width:
- `TypeCorrect`: the unsigned counter never underflows.
- `LineOwedClear` from `LineInv`, the same statement about the value written to
  the signal, which the update phase then shows.
- `ResetSeen` from `ResetInv`: a thread that is not runnable is at the reset wait
  exactly while `prstn` is low, since every other wait lists the falling edge.
- `ExternalClock` from `ClockInv`: a runnable thread at the wait for `extin` was
  woken by a reset, or by one edge the ideal counter has counted and `value_reg`
  has not.

`CounterProofs`, about the PWM generator, for every pair of widths with
`2 * Half <= Word` (the code has 2^16 and 2^32):
- `DutyIsExact` from `WindowInv`: in a window that has begun, the counter is within
  the period and the high ticks so far are the active ones among the shifted
  counts passed. `ShiftExact` shows that the difference which wraps at 32 bits, is
  reduced to the period and narrowed to 16 bits, is the shifted counter;
  `ActivePeriod` that a whole period passes every shifted count once.

`SpiProofs`, for every FIFO depth of at least 2 and every set of frames:
- `TypeCorrect`: neither FIFO overflows.
- `DeltaInv`: whoever wrote or freed an entry in the present delta cycle has made
  sure of a later run of a method that will see the new level. From it
  `StatusCorrect` (`StatusInv`: SR is right, or `update_status_reg` will still run
  in this instant, or a reset computed it) and `InterruptCorrect`
  (`InterruptInv`, the same for `update_intr`).
- `ResetEmpties`: an action property, what survives `handle_reset`.
- `NoLostWakeup`: at the end of every instant an enabled port with a queued frame
  is shifting one, the safety half of `QueuedFrameIsShifted`. From `WakeInv`: a word
  written in the present delta cycle has notified `transmit`, and a thread asleep
  with work to do has a notification on its way. A notification may be lost on a
  thread that is shifting, but that thread looks at the FIFO before it sleeps.
- `FrameLinkImplemented`: the refinement of `FrameLink`. `Link` joins five
  sequences; each action moves a frame within it, adds one at its end, takes one
  from its front, drops the frame in flight (overrun) or keeps a suffix (reset),
  and each of these is a lemma about `Join`, proved from the laws of
  concatenation alone (`Cat`, `First`, `Rest` and the others hide the sequence
  operators from the provers, which otherwise get lost in them).

`MemBusProofs`, for every map of disjoint ranges below `Word`, each bound to a
memory of its size, every set of images and every request length:
- `FlatMemoryImplemented`: the refinement of `FlatMemory`. `DecodeSound` and
  `HomeUnique` give an address one home, `OverwriteEffect` says where bytes
  written at an offset land in the flat view, and one lemma per kind of
  transaction, loader step and constructor load shows that it is a step of the
  flat memory. A range whose end wraps to 0 decodes nothing, which the abstract
  memory allows as a refused transaction.
- `RomIsStable`: an action property, from the same lemmas.
- `SegmentsResident`: `LoaderInv` adds that nothing is loaded while the platform
  is built. A segment stays where it is because only later segments write.

`SocProofs`, for both backends, both programs and every bound on time, delay and
set-up time that lets `main` arm the timer without a carry into the upper half
of `mtimecmp` (2^32 ticks are far more than the firmware waits):
- `PlicEmbedded` and `ClintEmbedded`: the platform implements the specification of
  each controller, so `LevelsCorrect` carries their theorems over to it. For the
  CLINT this needs `MainInv`, what `main` has read and written so far: the
  composition makes no sense if firmware leaves the range the controller's
  accesses are specified for.
- `GatewayCorrect` from `ServiceInv`, which adds that the handler serves the device
  only with source 1 claimed.
- `NothingVanishes`: with `SetIrqKeeps`, a cause is forgotten only by a deassertion
  of its own level; and with `HartInv`, only the causes the program wants are ever
  enabled, so a trap is always one the handler handles.
- `LevelsArrive`: `LevelsReachHart` speaks of the devices, not of the controllers'
  levels, so it needs both halves of the path. `LevelsCorrect` is the first;
  `MipInv`, `mip` shows what the controllers passed last, is the second, and holds
  because every step that computes a level passes it on and `set_irq` touches one
  cause (`SetLevelExact`).
- `DelayHonoured` from `DelayInv`: an armed compare value is the one `main` means,
  and the interrupt is nowhere on its way (level, pending cause, trap, handled)
  before that time. The stages have to be in it because each hands the fact to
  the next, and on `riscv_tlm` the pending cause outlives the level. It needs
  `MainInv`: the upper half is written first and is 0, so that what `timer_proc`
  finds between the two writes arms nothing; and `TicksMonotone`, a compare time
  reached stays reached.
- `SpuriousOnlyLater`, an action property, from `RequestInv`: until the device is
  served its line only rises, once and with the PLIC configured, so an interrupt
  on its way has an eligible source behind it. That `on_sources` is not runnable
  then is part of it: without that the next update phase could withdraw the
  level between trap and claim, and the invariant is not inductive. A second
  external trap, taken while the served line is still high or its cause still
  held, may well claim 0, on either backend.

`EvalProofs`, for every interval, set-up time and set of platforms and backends
that `EvalAssumption` admits. `Inv` is inductive and gives all three theorems; it
follows the one interrupt of a run through its stages (`EdgeInv`):
- `Idle`: the device is not started; the lines are low and nothing is pending.
- `Running`: the timer runs towards `started + Interval`, the program waits.
- `Raised`: the line is driven and the process that waits for the edge has not run
  since. No time passes here, which is why a stub hears of it in the very instant.
  The I2C controller enters this stage inside the START write, before the stub's
  wait; the line is not visible before the update phase, so the edge is not lost.
- `Delivered`: the edge is consumed. On `riscv_tlm` the cause is in the core until
  the one trap takes it; on `riscv_vp` it is gone.

The rest of `Inv` says where the program must be for each of these: what has been
printed (`OutputInv`), what is enabled (`CoreInv`), and that START finds both
enables written (`DataInv`). `DecodeProgram` shows that the addresses hard-wired
in the programs are served by the devices they mean on their platform's map.
- `OutputOrdered`: each line at most once, in order. A second `irq` would need a
  second edge or a second injection, and no stage follows `Delivered`.
- `InterruptOnTime`: `FiredOnTime`; the firmware's trap may be late, never early.

Only model-checked:
- Liveness, which the prover does not reach: `RunawayIsReset`,
  `FreeRunningExpires`, `QueuedFrameIsShifted`, `FirmwareFinishes`, `IrqReachesCpu`
  and the fairness part of `CompareTimerSpec`.

Every safety property of the passing runs is stated by a theorem.

## 7. Not modelled

- UART, I2C internals, DMA and the other empty directories; the cores.
- SPI: the width mask (the code masks what it receives, `spi.cpp:108`, and hands
  the peripheral the unmasked word), durations, DMACR; register offsets, which
  `write_reg` narrows to 8 bits.
- Register read values other than claim and data reads; ELF header parsing; DMI
  (`get_direct_mem_ptr` is not forwarded by the router).
- The testbenches beside `timer_tlm`, `spi_tlm` and `pwm_tlm`: fixed sequences of
  accesses that the models' arbitrary accesses include.
- `fw` hello and bench, the benchmark mode of `riscv_cpu_eval`, logging, tracing.

## 8. Plan

Done, in this order, because the interrupt path is what the platform is for:
`Plic`, `Clint`, `Soc`; the timed peripherals; the memory path; frame contents
and `FrameLink`; the external clock of `Timer`; the edge-style backend and the
second program in `Soc`; the bring-up platforms; then the proofs of section 6,
controllers first, because `Soc` uses their theorems, then the platforms.
What is left:

1. The liveness properties stay with TLC. Their safety halves are proved: no
   wake-up, cause or edge is lost (`WakeupExact`, `NoLostWakeup`, `NothingVanishes`,
   `Inv` of `EvalProofs`), so what remains is that the kernel and the hart keep
   running.
2. The I2C controller and the UART, when their source is part of the repository.
