------------------------------- MODULE Timer --------------------------------
(***************************************************************************)
(* The SSE-100 timer: the thread timer_thread counts value_reg down on its *)
(* own tick period or on edges of extin, and the hart's b_transport wakes  *)
(* it with immediate notifications, which are lost unless the thread is    *)
(* waiting for that very event.  Signals change in the update phase, when  *)
(* no process is runnable.  Reads change no state.                         *)
(***************************************************************************)
EXTENDS Naturals

CONSTANT MaxReload   \* bound on the 32-bit counter and reload values

ASSUME TimerAssumption == MaxReload \in Nat

CtrlBit == {"ENABLE", "EX_EN", "EX_CLK", "INTR_EN"}
Count == 0 .. MaxReload
Void == MaxReload + 1   \* no comparison with an ideal counter is due

VARIABLES
    ctrl,         \* bits set in ctrl_reg
    value,        \* value_reg
    reload,       \* reload_reg
    intrStatus,   \* intr_status
    intrClear,    \* intr_clear_inc
    loc,          \* wait statement timer_thread is at (or was woken from)
    runnable,     \* timer_thread is in the kernel's runnable set
    prstn,        \* reset input, active low
    extin,        \* external input
    written,      \* value last written to timerint
    timerint,     \* value of the timerint signal
    ideal         \* history: what a counter clocked by rising edges of extin
                  \* shows since the thread began to wait for them, or Void

registers == <<ctrl, value, reload, intrStatus, intrClear>>
signals == <<prstn, extin, timerint>>
vars == <<registers, loc, runnable, written, signals, ideal>>

Waits == {"start", "reset", "disabled", "tick", "extclk"}

Init ==
    /\ ctrl = {} /\ value = 0 /\ reload = 0
    /\ intrStatus = FALSE /\ intrClear = FALSE
    /\ loc = "start" /\ runnable = TRUE   \* the initial run of the SC_THREAD
    /\ prstn = FALSE /\ extin = FALSE
    /\ written = FALSE /\ timerint = FALSE
    /\ ideal = Void

-----------------------------------------------------------------------------
(* b_transport: writes of the hart *)

\* Immediate notifications of update_reg and of intr_clear.
NotifyUpdate == runnable' = (runnable \/ loc \in {"disabled", "tick", "extclk"})
NotifyClear == runnable' = (runnable \/ loc \in {"tick", "extclk"})

WriteCtrl(bits) ==
    /\ ctrl' = bits
    /\ NotifyUpdate
    /\ UNCHANGED <<value, reload, intrStatus, intrClear, loc, written, signals>>

WriteValue(n) ==
    /\ value' = n
    /\ NotifyUpdate
    /\ UNCHANGED <<ctrl, reload, intrStatus, intrClear, loc, written, signals>>

WriteReload(n) ==
    /\ reload' = n
    /\ value' = n
    /\ NotifyUpdate
    /\ UNCHANGED <<ctrl, intrStatus, intrClear, loc, written, signals>>

\* Fault: the clear relies on the notification alone.
ClearIntStatusUnlatched ==
    /\ intrStatus' = FALSE
    /\ NotifyClear
    /\ UNCHANGED <<ctrl, value, reload, intrClear, loc, written, signals>>

ClearIntStatus ==
    /\ intrStatus' = FALSE
    /\ intrClear' = TRUE
    /\ NotifyClear
    /\ UNCHANGED <<ctrl, value, reload, loc, written, signals>>

Software ==
    /\ \/ \E bits \in SUBSET CtrlBit : WriteCtrl(bits)
       \/ \E n \in Count : WriteValue(n) \/ WriteReload(n)
       \/ ClearIntStatus
    /\ ideal' = Void

-----------------------------------------------------------------------------
(* timer_thread: one run, from its wake-up to the next wait *)

\* Fault: the reload value is loaded but the expiry is not recorded.
CountDownNoStatus ==
    IF value = 0
      THEN /\ value' = reload
           /\ written' = ("INTR_EN" \in ctrl \/ written)
           /\ UNCHANGED intrStatus
      ELSE /\ value' = value - 1
           /\ UNCHANGED <<intrStatus, written>>

\* Fault: the expiry test follows the decrement, which underflows.
CountDownUnderflow ==
    /\ value' = IF value = 1 THEN reload ELSE value - 1
    /\ intrStatus' = (value = 1 \/ intrStatus)
    /\ written' = ((value = 1 /\ "INTR_EN" \in ctrl) \/ written)

CountDown ==
    IF value = 0
      THEN /\ value' = reload
           /\ intrStatus' = TRUE
           /\ written' = ("INTR_EN" \in ctrl \/ written)
      ELSE /\ value' = value - 1
           /\ UNCHANGED <<intrStatus, written>>

\* What follows a wait with the counter enabled, whatever event ended it.
Step ==
    \/ /\ intrClear
       /\ intrClear' = FALSE
       /\ written' = FALSE
       /\ UNCHANGED <<value, intrStatus>>
    \/ /\ ~intrClear
       /\ "EX_EN" \in ctrl /\ ~extin
       /\ UNCHANGED <<value, intrStatus, intrClear, written>>
    \/ /\ ~intrClear
       /\ "EX_EN" \in ctrl => extin
       /\ CountDown
       /\ UNCHANGED intrClear

\* The wait chosen at the top of the loop, out of reset.
NextWait ==
    IF "ENABLE" \notin ctrl THEN "disabled"
    ELSE IF "EX_CLK" \in ctrl THEN "extclk"
    ELSE "tick"

\* reset() at the top of the loop overrides what the step before it did.
Reset ==
    /\ ctrl' = {} /\ value' = 0 /\ reload' = 0
    /\ intrStatus' = FALSE
    /\ intrClear' = (intrClear /\ loc \notin {"tick", "extclk"})
    /\ written' = FALSE
    /\ loc' = "reset"

TimerThread ==
    /\ runnable
    /\ runnable' = FALSE
    /\ UNCHANGED signals
    /\ \/ /\ ~prstn
          /\ Reset
       \/ /\ prstn
          /\ loc' = NextWait
          /\ UNCHANGED <<ctrl, reload>>
          /\ IF loc \in {"tick", "extclk"}
               THEN Step
               ELSE UNCHANGED <<value, intrStatus, intrClear, written>>
    /\ ideal' = IF loc' # "extclk" \/ intrClear' THEN Void
                ELSE IF ideal = Void THEN value'
                ELSE ideal

-----------------------------------------------------------------------------
(* The simulation kernel and the surroundings *)

\* wait(tick_period, ...) times out.
TickPeriod ==
    /\ ~runnable
    /\ written = timerint
    /\ loc = "tick"
    /\ runnable' = TRUE
    /\ UNCHANGED <<registers, loc, written, signals, ideal>>

\* Fault: a disabled timer does not wait for the reset edge.
WokenByDeaf(reset, ext) ==
    \/ loc = "reset" /\ reset /\ ~prstn
    \/ loc \in {"tick", "extclk"} /\ ~reset /\ prstn
    \/ loc = "extclk" /\ ext /\ ~extin

\* Fault: the external clock is its level, not its rising edge.
WokenByLevel(reset, ext) ==
    \/ loc = "reset" /\ reset /\ ~prstn
    \/ loc \in {"disabled", "tick", "extclk"} /\ ~reset /\ prstn
    \/ loc = "extclk" /\ ext

\* The edges the thread's wait statement is sensitive to.
WokenBy(reset, ext) ==
    \/ loc = "reset" /\ reset /\ ~prstn
    \/ loc \in {"disabled", "tick", "extclk"} /\ ~reset /\ prstn
    \/ loc = "extclk" /\ ext /\ ~extin

\* The surroundings drive prstn and extin; edges wake the thread.
UpdatePhase(reset, ext) ==
    /\ ~runnable
    /\ prstn' = reset
    /\ extin' = ext
    /\ timerint' = written
    /\ runnable' = WokenBy(reset, ext)
    /\ ideal' = IF ideal = Void \/ ~(ext /\ ~extin) THEN ideal
                ELSE IF ideal = 0 THEN reload
                ELSE ideal - 1
    /\ UNCHANGED <<registers, loc, written>>

\* An update phase in which only timerint changes.
PublishOutput == written # timerint /\ UpdatePhase(prstn, extin)

Next ==
    \/ Software
    \/ TimerThread
    \/ TickPeriod
    \/ \E reset, ext \in BOOLEAN : UpdatePhase(reset, ext)

Fairness ==
    /\ WF_vars(TimerThread)
    /\ WF_vars(TickPeriod)
    /\ WF_vars(PublishOutput)

SafetySpec == Init /\ [][Next]_vars
Spec == SafetySpec /\ Fairness

-----------------------------------------------------------------------------
(* Properties *)

\* Type invariant of registers, signals and the thread's position.
TypeOK ==
    /\ ctrl \in SUBSET CtrlBit
    /\ value \in Count /\ reload \in Count
    /\ intrStatus \in BOOLEAN /\ intrClear \in BOOLEAN
    /\ loc \in Waits /\ runnable \in BOOLEAN
    /\ prstn \in BOOLEAN /\ extin \in BOOLEAN
    /\ written \in BOOLEAN /\ timerint \in BOOLEAN
    /\ ideal \in Count \cup {Void}

\* The thread waits and its output is visible.
Settled == ~runnable /\ written = timerint

\* The interrupt line never outlives its status bit, except while a clear is
\* latched in intr_clear_inc and not yet carried out by the thread.
LineOutlivesStatusOnlyIfClearOwed ==
    Settled /\ timerint /\ ~intrStatus => intrClear

\* A reset pulse is never missed, from any wait statement and however short:
\* once the update phase of a low prstn has settled the thread is in reset
\* and the interrupt line is low.
ResetHonoured ==
    Settled /\ ~prstn => loc = "reset" /\ ~timerint

\* README.md line 29, EXT_CLK: "use extin rising edges as the clock source".
\* While the thread waits for extin and no register is accessed (an access
\* counts like an edge, and a clear that is owed swallows one), every rising
\* edge counts once, and nothing else does: no level, falling edge or update
\* of another signal.
ExternalClockExact == ~runnable /\ ideal # Void => value = ideal

\* The timer runs from its own tick period with no gating.
FreeRunning ==
    prstn /\ "ENABLE" \in ctrl /\ "EX_EN" \notin ctrl /\ "EX_CLK" \notin ctrl

\* README.md: "INTSTATUS still sets without" INTR_EN.  A free-running timer
\* whose registers software leaves alone expires and stays so, whatever
\* values it was left with and even if the same values are written again.
FreeRunningExpires ==
    <>[]FreeRunning /\ <>[][TimerThread \/ UNCHANGED registers]_vars => <>[]intrStatus

\* README.md line 24, INTSTATUS: "Interrupt pending flag (write 0x1 to
\* clear)": once the flag reads cleared and everything has settled, the
\* interrupt line is low.
ClearDropsLine == Settled /\ timerint => intrStatus

=============================================================================
