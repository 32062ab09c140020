------------------------------- MODULE Clint --------------------------------
(***************************************************************************)
(* The core-local interruptor clint_tlm: a compare register written by the *)
(* hart, and the thread timer_proc that sleeps on cmp_event_.  A SystemC   *)
(* event holds at most one pending notification, the earliest one; a       *)
(* zero-time notification is delivered in the next delta cycle, when no    *)
(* process is runnable any more.  The hart's accesses may fall between any *)
(* two steps of an instant.  Registers and time are Word-valued integers,  *)
(* the product in reschedule wraps.                                        *)
(***************************************************************************)
EXTENDS Naturals

CONSTANTS Half,       \* values of a 32-bit half of a register
          Scaler,     \* kScaler: clock units per tick of mtime
          MaxHigh,    \* largest upper half software writes to mtimecmp
          MaxNow,     \* bound on simulated time
          MaxAccess   \* accesses the hart makes before it lets time pass

ASSUME ClintAssumption ==
    /\ {Half, Scaler, MaxNow, MaxAccess} \subseteq Nat \ {0}
    /\ MaxHigh \in 0 .. Half - 1
    /\ MaxNow < Half * Half

Word == Half * Half
HalfWord == 0 .. Half - 1
CmpValues == {hi * Half + lo : hi \in 0 .. MaxHigh, lo \in HalfWord}
Never == Word   \* later than every time: cmp_event_ has no notification

VARIABLES
    now,        \* sc_time_stamp().value()
    mtimecmp,   \* mtimecmp_
    cmpEvent,   \* time at which cmp_event_ is notified; now: next delta cycle
    proc,       \* timer_proc: "start" (not run yet), "waiting" or "ready"
    mtip,       \* level last passed to cpu_.set_irq(7, _)
    msip,       \* msip_, also the level passed to cpu_.set_irq(3, _)
    accesses    \* accesses the hart has made in this instant

vars == <<now, mtimecmp, cmpEvent, proc, mtip, msip, accesses>>

Earlier(s, t) == IF s < t THEN s ELSE t

Init ==
    /\ now = 0
    /\ mtimecmp = 0
    /\ cmpEvent = Never
    /\ proc = "start"
    /\ mtip = FALSE
    /\ msip = FALSE
    /\ accesses = 0

NowMtime == now \div Scaler

-----------------------------------------------------------------------------
(* b_transport *)

Access == accesses < MaxAccess /\ accesses' = accesses + 1

WriteMsip(bit) ==
    /\ Access
    /\ msip' = bit
    /\ UNCHANGED <<now, mtimecmp, cmpEvent, proc, mtip>>

\* slice_write of a half or of the whole register.
Slices(old, hi, lo) == {hi * Half + lo, hi * Half + (old % Half), (old \div Half) * Half + lo}

\* Fault: the compare value changes without waking timer_proc.
WriteMtimecmpQuiet(hi, lo) ==
    /\ Access
    /\ mtimecmp' \in Slices(mtimecmp, hi, lo)
    /\ UNCHANGED <<now, cmpEvent, proc, mtip, msip>>

WriteMtimecmp(hi, lo) ==
    /\ Access
    /\ mtimecmp' \in Slices(mtimecmp, hi, lo)
    /\ cmpEvent' = now   \* notify(SC_ZERO_TIME) replaces any later notification
    /\ UNCHANGED <<now, proc, mtip, msip>>

BTransport ==
    \/ \E bit \in BOOLEAN : WriteMsip(bit)
    \/ \E hi \in 0 .. MaxHigh, lo \in HalfWord : WriteMtimecmp(hi, lo)

-----------------------------------------------------------------------------
(* timer_proc *)

\* Fault: the wake-up is one tick late.
GoalLate(cmp) == ((cmp + 1) * Scaler) % Word

\* Fault: ticks used as clock units.
GoalUnscaled(cmp) == cmp

Goal(cmp) == (cmp * Scaler) % Word

\* reschedule; notify keeps the earlier of the old and the new notification.
Reschedule ==
    cmpEvent' = IF mtimecmp = 0 THEN cmpEvent
                ELSE Earlier(cmpEvent, IF Goal(mtimecmp) > now THEN Goal(mtimecmp) ELSE now)

\* The initial run of the thread reaches wait(cmp_event_).
StartTimerProc ==
    /\ proc = "start"
    /\ proc' = "waiting"
    /\ UNCHANGED <<now, mtimecmp, cmpEvent, mtip, msip, accesses>>

Reached == mtimecmp # 0 /\ NowMtime >= mtimecmp

\* Fault: a wake-up before the compare time neither clears MTIP nor re-arms.
TimerProcOneShot ==
    /\ proc = "ready"
    /\ proc' = "waiting"
    /\ mtip' = (Reached \/ mtip)
    /\ IF Reached THEN UNCHANGED cmpEvent ELSE Reschedule
    /\ UNCHANGED <<now, mtimecmp, msip, accesses>>

\* Fault: the thread re-arms for the compare time although it has passed.
TimerProcPast ==
    /\ proc = "ready"
    /\ proc' = "waiting"
    /\ mtip' = Reached
    /\ cmpEvent' = IF mtimecmp = 0 THEN cmpEvent ELSE Earlier(cmpEvent, Goal(mtimecmp))
    /\ UNCHANGED <<now, mtimecmp, msip, accesses>>

TimerProc ==
    /\ proc = "ready"
    /\ proc' = "waiting"
    /\ mtip' = Reached
    /\ IF Reached THEN UNCHANGED cmpEvent ELSE Reschedule
    /\ UNCHANGED <<now, mtimecmp, msip, accesses>>

-----------------------------------------------------------------------------
(* The simulation kernel *)

\* The evaluation phase is over and a zero-time notification is due.
DeltaNotify ==
    /\ proc = "waiting"
    /\ cmpEvent = now
    /\ cmpEvent' = Never
    /\ proc' = "ready"
    /\ UNCHANGED <<now, mtimecmp, mtip, msip, accesses>>

\* Nothing is runnable and no delta notification is pending: time passes, and
\* a notification that falls due wakes the thread.
AdvanceTime ==
    /\ proc = "waiting"
    /\ cmpEvent # now
    /\ now < MaxNow
    /\ now' = now + 1
    /\ accesses' = 0
    /\ IF cmpEvent = now'
         THEN cmpEvent' = Never /\ proc' = "ready"
         ELSE UNCHANGED <<cmpEvent, proc>>
    /\ UNCHANGED <<mtimecmp, mtip, msip>>

Next ==
    \/ BTransport
    \/ StartTimerProc
    \/ TimerProc
    \/ DeltaNotify
    \/ AdvanceTime

\* The kernel runs every runnable process and delivers every notification,
\* and time advances when an instant is over.
Fairness ==
    /\ WF_vars(StartTimerProc)
    /\ WF_vars(TimerProc)
    /\ WF_vars(DeltaNotify)
    /\ WF_vars(AdvanceTime)

SafetySpec == Init /\ [][Next]_vars
Spec == SafetySpec /\ Fairness

-----------------------------------------------------------------------------
(* Properties *)

\* Type invariant: a pending notification is never in the past and the clock,
\* the compare register and the thread state keep their types.
TypeOK ==
    /\ now \in 0 .. MaxNow
    /\ mtimecmp \in CmpValues
    /\ cmpEvent \in now .. Never
    /\ proc \in {"start", "waiting", "ready"}
    /\ mtip \in BOOLEAN
    /\ msip \in BOOLEAN
    /\ accesses \in 0 .. MaxAccess

\* timer_proc has run for the present instant and no notification is due in it.
Settled == proc = "waiting" /\ cmpEvent # now

\* README.md of clint_tlm: "When mtime >= mtimecmp (and mtimecmp != 0) the
\* timer interrupt is asserted", and only then, at the end of every instant,
\* for every order of compare writes, wake-ups and passing time.
MtipMatchesCompare == Settled => (mtip <=> Reached)

\* An armed compare value that lies ahead has its wake-up pending at exactly
\* the compare time, so a stale notification of an earlier value never
\* replaces it (one pending notification per event, line 104).
WakeupArmed ==
    Settled /\ mtimecmp # 0 /\ ~Reached => cmpEvent = mtimecmp * Scaler

\* The thread promises the compare timer: it is the refinement of
\* CompareTimer in which Settle is a run of timer_proc.
Abstract == INSTANCE CompareTimer
CompareTimerSpec == Abstract!TSpec

\* clint_tlm.cpp line 114, "clear MTIP, wait for compare time": timer_proc
\* sleeps until simulated time moves, it never keeps the kernel in one instant.
TimeProgresses == \A t \in 0 .. MaxNow - 1 : now = t ~> now > t

=============================================================================
