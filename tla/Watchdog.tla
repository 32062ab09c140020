------------------------------ MODULE Watchdog ------------------------------
(***************************************************************************)
(* The SP805 watchdog: the thread counter_thread counts m_counter down     *)
(* once per tick period, the hart configures and services it through       *)
(* b_transport, and the method drive_outputs copies the computed levels to *)
(* the irq and reset_o signals one delta cycle after update_outputs asked  *)
(* for it; a signal shows its new value after the update phase of that     *)
(* cycle.  quiet and needed are history variables for the properties.      *)
(***************************************************************************)
EXTENDS Naturals

CONSTANTS MaxLoad,    \* bound on load values, also the reset value of m_load
          MaxAccess   \* accesses the hart makes before it lets time pass

ASSUME WatchdogAssumption ==
    /\ MaxLoad \in Nat
    /\ MaxAccess \in Nat /\ MaxAccess >= 1

LoadValue == 0 .. MaxLoad
QuietCap == 2 * (MaxLoad + 1)

VARIABLES
    load,           \* m_load
    counter,        \* m_counter
    inten, resen,   \* INTEN and RESEN of m_control
    ris,            \* m_ris
    irqLevel,       \* m_mis, m_irq_level
    resetAsserted,  \* m_reset_asserted
    resetLevel,     \* m_reset_level
    locked,         \* m_locked
    notified,       \* m_output_changed has a zero-time notification
    driving,        \* drive_outputs is runnable
    written,        \* values drive_outputs wrote to the two signals
    out,            \* values of the two signals
    ticking,        \* counter_thread is runnable: its tick period is over
    accesses,       \* accesses the hart has made in this instant
    quiet,          \* history: counted ticks since software last reloaded
    needed          \* history: counted ticks from then to a reset, at least

registers == <<load, counter, inten, resen, ris, resetAsserted>>
levels == <<irqLevel, resetLevel, notified>>
kernel == <<driving, written, out, ticking>>
history == <<quiet, needed>>
vars == <<registers, levels, locked, kernel, accesses, history>>

Low == [irq |-> FALSE, reset |-> FALSE]

Init ==
    /\ load = MaxLoad /\ counter = MaxLoad
    /\ inten = FALSE /\ resen = FALSE
    /\ ris = FALSE /\ irqLevel = FALSE
    /\ resetAsserted = FALSE /\ resetLevel = FALSE
    /\ locked = FALSE
    /\ notified = FALSE
    /\ driving = TRUE       \* an SC_METHOD also runs at initialization
    /\ written = Low /\ out = Low
    /\ ticking = FALSE
    /\ accesses = 0
    /\ quiet = 0 /\ needed = 2 * (MaxLoad + 1)

\* update_outputs, called after the registers have their new values.
UpdateOutputs ==
    /\ irqLevel' = (ris' /\ inten')
    /\ resetLevel' = resetAsserted'
    /\ notified' = TRUE

\* Software has just reloaded the counter: a reset is two periods away, or
\* one if the first timeout is still pending.
Reloaded ==
    IF resetAsserted THEN UNCHANGED history
    ELSE /\ quiet' = 0
         /\ needed' = (IF ris' THEN 1 ELSE 2) * (load' + 1)

-----------------------------------------------------------------------------
(* b_transport of the hart *)

Access == accesses < MaxAccess /\ accesses' = accesses + 1

ReadReg ==
    /\ Access
    /\ UNCHANGED <<registers, locked, kernel, history>>
    /\ UpdateOutputs

\* Any value but the unlock key locks.
WriteLock(key) ==
    /\ Access
    /\ locked' = ~key
    /\ UNCHANGED <<registers, levels, kernel, history>>

\* Fault: the lock does not cover the control register.
WritableAlways == Access

\* Every other register ignores writes while locked.
Writable == Access /\ ~locked

\* Fault: the counter keeps its old value, which may exceed the new load.
WriteLoadKeepsCounter(value) ==
    /\ Writable
    /\ load' = value
    /\ UNCHANGED <<counter, inten, resen, ris, resetAsserted, levels, locked, kernel>>
    /\ Reloaded

WriteLoad(value) ==
    /\ Writable
    /\ load' = value
    /\ counter' = value
    /\ UNCHANGED <<inten, resen, ris, resetAsserted, levels, locked, kernel>>
    /\ Reloaded

WriteControl(ie, re) ==
    LET reloads == ~inten /\ ie /\ ~resetAsserted IN
    /\ Writable
    /\ inten' = ie
    /\ resen' = re
    /\ counter' = IF reloads THEN load ELSE counter
    /\ UNCHANGED <<load, ris, resetAsserted, locked, kernel>>
    /\ IF reloads THEN Reloaded ELSE UNCHANGED history
    /\ UpdateOutputs

\* Fault: servicing clears the interrupt but does not reload the counter.
WriteIntClrKeepsCounter ==
    /\ Writable
    /\ ris' = FALSE
    /\ UNCHANGED <<load, counter, inten, resen, resetAsserted, locked, kernel>>
    /\ Reloaded
    /\ UpdateOutputs

WriteIntClr ==
    /\ Writable
    /\ ris' = FALSE
    /\ counter' = load
    /\ UNCHANGED <<load, inten, resen, resetAsserted, locked, kernel>>
    /\ Reloaded
    /\ UpdateOutputs

BTransport ==
    \/ ReadReg
    \/ \E key \in BOOLEAN : WriteLock(key)
    \/ \E value \in LoadValue : WriteLoad(value)
    \/ \E ie, re \in BOOLEAN : WriteControl(ie, re)
    \/ WriteIntClr

-----------------------------------------------------------------------------
(* counter_thread *)

\* Fault: the first timeout with RESEN set resets at once.
SecondTimeoutEager == ris \/ resen

\* The timeout finds an unserviced first timeout.
SecondTimeout == ris

\* Fault: a first timeout raises RIS but forgets update_outputs.
HandleTimeoutQuiet ==
    IF SecondTimeout /\ resen
      THEN /\ resetAsserted' = TRUE
           /\ UNCHANGED <<counter, ris>>
           /\ UpdateOutputs
      ELSE /\ counter' = load
           /\ ris' = TRUE
           /\ UNCHANGED <<resetAsserted, levels>>

HandleTimeout ==
    \/ /\ SecondTimeout /\ resen
       /\ resetAsserted' = TRUE
       /\ UNCHANGED <<counter, ris>>
       /\ UpdateOutputs
    \/ /\ SecondTimeout /\ ~resen
       /\ counter' = load
       /\ UNCHANGED <<ris, resetAsserted, levels>>
    \/ /\ ~SecondTimeout
       /\ ris' = TRUE
       /\ counter' = load
       /\ UNCHANGED resetAsserted
       /\ UpdateOutputs

Counts == inten /\ ~resetAsserted

CounterThread ==
    /\ ticking
    /\ ticking' = FALSE
    /\ UNCHANGED <<load, inten, resen, locked, driving, written, out, accesses, needed>>
    /\ \/ /\ ~Counts
          /\ UNCHANGED <<counter, ris, resetAsserted, levels, quiet>>
       \/ /\ Counts
          /\ quiet' = IF quiet < QuietCap THEN quiet + 1 ELSE quiet
          /\ IF counter = 0
               THEN HandleTimeout
               ELSE /\ counter' = counter - 1
                    /\ UNCHANGED <<ris, resetAsserted, levels>>

-----------------------------------------------------------------------------
(* drive_outputs and the simulation kernel *)

DriveOutputs ==
    /\ driving
    /\ driving' = FALSE
    /\ written' = [irq |-> irqLevel, reset |-> resetLevel]
    /\ UNCHANGED <<registers, levels, locked, out, ticking, accesses, history>>

\* Every runnable process has run: the signals take the values written and a
\* pending zero-time notification makes drive_outputs runnable.
DeltaCycle ==
    /\ ~driving /\ ~ticking
    /\ notified \/ out # written
    /\ out' = written
    /\ driving' = notified
    /\ notified' = FALSE
    /\ UNCHANGED <<registers, irqLevel, resetLevel, locked, written, ticking, accesses, history>>

\* Nothing is left to do in this instant.
Quiescent == ~driving /\ ~ticking /\ ~notified /\ out = written

AdvanceTime ==
    /\ Quiescent
    /\ ticking' = TRUE
    /\ accesses' = 0
    /\ UNCHANGED <<registers, levels, locked, driving, written, out, history>>

Next == BTransport \/ CounterThread \/ DriveOutputs \/ DeltaCycle \/ AdvanceTime

\* The kernel runs what is runnable and lets time pass when nothing is.
Fairness ==
    /\ WF_vars(CounterThread)
    /\ WF_vars(DriveOutputs)
    /\ WF_vars(DeltaCycle)
    /\ WF_vars(AdvanceTime)

SafetySpec == Init /\ [][Next]_vars
Spec == SafetySpec /\ Fairness

-----------------------------------------------------------------------------
(* Properties *)

\* Type invariant; the counter never exceeds the load value.
TypeOK ==
    /\ load \in LoadValue
    /\ counter \in 0 .. load
    /\ inten \in BOOLEAN /\ resen \in BOOLEAN
    /\ ris \in BOOLEAN /\ irqLevel \in BOOLEAN
    /\ resetAsserted \in BOOLEAN /\ resetLevel \in BOOLEAN
    /\ locked \in BOOLEAN
    /\ notified \in BOOLEAN /\ driving \in BOOLEAN /\ ticking \in BOOLEAN
    /\ written \in [irq : BOOLEAN, reset : BOOLEAN]
    /\ out \in [irq : BOOLEAN, reset : BOOLEAN]
    /\ accesses \in 0 .. MaxAccess
    /\ quiet \in 0 .. QuietCap
    /\ needed \in 0 .. QuietCap

\* At the end of every instant WDOGINT shows "timed out and enabled" and
\* WDOGRES shows the latched reset: no register write or timeout changes
\* them without a drive_outputs that follows (update_outputs at each site).
OutputsTrackState ==
    Quiescent => out = [irq |-> ris /\ inten, reset |-> resetAsserted]

\* The interrupt is raised by the (load + 1)st counted tick after software
\* last reloaded the counter, never later, across load and control writes.
InterruptNeverLate == ~ris /\ ~resetAsserted => quiet + counter = load

\* README.md: a reset comes "on the second timeout if the interrupt remains
\* unserviced".  From the last software reload at least one full period of
\* counted ticks has passed, two if no timeout was pending then.
ResetNeverEarly == resetAsserted => quiet >= needed

\* README.md: the lock protects against "accidental overwrites of its
\* configuration by runaway software".  Once locked with both enables set,
\* whatever the hart writes, the reset output rises unless the key is written.
RunawayIsReset == locked /\ inten /\ resen ~> out.reset \/ ~locked

=============================================================================
