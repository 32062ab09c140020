-------------------------------- MODULE Hart --------------------------------
(***************************************************************************)
(* The interrupt inputs of a core behind cpu_base, for both backends.      *)
(* riscv_vp copies levels to mip and leaves raise_irq to the base class,   *)
(* where it does nothing.  riscv_tlm acts on asserted levels only and      *)
(* injects the cause into its core, which holds one pending cause and      *)
(* takes it on a later step.  The cores themselves are external: trap      *)
(* entry and mret are modelled from the wrappers' comments.                *)
(***************************************************************************)
EXTENDS Naturals

Software == 3
Timer == 7
External == 11
Cause == {Software, Timer, External}
NoCause == 0

VARIABLES
    backend,   \* CDC_CPU_BACKEND
    mip,       \* riscv_vp: causes whose level is asserted
    slot,      \* riscv_tlm: the pending cause, or NoCause
    lost,      \* history: causes replaced in slot before they were taken
    mie, gie   \* causes enabled in mie; MIE bit of mstatus

inputs == <<mip, slot, lost>>
csrs == <<mie, gie>>

Init ==
    /\ mip = {} /\ slot = NoCause /\ lost = {}
    /\ mie = {} /\ gie = FALSE

\* Fault: a cause injected while interrupts are disabled is dropped.
InjectIfEnabled(cause) ==
    /\ slot' = IF gie THEN cause ELSE slot
    /\ lost' = IF gie THEN lost \cup ({slot} \ {NoCause, cause}) ELSE lost
    /\ UNCHANGED mip

\* riscv_tlm_cpu::raise_irq: call_interrupt replaces the pending cause.
Inject(cause) ==
    /\ slot' = cause
    /\ lost' = lost \cup ({slot} \ {NoCause, cause})
    /\ UNCHANGED mip

RaiseIrq(cause) == IF backend = "riscv_tlm" THEN Inject(cause) ELSE UNCHANGED inputs

\* Fault: a deasserted level leaves the cause in mip.
SetLevelSticky(cause, level) ==
    /\ mip' = IF level THEN mip \cup {cause} ELSE mip
    /\ UNCHANGED <<slot, lost>>

\* riscv_vp_cpu::set_irq
SetLevel(cause, level) ==
    /\ mip' = IF level THEN mip \cup {cause} ELSE mip \ {cause}
    /\ UNCHANGED <<slot, lost>>

\* Fault: a deasserted level injects the cause, too.
SetEdgeAlways(cause, level) == Inject(cause)

\* riscv_tlm_cpu::set_irq: a deasserted level is ignored.
SetEdge(cause, level) == IF level THEN Inject(cause) ELSE UNCHANGED inputs

SetIrq(cause, level) ==
    IF backend = "riscv_vp" THEN SetLevel(cause, level) ELSE SetEdge(cause, level)

Pending == IF backend = "riscv_vp" THEN mip ELSE {slot} \ {NoCause}

Takeable == IF gie THEN Pending \cap mie ELSE {}

\* Trap entry disables interrupts; the edge-style core clears what it takes.
EnterTrap ==
    /\ gie' = FALSE
    /\ slot' = NoCause
    /\ UNCHANGED <<mip, lost, mie>>

Mret == gie' = TRUE

TypeOK ==
    /\ backend \in {"riscv_vp", "riscv_tlm", "cpu_stub"}
    /\ mip \subseteq Cause /\ lost \subseteq Cause /\ mie \subseteq Cause
    /\ slot \in Cause \cup {NoCause}
    /\ gie \in BOOLEAN

=============================================================================
