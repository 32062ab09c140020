-------------------------------- MODULE Plic --------------------------------
(***************************************************************************)
(* The platform-level interrupt controller plic_tlm: NumSources level      *)
(* lines, one hart, one context.  A peripheral's write to a line is an     *)
(* sc_signal write: it becomes visible in the next update phase, and only  *)
(* then is the SC_METHOD on_sources made runnable.  Until on_sources has   *)
(* run, a bus access from the hart may already see the new line.  Register *)
(* reads other than the claim, and rejected accesses, change no state.     *)
(***************************************************************************)
EXTENDS Naturals

CONSTANTS NumSources,   \* num_sources of the constructor
          MaxPriority   \* bound on the 32-bit priorities and the threshold

ASSUME PlicAssumption ==
    /\ NumSources \in Nat /\ NumSources >= 1 /\ NumSources <= 31
    /\ MaxPriority \in Nat /\ MaxPriority >= 1

Source == 1 .. NumSources
Priority == 0 .. MaxPriority

\* Bit 0 of the enable word belongs to no source; the bits above NumSources
\* behave exactly like it.
EnableBit == 0 .. NumSources

VARIABLES
    driven,     \* value each peripheral last wrote to its line
    line,       \* irq_in[id - 1].read(): value since the last update phase
    runnable,   \* on_sources is in the kernel's runnable set
    priority,   \* priority_
    enable,     \* set of bits that are one in enable_
    threshold,  \* threshold_
    claimed,    \* ids with claimed_[id] set
    meip,       \* level last passed to cpu_.set_irq(11, _)
    rdata       \* value the last claim read returned to the hart

vars == <<driven, line, runnable, priority, enable, threshold, claimed, meip, rdata>>

config == <<priority, enable, threshold>>

Eligible(id) ==
    /\ line[id]
    /\ id \in enable
    /\ id \notin claimed
    /\ priority[id] > threshold

\* Fault: eligibility computed before the handler's write.
UpdateMeipEarly == meip' = \E id \in Source : Eligible(id)

\* update_meip is the last call of every handler that may change eligibility,
\* so it sees the handler's writes.
UpdateMeip == meip' = \E id \in Source : Eligible(id)'

Init ==
    /\ driven = [id \in Source |-> FALSE]
    /\ line = driven
    /\ runnable = FALSE
    /\ priority = [id \in Source |-> 0]
    /\ enable = {}
    /\ threshold = 0
    /\ claimed = {}
    /\ meip = FALSE
    /\ rdata = 0

-----------------------------------------------------------------------------
(* The lines and the kernel *)

DriveLine(id, level) ==
    /\ driven' = [driven EXCEPT ![id] = level]
    /\ UNCHANGED <<line, runnable, config, claimed, meip, rdata>>

\* The update phase follows the evaluation phase, so no process is runnable;
\* a line that really changes puts on_sources in the next evaluation phase.
UpdatePhase ==
    /\ ~runnable
    /\ line # driven
    /\ line' = driven
    /\ runnable' = TRUE
    /\ UNCHANGED <<driven, config, claimed, meip, rdata>>

OnSources ==
    /\ runnable
    /\ runnable' = FALSE
    /\ UNCHANGED <<driven, line, config, claimed, rdata>>
    /\ UpdateMeip

-----------------------------------------------------------------------------
(* Bus accesses of the hart: b_transport runs without yielding *)

WritePriority(id, p) ==
    /\ priority' = [priority EXCEPT ![id] = p]
    /\ UNCHANGED <<driven, line, runnable, enable, threshold, claimed, rdata>>
    /\ UpdateMeip

WriteEnable(bits) ==
    /\ enable' = bits
    /\ UNCHANGED <<driven, line, runnable, priority, threshold, claimed, rdata>>
    /\ UpdateMeip

\* Fault: MEIP not recomputed after a threshold write.
WriteThresholdQuiet(p) ==
    /\ threshold' = p
    /\ UNCHANGED <<driven, line, runnable, priority, enable, claimed, meip, rdata>>

WriteThreshold(p) ==
    /\ threshold' = p
    /\ UNCHANGED <<driven, line, runnable, priority, enable, claimed, rdata>>
    /\ UpdateMeip

\* What the scan of do_claim leaves in best: ids are scanned upwards and only
\* a strictly greater priority replaces the candidate, so ties go to the
\* lowest id; 0 when nothing is eligible.
IsBest(best) ==
    \/ best = 0 /\ \A id \in Source : ~Eligible(id)
    \/ /\ best \in Source /\ Eligible(best)
       /\ \A id \in Source : Eligible(id) =>
            IF id < best THEN priority[id] < priority[best]
                         ELSE priority[id] <= priority[best]

\* Fault: the empty claim marks entry 0 as in service.
MarkAlways(best) == claimed \cup {best}

\* The gateway of a claimed source stays closed until it is completed.
Mark(best) == IF best # 0 THEN claimed \cup {best} ELSE claimed

Claim ==
    \E best \in 0 .. NumSources :
        /\ IsBest(best)
        /\ rdata' = best
        /\ claimed' = Mark(best)
        /\ UNCHANGED <<driven, line, runnable, config>>
        /\ UpdateMeip

\* Any value may be written to the complete register; one that names no
\* source leaves the gateways alone, one that names a source which is not in
\* service is accepted too.
Complete(value) ==
    /\ claimed' = IF value \in Source THEN claimed \ {value} ELSE claimed
    /\ UNCHANGED <<driven, line, runnable, config, rdata>>
    /\ UpdateMeip

\* The lines' next values and the hart's register accesses.
Peripherals == \E id \in Source, level \in BOOLEAN : DriveLine(id, level)

BTransport ==
    \/ \E id \in Source, p \in Priority : WritePriority(id, p)
    \/ \E bits \in SUBSET EnableBit : WriteEnable(bits)
    \/ \E p \in Priority : WriteThreshold(p)
    \/ Claim
    \/ \E value \in 0 .. NumSources + 1 : Complete(value)

Next == Peripherals \/ UpdatePhase \/ OnSources \/ BTransport

Spec == Init /\ [][Next]_vars

-----------------------------------------------------------------------------
(* Properties *)

\* Type invariant of the controller's registers and lines: in particular
\* claimed_[0] is never set, although 0 is what an empty claim returns.
TypeOK ==
    /\ driven \in [Source -> BOOLEAN]
    /\ line \in [Source -> BOOLEAN]
    /\ runnable \in BOOLEAN
    /\ priority \in [Source -> Priority]
    /\ enable \in SUBSET EnableBit
    /\ threshold \in Priority
    /\ claimed \in SUBSET Source
    /\ meip \in BOOLEAN
    /\ rdata \in 0 .. NumSources

\* The level the hart sees equals "some source is eligible" except in the
\* window between a line's update phase and on_sources: no register write,
\* claim or completion, in any order, leaves MEIP stale (update_meip at the
\* end of each handler of plic_tlm.cpp).
MeipTracksEligible ==
    ~runnable => (meip <=> \E id \in Source : Eligible(id))

\* A claim that returns 0 although MEIP was raised (a spurious external
\* interrupt for the trap handler) happens only in that same window: the line
\* was withdrawn and on_sources has not run yet.
SpuriousClaimOnlyInWindow ==
    [][Claim /\ meip /\ rdata' = 0 => runnable]_vars

=============================================================================
