----------------------------- MODULE PlicProofs -----------------------------
(***************************************************************************)
(* Proofs about the interrupt controller for any number of sources and any *)
(* range of priorities: type correctness, and MEIP never stale outside the *)
(* window in which on_sources is runnable.                                 *)
(***************************************************************************)
EXTENDS Plic, TLAPS

\* Type correctness: every register, line and gateway of plic_tlm keeps its
\* type, and claimed_[0] is never set.
THEOREM TypeCorrect == Spec => []TypeOK
<1>1. Init => TypeOK
  <2> SUFFICES ASSUME Init PROVE TypeOK
    OBVIOUS
  <2>1. 0 \in Priority /\ 0 \in 0 .. NumSources
    BY PlicAssumption DEF Priority
  <2>2. driven \in [Source -> BOOLEAN] /\ line \in [Source -> BOOLEAN]
    BY DEF Init
  <2>3. priority \in [Source -> Priority]
    BY <2>1 DEF Init
  <2> QED
    BY <2>1, <2>2, <2>3 DEF Init, TypeOK
<1>2. TypeOK /\ [Next]_vars => TypeOK'
  <2> SUFFICES ASSUME TypeOK, [Next]_vars PROVE TypeOK'
    OBVIOUS
  <2> USE DEF TypeOK
  <2>1. CASE Peripherals
    BY <2>1 DEF Peripherals, DriveLine, config
  <2>2. CASE UpdatePhase
    BY <2>2 DEF UpdatePhase, config
  <2>3. CASE OnSources
    BY <2>3 DEF OnSources, UpdateMeip, config
  <2>4. CASE BTransport
    <3>1. ASSUME NEW id \in Source, NEW p \in Priority, WritePriority(id, p)
          PROVE  TypeOK'
      BY <3>1 DEF WritePriority, UpdateMeip
    <3>2. ASSUME NEW bits \in SUBSET EnableBit, WriteEnable(bits)
          PROVE  TypeOK'
      BY <3>2 DEF WriteEnable, UpdateMeip
    <3>3. ASSUME NEW p \in Priority, WriteThreshold(p)
          PROVE  TypeOK'
      BY <3>3 DEF WriteThreshold, UpdateMeip
    <3>4. CASE Claim
      <4>1. PICK best \in 0 .. NumSources :
              /\ IsBest(best)
              /\ rdata' = best
              /\ claimed' = Mark(best)
              /\ UNCHANGED <<driven, line, runnable, config>>
              /\ UpdateMeip
        BY <3>4 DEF Claim
      <4>2. claimed' \in SUBSET Source
        BY <4>1, PlicAssumption DEF Mark, Source
      <4> QED
        BY <4>1, <4>2 DEF config, UpdateMeip
    <3>5. ASSUME NEW value \in 0 .. NumSources + 1, Complete(value)
          PROVE  TypeOK'
      BY <3>5 DEF Complete, UpdateMeip, config
    <3> QED
      BY <2>4, <3>1, <3>2, <3>3, <3>4, <3>5 DEF BTransport
  <2>5. CASE UNCHANGED vars
    BY <2>5 DEF vars
  <2> QED
    BY <2>1, <2>2, <2>3, <2>4, <2>5 DEF Next
<1> QED
  BY <1>1, <1>2, PTL DEF Spec

-----------------------------------------------------------------------------

\* Whatever the handler wrote before it, a step that ends in update_meip
\* leaves MEIP in agreement with eligibility.
LEMMA UpdateMeipRestores == UpdateMeip => MeipTracksEligible'
  BY DEF UpdateMeip, MeipTracksEligible

\* MEIP agrees with eligibility whenever on_sources is not runnable, in every
\* interleaving of line changes, kernel phases and register accesses.
THEOREM MeipCorrect == Spec => []MeipTracksEligible
<1>1. Init => MeipTracksEligible
  BY DEF Init, MeipTracksEligible, Eligible, Source
<1>2. MeipTracksEligible /\ [Next]_vars => MeipTracksEligible'
  <2> SUFFICES ASSUME MeipTracksEligible, [Next]_vars
               PROVE  MeipTracksEligible'
    OBVIOUS
  <2>1. CASE Peripherals
    BY <2>1 DEF Peripherals, DriveLine, config, MeipTracksEligible, Eligible
  <2>2. CASE UpdatePhase
    BY <2>2 DEF UpdatePhase, MeipTracksEligible
  <2>3. CASE OnSources
    BY <2>3, UpdateMeipRestores DEF OnSources
  <2>4. CASE BTransport
    BY <2>4, UpdateMeipRestores
    DEF BTransport, WritePriority, WriteEnable, WriteThreshold, Claim, Complete
  <2>5. CASE UNCHANGED vars
    BY <2>5 DEF vars, MeipTracksEligible, Eligible
  <2> QED
    BY <2>1, <2>2, <2>3, <2>4, <2>5 DEF Next
<1> QED
  BY <1>1, <1>2, PTL DEF Spec

\* A claim that returns 0 under a raised MEIP finds on_sources runnable: the
\* trap handler's spurious interrupts all come from that one window.
THEOREM SpuriousClaimWindow == Spec => SpuriousClaimOnlyInWindow
<1>1. MeipTracksEligible /\ [Next]_vars
        => [Claim /\ meip /\ rdata' = 0 => runnable]_vars
  <2> SUFFICES ASSUME MeipTracksEligible, Claim, meip, rdata' = 0
               PROVE  runnable
    OBVIOUS
  <2>1. IsBest(0)
    BY DEF Claim
  <2>2. \A id \in Source : ~Eligible(id)
    BY <2>1, PlicAssumption DEF IsBest, Source
  <2> QED
    BY <2>2 DEF MeipTracksEligible
<1> QED
  BY <1>1, MeipCorrect, PTL DEF Spec, SpuriousClaimOnlyInWindow

=============================================================================
