---------------------------- MODULE CompareTimer ----------------------------
(***************************************************************************)
(* What a machine timer promises, without events or processes: a clock, a  *)
(* compare value and an interrupt level.  The level may lag behind the     *)
(* compare value within one instant, but simulated time passes only when   *)
(* it is right, so no software that lets time pass observes a wrong level. *)
(***************************************************************************)
EXTENDS Naturals

CONSTANTS Scaler,     \* clock units per tick of mtime
          MaxNow,     \* bound on the clock
          CmpValues   \* values the compare register may be given

VARIABLES now, mtimecmp, mtip

tvars == <<now, mtimecmp, mtip>>

Due == mtimecmp # 0 /\ now \div Scaler >= mtimecmp

TInit == now = 0 /\ mtimecmp = 0 /\ mtip = FALSE

SetCompare ==
    /\ mtimecmp' \in CmpValues
    /\ UNCHANGED <<now, mtip>>

Settle ==
    /\ mtip' = Due
    /\ UNCHANGED <<now, mtimecmp>>

Pass ==
    /\ now < MaxNow
    /\ mtip = Due
    /\ now' = now + 1
    /\ UNCHANGED <<mtimecmp, mtip>>

TNext == SetCompare \/ Settle \/ Pass

TSafety == TInit /\ [][TNext]_tvars
TSpec == TSafety /\ WF_tvars(Settle) /\ WF_tvars(Pass)

=============================================================================
