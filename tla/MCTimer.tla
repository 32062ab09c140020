------------------------------ MODULE MCTimer -------------------------------
(* Model of Timer for TLC: bounds in MCTimer.cfg and MCTimerClear.cfg. *)
EXTENDS Timer

=============================================================================
