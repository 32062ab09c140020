----------------------------- MODULE MCWatchdog -----------------------------
(* Model of Watchdog for TLC: bounds in MCWatchdog.cfg. *)
EXTENDS Watchdog

=============================================================================
