------------------------------- MODULE MCPwm --------------------------------
(* Model of Pwm for TLC: bounds in MCPwm.cfg. *)
EXTENDS Pwm

=============================================================================
