------------------------------- MODULE MCSoc --------------------------------
(* Model of Soc for TLC: bounds in MCSoc.cfg. *)
EXTENDS Soc

=============================================================================
