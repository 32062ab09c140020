------------------------------- MODULE MCSpi --------------------------------
(* Model of Spi for TLC: bounds in MCSpi.cfg and MCSpiReset.cfg. *)
EXTENDS Spi

=============================================================================
