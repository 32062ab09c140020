------------------------------ MODULE MCClint -------------------------------
(* Model of Clint for TLC: the bounds are in MCClint.cfg and              *)
(* MCClintOverflow.cfg.                                                    *)
EXTENDS Clint

=============================================================================
