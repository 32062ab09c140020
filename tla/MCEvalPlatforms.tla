-------------------------- MODULE MCEvalPlatforms --------------------------
(* Model of EvalPlatforms for TLC: bounds in MCEvalPlatforms.cfg. *)
EXTENDS EvalPlatforms

=============================================================================
