------------------------------- MODULE MCPlic -------------------------------
(* Model of Plic for TLC. *)
EXTENDS Plic

=============================================================================
