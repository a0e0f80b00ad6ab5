---------------------------- MODULE MCVeloClient ---------------------------
(* Two embed clicks and an extraction. *)
EXTENDS VeloClient, TLC

CONSTANTS e1, e2, x1

=============================================================================
