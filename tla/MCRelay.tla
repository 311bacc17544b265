------------------------------ MODULE MCRelay -------------------------------
(***************************************************************************)
(* Relay for TLC: a few connections to one id, of either role, so that new *)
(* ones come while those before them are still cleaning up.                *)
(***************************************************************************)
EXTENDS Relay

=============================================================================
