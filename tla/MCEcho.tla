------------------------------- MODULE MCEcho -------------------------------
(***************************************************************************)
(* Echo for TLC: a window asks for the full chat with the conversation     *)
(* there is, or for the small voice model with another.                    *)
(***************************************************************************)
EXTENDS Echo

TwoLooks ==
  {[engine |-> "chat", other |-> FALSE], [engine |-> "lfm", other |-> TRUE]}

=============================================================================
