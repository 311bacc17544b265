--------------------------- MODULE MCSessionLearn ---------------------------
(***************************************************************************)
(* SessionLearn for TLC: a few turns of one conversation.                  *)
(***************************************************************************)
EXTENDS SessionLearn

=============================================================================
