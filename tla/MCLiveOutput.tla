---------------------------- MODULE MCLiveOutput ----------------------------
(***************************************************************************)
(* LiveOutput for TLC: one or two streams of a job with a small ring       *)
(* buffer.                                                                 *)
(***************************************************************************)
EXTENDS LiveOutput

CONSTANTS s1, s2

=============================================================================
