----------------------------- MODULE MCTagging ------------------------------
(***************************************************************************)
(* Tagging for TLC: the clock of either device may be far ahead.           *)
(***************************************************************************)
EXTENDS Tagging

FarApart ==
  {[d \in Devices |-> IF d = ahead THEN 2050 ELSE 10] : ahead \in Devices}

=============================================================================
