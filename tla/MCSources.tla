----------------------------- MODULE MCSources ------------------------------
(***************************************************************************)
(* Sources for TLC: two projects and two chunks.                           *)
(***************************************************************************)
EXTENDS Sources, TLC

CONSTANTS v1, v2, v3

(* A version may lose a chunk, gain one, or exchange it. *)
Edited == v1 :> {"a"} @@ v2 :> {"a", "b"} @@ v3 :> {"b"}

=============================================================================
