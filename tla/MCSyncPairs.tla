---------------------------- MODULE MCSyncPairs ----------------------------
(***************************************************************************)
(* SyncPairs for TLC: two records, so that a transfer takes more than one  *)
(* chunk and can stop between them.                                        *)
(***************************************************************************)
EXTENDS SyncPairs

=============================================================================
