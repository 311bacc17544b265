----------------------------- MODULE MCJobQueue -----------------------------
(* Small instances of JobQueue. *)
EXTENDS JobQueue

CONSTANTS r1, r2, r3, ingest, refresh

(* Requests for one command, so that they merge. *)
OneCommand == [r \in {r1, r2} |-> ingest]

(* Two requests for one command, and one for another. *)
TwoAlike == [r \in {r1, r2, r3} |-> IF r = r3 THEN refresh ELSE ingest]

=============================================================================
