---------------------------- MODULE MCQueueLock ----------------------------
(* Small instances of QueueLock: background runs, takers of both           *)
(* implementations and a dashboard that clears stale metadata.             *)
EXTENDS QueueLock

CONSTANTS bg, bg2, py, py2, go, go2, ui

=============================================================================
