----------------------------- MODULE LiveOutput -----------------------------
(***************************************************************************)
(* The output of one job, streamed while it runs (imprint/queue.py,        *)
(* tail_output and what _run_job does for it). A pump thread copies each   *)
(* line of the child to the log, then to a ring buffer, and asks the event *)
(* loop to set the job's asyncio.Event. A stream is a task of that loop:   *)
(* it replays the log, attaches to the buffer and then waits for the       *)
(* event; it can be suspended wherever it waits or sends, and the pump     *)
(* runs between any two of its steps.                                      *)
(*                                                                         *)
(* Lines are numbered in the order the child prints them, from 1.          *)
(***************************************************************************)
EXTENDS Naturals, Sequences

CONSTANTS
  Streams,   \* GET /api/jobs/{id}/stream requests for the job
  MaxLines,  \* lines the child may print
  Size       \* the ring buffer's maxlen

ASSUME LiveOutputAssumption == MaxLines \in Nat /\ Size \in Nat \ {0}

VARIABLES
  logged,    \* lines in the job's log file
  appended,  \* lines that were appended to the ring buffer
  ended,     \* whether the job is over: its row ended and it is marked done
  event,     \* the job's asyncio.Event: "none" before one is created
  wakes,     \* ev.set callbacks the loop has yet to run
  pc,        \* where each stream is
  next,      \* lines of the log a stream has replayed
  cursor,    \* buffered lines a stream has taken, or found when it attached
  batch,     \* the lines it took and has yet to send
  last,      \* whether it saw the job marked done when it took them
  joined,    \* lines in the buffer when it attached
  sent       \* the lines it has sent

pump == <<logged, appended, ended>>
stream == <<pc, next, cursor, batch, last, joined, sent>>
vars == <<logged, appended, ended, event, wakes, pc, next, cursor, batch, last, joined, sent>>

Lines == 1..MaxLines

TypeOK ==
  /\ logged \in 0..MaxLines /\ appended \in 0..MaxLines /\ ended \in BOOLEAN
  /\ event \in {"none", "clear", "set"} /\ wakes \in Nat
  /\ pc \in [Streams -> {"idle", "replay", "attach", "wait", "asleep",
                         "awake", "send", "closed"}]
  /\ next \in [Streams -> 0..MaxLines]
  /\ cursor \in [Streams -> 0..Size]
  /\ batch \in [Streams -> Seq(Lines)]
  /\ last \in [Streams -> BOOLEAN]
  /\ joined \in [Streams -> 0..MaxLines]
  /\ sent \in [Streams -> Seq(Lines)]

Init ==
  /\ logged = 0 /\ appended = 0 /\ ended = FALSE
  /\ event = "none" /\ wakes = 0
  /\ pc = [s \in Streams |-> "idle"]
  /\ next = [s \in Streams |-> 0]
  /\ cursor = [s \in Streams |-> 0]
  /\ batch = [s \in Streams |-> <<>>]
  /\ last = [s \in Streams |-> FALSE]
  /\ joined = [s \in Streams |-> 0]
  /\ sent = [s \in Streams |-> <<>>]

-----------------------------------------------------------------------------
(* How many lines the ring buffer holds: the oldest ones fall out.         *)
Buffered == IF appended < Size THEN appended ELSE Size

(* list(buf)[cursor:] *)
After(position) == [i \in 1..Buffered - position |-> appended - Buffered + position + i]

(* loop.call_soon_threadsafe(ev.set), when somebody created the event.     *)
Notify == wakes' = IF event = "none" THEN wakes ELSE wakes + 1

Goto(s, to) == pc' = [pc EXCEPT ![s] = to]

-----------------------------------------------------------------------------
(* Slips a change to the code could make, each the mutant of a definition  *)
(* below; no action uses them.                                             *)

(* tail_output would attach at the buffer's beginning. *)
AttachAtStart(s) ==
  /\ pc[s] = "attach"
  /\ event' = IF event = "none" THEN "clear" ELSE event
  /\ cursor' = [cursor EXCEPT ![s] = 0]
  /\ joined' = [joined EXCEPT ![s] = appended]
  /\ Goto(s, "wait")
  /\ UNCHANGED <<pump, wakes, next, batch, last, sent>>

(* _append_output would leave waking the streams to _mark_done, and        *)
(* _mark_done to the last line.                                            *)
EndSilently ==
  /\ ~ended /\ appended = logged
  /\ ended' = TRUE
  /\ UNCHANGED <<logged, appended, event, wakes, stream>>

(* tail_output would return on done without the lines it took with it.     *)
CloseAtOnce(s) ==
  /\ pc[s] = "awake"
  /\ batch' = [batch EXCEPT ![s] = IF ended THEN <<>> ELSE After(cursor[s])]
  /\ cursor' = [cursor EXCEPT ![s] = Buffered]
  /\ last' = [last EXCEPT ![s] = ended]
  /\ event' = "clear"
  /\ Goto(s, "send")
  /\ UNCHANGED <<pump, wakes, next, joined, sent>>

-----------------------------------------------------------------------------
(* The job: _pump, and the end of _run_job *)

WriteLog ==
  /\ ~ended /\ logged = appended
  /\ logged < MaxLines  \* MaxLines
  /\ logged' = logged + 1
  /\ UNCHANGED <<appended, ended, event, wakes, stream>>

(* _append_output *)
AppendOutput ==
  /\ ~ended /\ appended < logged
  /\ appended' = appended + 1
  /\ Notify
  /\ UNCHANGED <<logged, ended, event, stream>>

(* The row's status is written and the job marked done (in the other order *)
(* when _run_job raised); the event loop runs no other task in between.    *)
JobEnds ==
  /\ ~ended /\ appended = logged
  /\ ended' = TRUE
  /\ Notify
  /\ UNCHANGED <<logged, appended, event, stream>>

(* The loop runs ev.set: whoever waits at that moment will go on, even if  *)
(* another stream clears the event first.                                  *)
SetEvent ==
  /\ wakes > 0
  /\ wakes' = wakes - 1
  /\ event' = "set"
  /\ pc' = [s \in Streams |-> IF pc[s] = "asleep" THEN "awake" ELSE pc[s]]
  /\ UNCHANGED <<pump, next, cursor, batch, last, joined, sent>>

-----------------------------------------------------------------------------
(* tail_output *)

Open(s) ==
  /\ pc[s] = "idle"
  /\ Goto(s, "replay")
  /\ UNCHANGED <<pump, event, wakes, next, cursor, batch, last, joined, sent>>

ReplayLine(s) ==
  /\ pc[s] = "replay" /\ next[s] < logged
  /\ next' = [next EXCEPT ![s] = @ + 1]
  /\ sent' = [sent EXCEPT ![s] = Append(@, next'[s])]
  /\ UNCHANGED <<pump, event, wakes, pc, cursor, batch, last, joined>>

EndOfLog(s) ==
  /\ pc[s] = "replay" /\ next[s] = logged
  /\ Goto(s, "attach")
  /\ UNCHANGED <<pump, event, wakes, next, cursor, batch, last, joined, sent>>

Attach(s) ==
  /\ pc[s] = "attach"
  /\ event' = IF event = "none" THEN "clear" ELSE event
  /\ cursor' = [cursor EXCEPT ![s] = Buffered]
  /\ joined' = [joined EXCEPT ![s] = appended]
  /\ Goto(s, "wait")
  /\ UNCHANGED <<pump, wakes, next, batch, last, sent>>

(* ev.wait() returns at once when the event is set. *)
Wait(s) ==
  /\ pc[s] = "wait"
  /\ Goto(s, IF event = "set" THEN "awake" ELSE "asleep")
  /\ UNCHANGED <<pump, event, wakes, next, cursor, batch, last, joined, sent>>

TakeLines(s) ==
  /\ pc[s] = "awake"
  /\ batch' = [batch EXCEPT ![s] = After(cursor[s])]
  /\ cursor' = [cursor EXCEPT ![s] = Buffered]
  /\ last' = [last EXCEPT ![s] = ended]
  /\ event' = "clear"
  /\ Goto(s, "send")
  /\ UNCHANGED <<pump, wakes, next, joined, sent>>

SendLines(s) ==
  /\ pc[s] = "send"
  /\ sent' = [sent EXCEPT ![s] = @ \o batch[s]]
  /\ batch' = [batch EXCEPT ![s] = <<>>]
  /\ Goto(s, IF last[s] THEN "closed" ELSE "wait")
  /\ UNCHANGED <<pump, event, wakes, next, cursor, last, joined>>

-----------------------------------------------------------------------------
Follow(s) ==
  ReplayLine(s) \/ EndOfLog(s) \/ Attach(s) \/ Wait(s) \/ TakeLines(s) \/ SendLines(s)

Next == WriteLog \/ AppendOutput \/ JobEnds \/ SetEvent \/ \E s \in Streams : Open(s) \/ Follow(s)

Spec == Init /\ [][Next]_vars

(* The pump copies what was printed and the job ends; the event loop runs  *)
(* the callbacks and the streams' tasks. Nobody need open a stream.        *)
Fairness ==
  /\ WF_vars(AppendOutput) /\ WF_vars(JobEnds) /\ WF_vars(SetEvent)
  /\ \A s \in Streams : WF_vars(Follow(s))

FairSpec == Spec /\ Fairness

-----------------------------------------------------------------------------
Attached(s) == pc[s] \in {"wait", "asleep", "awake", "send"}

Closed(s) == pc[s] = "closed"

(* A stream never goes back: no line is sent after a later one, whatever   *)
(* the pump does between the replay and the attachment and however many    *)
(* lines fall out of the buffer.                                           *)
InOrder == \A s \in Streams : \A i, j \in DOMAIN sent[s] : i < j => sent[s][i] <= sent[s][j]

(* A stream that ends has sent the log as it read it and every line        *)
(* printed since it attached, each once, the last ones included, as long   *)
(* as the job printed no more than the buffer holds.                       *)
NothingMissed ==
  \A s \in Streams :
    Closed(s) /\ appended <= Size =>
      sent[s] = [i \in 1..next[s] |-> i] \o [i \in 1..appended - joined[s] |-> joined[s] + i]

(* When streams are attached as the job ends, one of them is told: the     *)
(* event is not lost between a stream's last look and its next wait, nor   *)
(* between streams that clear it for each other.                           *)
AStreamEnds == (~ended /\ \E s \in Streams : Attached(s)) ~> \E s \in Streams : Closed(s)

(* Every stream ends: it "replays the stored log then tails new lines;     *)
(* emits a final {type: done}" (docs/queue.md).                            *)
EveryStreamEnds == \A s \in Streams : pc[s] = "replay" ~> Closed(s)

=============================================================================
