------------------------------ MODULE JobQueue ------------------------------
(***************************************************************************)
(* The dashboard's command queue (imprint/queue.py): job rows in SQLite,   *)
(* the dispatcher that runs them one at a time in child processes, cancel  *)
(* requests that run in other threads, the reaper, background tagging runs *)
(* and the recovery of a restarted server. The children, and commands      *)
(* started in a terminal, compete for the queue lock, which is taken here  *)
(* in one step: QueueLock shows how.                                       *)
(*                                                                         *)
(* A step is one SQLite transaction (they run under _db_lock), one system  *)
(* call or one step of a child. The dispatcher and the reaper are tasks of *)
(* one event loop, so the reaper runs only where the dispatcher awaits;    *)
(* cancel and submit run in other threads, between any two steps. What     *)
(* depends on a clock or on the stored memories (the poll interval, the    *)
(* pause after a failure, the size of the backlog) is left to chance.      *)
(***************************************************************************)
EXTENDS Naturals, FiniteSets

CONSTANTS
  Requests,     \* submissions of foreground commands
  Commands,     \* what dedupe_key tells apart
  KeyOf,        \* the command each request asks for
  MaxRows,      \* rows the table may get
  MaxUpsets     \* crashes, cancels, log failures and terminal commands, in all

ASSUME JobQueueAssumption ==
  /\ KeyOf \in [Requests -> Commands]
  /\ {MaxRows, MaxUpsets} \subseteq Nat
  /\ Commands \cap {"tag-backlog", "none"} = {}

Rows == 1..MaxRows  \* in the order of created_at

(* The queue lock's holder, when it is no row's process. *)
Free == 0
Terminal == MaxRows + 1

Background == "tag-backlog"

Ended == {"done", "failed", "cancelled", "yielded"}

(* A child's exit: by itself with or without success, with exit code 75,   *)
(* stopped by SIGTERM, or forced to stop by SIGKILL.                       *)
Exited == {"ok", "error", "yield", "killed", "forced"}

VARIABLES
  jobs,      \* the table: row -> [command, status, pid (recorded), mark, asked]
  child,     \* row -> its process
  lock,      \* who holds the queue lock: a row, Terminal or Free
  signalled, \* running children that were sent SIGTERM
  up,        \* whether a server runs
  at,        \* where its dispatcher is
  current,   \* the row the dispatcher works on, 0 when none
  verdict,   \* the status it is about to record
  cancel,    \* row -> where the cancel request for it is
  held,      \* whether a cancel holds background tagging back
  upsets     \* how many of the events MaxUpsets bounds there were

processes == <<child, lock, signalled>>
dispatcher == <<up, at, current, verdict>>
vars == <<jobs, child, lock, signalled, up, at, current, verdict, cancel, held, upsets>>

Row == [command : Commands \cup {Background, "none"},
        status : Ended \cup {"none", "queued", "running"},
        pid : BOOLEAN, mark : BOOLEAN, asked : SUBSET Requests]

NoRow == [command |-> "none", status |-> "none", pid |-> FALSE, mark |-> FALSE, asked |-> {}]

TypeOK ==
  /\ jobs \in [Rows -> Row]
  /\ child \in [Rows -> Exited \cup {"none", "starting", "working"}]
  /\ lock \in 0..MaxRows + 1
  /\ signalled \in SUBSET Rows
  /\ up \in BOOLEAN
  /\ at \in {"look", "insert", "claim", "spawn", "record", "wait", "reaped", "finalize"}
  /\ current \in 0..MaxRows
  /\ verdict \in Ended
  /\ cancel \in [Rows -> {"none", "gone", "alive", "mark"}]
  /\ held \in BOOLEAN
  /\ upsets \in 0..MaxUpsets

Init ==
  /\ jobs = [j \in Rows |-> NoRow]
  /\ child = [j \in Rows |-> "none"]
  /\ lock = Free
  /\ signalled = {}
  /\ up = TRUE /\ at = "look" /\ current = 0 /\ verdict = "done"
  /\ cancel = [j \in Rows |-> "none"]
  /\ held = FALSE
  /\ upsets = 0

-----------------------------------------------------------------------------
IsBackground(j) == jobs[j].command = Background

With(status) == {j \in Rows : jobs[j].status = status}

Waiting == {j \in With("queued") : ~IsBackground(j)}

Oldest(S) == CHOOSE j \in S : \A i \in S : j <= i

Unused == With("none")

Insert(command, asked) ==
  /\ Unused # {}
  /\ jobs' = [jobs EXCEPT ![Oldest(Unused)] =
                [NoRow EXCEPT !.command = command, !.status = "queued", !.asked = asked]]

SetStatus(j, status) == jobs' = [jobs EXCEPT ![j].status = status]

Running(j) == child[j] \in {"starting", "working"}

(* A holder any taker may stop: a background run. *)
LockIsPreemptible == lock \in Rows /\ IsBackground(lock)

(* is_alive fails for a PID that was never recorded and for a process that *)
(* was reaped: by the dispatcher, or by init once its server is gone.      *)
Dead(j, pid) ==
  \/ ~pid
  \/ child[j] \in Exited /\ ~(up /\ current = j /\ at = "wait")

Upset == upsets < MaxUpsets /\ upsets' = upsets + 1

-----------------------------------------------------------------------------
(* Slips a change to the code could make, each the mutant of a definition  *)
(* below; no action uses them.                                             *)

(* submit would also merge into a running job. *)
AbsorbRunning(j, r) == jobs[j].status \in {"queued", "running"} /\ jobs[j].command = KeyOf[r]

(* _next_queued would not look whether a row already runs. *)
OnlyLockChecked == lock = Free \/ LockIsPreemptible

(* _next_queued would take the rows as they come (no ORDER BY). *)
NextQueued_Unordered ==
  /\ up /\ at = "look"
  /\ With("running") = {} /\ (lock = Free \/ LockIsPreemptible)
  /\ \E j \in Waiting : current' = j
  /\ at' = "claim"
  /\ UNCHANGED <<jobs, processes, up, verdict, cancel, held, upsets>>

(* _run_job would not look at the row again before it starts it. *)
ClaimAnyway ==
  /\ up /\ at = "claim"
  /\ SetStatus(current, "running")
  /\ at' = "spawn"
  /\ UNCHANGED <<processes, up, current, verdict, cancel, held, upsets>>

(* Every job that no signal ended would count as done. *)
UnlessSignalled(j) == IF child[j] = "killed" THEN "cancelled" ELSE "done"

(* foreground_waiting would ask for running rows instead of queued ones. *)
YieldToRunning(j) ==
  /\ child[j] = "working" /\ IsBackground(j)
  /\ \E i \in With("running") : ~IsBackground(i)
  /\ child' = [child EXCEPT ![j] = "yield"]
  /\ lock' = Free /\ signalled' = signalled \ {j}
  /\ UNCHANGED <<jobs, dispatcher, cancel, held, upsets>>

(* The reaper would look after the dispatcher's own job only. *)
ReapOwn(j) ==
  /\ up /\ at = "reaped" /\ j = current
  /\ jobs[j].status = "running"
  /\ SetStatus(j, "cancelled")
  /\ UNCHANGED <<processes, dispatcher, cancel, held, upsets>>

-----------------------------------------------------------------------------
(* submit *)

(* Only a waiting row absorbs a submission: one that runs may have read    *)
(* its inputs before whatever prompted the request (ADR 0068).             *)
Absorbs(j, r) == jobs[j].status = "queued" /\ jobs[j].command = KeyOf[r]

Submit(r) ==
  /\ up /\ \A j \in Rows : r \notin jobs[j].asked
  /\ IF \E j \in Rows : Absorbs(j, r)
       THEN jobs' = [jobs EXCEPT ![Oldest({j \in Rows : Absorbs(j, r)})].asked = @ \cup {r}]
       ELSE Insert(KeyOf[r], {r})
  /\ UNCHANGED <<processes, dispatcher, cancel, held, upsets>>

-----------------------------------------------------------------------------
(* The dispatcher *)

(* _next_queued: nothing is picked while a row runs or a command of a      *)
(* terminal holds the lock.                                                *)
MayPick == With("running") = {} /\ (lock = Free \/ LockIsPreemptible)

NextQueued ==
  /\ up /\ at = "look"
  /\ MayPick /\ Waiting # {}
  /\ current' = Oldest(Waiting)
  /\ at' = "claim"
  /\ UNCHANGED <<jobs, processes, up, verdict, cancel, held, upsets>>

(* _startable_backlog, evaluated in another thread while the loop awaits,  *)
(* once the dispatcher has no job to pick.                                 *)
StartableBacklog ==
  /\ up /\ at = "look"
  /\ With("running") = {} /\ Waiting = {} /\ lock = Free /\ ~held
  /\ Unused # {}  \* MaxRows
  /\ at' = "insert"
  /\ UNCHANGED <<jobs, processes, up, current, verdict, cancel, held, upsets>>

InsertBackground ==
  /\ up /\ at = "insert"
  /\ \/ Insert(Background, {}) /\ current' = Oldest(Unused) /\ at' = "claim"
     \/ Unused = {} /\ at' = "look" /\ UNCHANGED <<jobs, current>>  \* MaxRows
  /\ UNCHANGED <<processes, up, verdict, cancel, held, upsets>>

(* _run_job: a row that was cancelled meanwhile is skipped. A background   *)
(* run cancelled before it started holds the backlog back.                 *)
Claim ==
  /\ up /\ at = "claim"
  /\ \/ /\ jobs[current].status = "queued"
        /\ SetStatus(current, "running")
        /\ at' = "spawn"
        /\ UNCHANGED <<current, held>>
     \/ /\ jobs[current].status # "queued"
        /\ at' = "look" /\ current' = 0
        /\ held' = (held \/ IsBackground(current))
        /\ UNCHANGED jobs
  /\ UNCHANGED <<processes, up, verdict, cancel, upsets>>

(* Building the command or starting it may fail. *)
Spawn ==
  /\ up /\ at = "spawn"
  /\ \/ /\ child' = [child EXCEPT ![current] = "starting"]
        /\ at' = "record" /\ UNCHANGED verdict
     \/ at' = "finalize" /\ verdict' = "failed" /\ UNCHANGED child
  /\ UNCHANGED <<jobs, lock, signalled, up, current, cancel, held, upsets>>

RecordPid ==
  /\ up /\ at = "record"
  /\ jobs' = [jobs EXCEPT ![current].pid = TRUE]
  /\ at' = "wait"
  /\ UNCHANGED <<processes, up, current, verdict, cancel, held, upsets>>

(* Copying the output to the log may fail (a full disk): the dispatcher    *)
(* gives the job up and leaves its process alone.                          *)
PumpFails ==
  /\ up /\ at = "wait"
  /\ Upset
  /\ at' = "finalize" /\ verdict' = "failed"
  /\ UNCHANGED <<jobs, processes, up, current, cancel, held>>

(* proc.wait returns in another thread: the PID is free from here on. *)
WaitReturns ==
  /\ up /\ at = "wait" /\ child[current] \in Exited
  /\ at' = "reaped"
  /\ UNCHANGED <<jobs, processes, up, current, verdict, cancel, held, upsets>>

(* A cancel marker in the row goes before the exit code. SIGTERM is how a  *)
(* lock taker stops a background run (_background_status); any other job   *)
(* was cancelled when a signal ended it.                                   *)
Outcome(j) ==
  CASE jobs[j].mark -> "cancelled"
    [] child[j] = "ok" -> "done"
    [] child[j] = "killed" -> IF IsBackground(j) THEN "yielded" ELSE "cancelled"
    [] child[j] = "yield" -> "yielded"
    [] OTHER -> "failed"

Judge ==
  /\ up /\ at = "reaped"
  /\ verdict' = Outcome(current)
  /\ at' = "finalize"
  /\ UNCHANGED <<jobs, processes, up, current, cancel, held, upsets>>

(* _finalize writes the status whatever the row's is. A cancelled          *)
(* background run is not started again until the backlog changes.          *)
Finalize ==
  /\ up /\ at = "finalize"
  /\ SetStatus(current, verdict)
  /\ held' = (held \/ (IsBackground(current) /\ verdict = "cancelled"))
  /\ at' = "look" /\ current' = 0 /\ verdict' = "done"
  /\ UNCHANGED <<processes, up, cancel, upsets>>

(* More memories wait, or the person resumes (backlog_changed). *)
BacklogChanged ==
  /\ up /\ held /\ held' = FALSE
  /\ UNCHANGED <<jobs, processes, dispatcher, cancel, upsets>>

(* _reap_dead_running *)
Reap(j) ==
  /\ up /\ at \in {"look", "insert", "wait", "reaped"}
  /\ jobs[j].status = "running" /\ Dead(j, jobs[j].pid)
  /\ SetStatus(j, "cancelled")
  /\ UNCHANGED <<processes, dispatcher, cancel, held, upsets>>

-----------------------------------------------------------------------------
(* cancel *)

(* The first transaction: a queued row is cancelled in it; of a running    *)
(* one it remembers the PID, if any was recorded yet.                      *)
CancelRead(j) ==
  /\ up /\ cancel[j] = "none"
  /\ Upset
  /\ \/ /\ jobs[j].status = "queued"
        /\ SetStatus(j, "cancelled")
        /\ UNCHANGED cancel
     \/ /\ jobs[j].status = "running"
        /\ cancel' = [cancel EXCEPT ![j] = IF jobs[j].pid THEN "alive" ELSE "gone"]
        /\ UNCHANGED jobs
  /\ UNCHANGED <<processes, dispatcher, held>>

(* The process looks alive and is signalled; otherwise the row is closed   *)
(* as if its process were gone, whatever became of the row meanwhile.      *)
CancelSignal(j) ==
  /\ up
  /\ \/ /\ cancel[j] = "alive" /\ ~Dead(j, TRUE)
        /\ signalled' = IF Running(j) THEN signalled \cup {j} ELSE signalled
        /\ cancel' = [cancel EXCEPT ![j] = "mark"]
     \/ /\ cancel[j] = "alive" /\ Dead(j, TRUE)
        /\ cancel' = [cancel EXCEPT ![j] = "gone"]
        /\ UNCHANGED signalled
  /\ UNCHANGED <<jobs, child, lock, dispatcher, held, upsets>>

CancelClose(j) ==
  /\ up /\ cancel[j] = "gone"
  /\ jobs' = [jobs EXCEPT ![j].status = "cancelled", ![j].mark = TRUE]
  /\ cancel' = [cancel EXCEPT ![j] = "none"]
  /\ UNCHANGED <<processes, dispatcher, held, upsets>>

(* The marker the dispatcher looks for is written after the signal. *)
CancelMark(j) ==
  /\ up /\ cancel[j] = "mark"
  /\ jobs' = [jobs EXCEPT ![j].mark = @ \/ jobs[j].status = "running"]
  /\ cancel' = [cancel EXCEPT ![j] = "none"]
  /\ UNCHANGED <<processes, dispatcher, held, upsets>>

-----------------------------------------------------------------------------
(* The children, and commands started in a terminal *)

(* A child that gets the lock begins to read its inputs. *)
ChildStarts(j) ==
  /\ child[j] = "starting" /\ lock = Free
  /\ lock' = j
  /\ child' = [child EXCEPT ![j] = "working"]
  /\ UNCHANGED <<jobs, signalled, dispatcher, cancel, held, upsets>>

(* A child that does not: a background run exits, any other stops the      *)
(* background run that holds the lock, or waits.                           *)
ChildMeetsHolder(j) ==
  /\ child[j] = "starting" /\ lock # Free
  /\ \/ /\ IsBackground(j)
        /\ child' = [child EXCEPT ![j] = "yield"]
        /\ signalled' = signalled \ {j}
     \/ /\ ~IsBackground(j) /\ LockIsPreemptible
        /\ signalled' = signalled \cup {lock}
        /\ UNCHANGED child
  /\ UNCHANGED <<jobs, lock, dispatcher, cancel, held, upsets>>

ChildEnds(j) ==
  /\ child[j] = "working"
  /\ \E exit \in {"ok", "error"} : child' = [child EXCEPT ![j] = exit]
  /\ lock' = Free /\ signalled' = signalled \ {j}
  /\ UNCHANGED <<jobs, dispatcher, cancel, held, upsets>>

(* Between two memories the background run asks foreground_waiting. *)
BackgroundYields(j) ==
  /\ child[j] = "working" /\ IsBackground(j)
  /\ Waiting # {}
  /\ child' = [child EXCEPT ![j] = "yield"]
  /\ lock' = Free /\ signalled' = signalled \ {j}
  /\ UNCHANGED <<jobs, dispatcher, cancel, held, upsets>>

(* SIGKILL follows SIGTERM after a pause; the two exit codes of a          *)
(* background run are told apart.                                          *)
ChildKilled(j) ==
  /\ j \in signalled /\ Running(j)
  /\ \/ child' = [child EXCEPT ![j] = "killed"]
     \/ IsBackground(j) /\ child' = [child EXCEPT ![j] = "forced"]
  /\ signalled' = signalled \ {j}
  /\ lock' = IF lock = j THEN Free ELSE lock
  /\ UNCHANGED <<jobs, dispatcher, cancel, held, upsets>>

TerminalTakes ==
  /\ \/ /\ lock = Free /\ lock' = Terminal /\ UNCHANGED signalled
        /\ Upset
     \/ /\ LockIsPreemptible /\ signalled' = signalled \cup {lock}
        /\ upsets < MaxUpsets
        /\ UNCHANGED <<lock, upsets>>
  /\ UNCHANGED <<jobs, child, dispatcher, cancel, held>>

TerminalEnds ==
  /\ lock = Terminal /\ lock' = Free
  /\ UNCHANGED <<jobs, child, signalled, dispatcher, cancel, held, upsets>>

-----------------------------------------------------------------------------
(* The server dies, with its cancel requests; its children go on. *)
ServerCrash ==
  /\ up /\ Upset
  /\ up' = FALSE /\ at' = "look" /\ current' = 0 /\ verdict' = "done"
  /\ cancel' = [j \in Rows |-> "none"]
  /\ held' = FALSE
  /\ UNCHANGED <<jobs, processes>>

(* recover_on_startup. A background row still running makes it take and    *)
(* release the lock, which stops a background run that holds it.           *)
RecoverOnStartup ==
  LET leftBehind == With("running")
      stopped == {j \in Rows : j = lock /\ IsBackground(j) /\ \E b \in leftBehind : IsBackground(b)}
      Recovered(j) ==
        CASE j \in leftBehind /\ IsBackground(j) -> "yielded"
          [] j \in leftBehind /\ ~IsBackground(j) /\ Dead(j, jobs[j].pid) -> "failed"
          [] jobs[j].status = "queued" /\ IsBackground(j) -> "cancelled"
          [] OTHER -> jobs[j].status
  IN
  /\ ~up /\ up' = TRUE
  /\ jobs' = [j \in Rows |-> [jobs[j] EXCEPT !.status = Recovered(j),
                                             !.mark = @ /\ Recovered(j) = jobs[j].status]]
  /\ child' = [j \in Rows |-> IF j \in stopped THEN "killed" ELSE child[j]]
  /\ lock' = IF stopped # {} THEN Free ELSE lock
  /\ signalled' = signalled \ stopped
  /\ UNCHANGED <<at, current, verdict, cancel, held, upsets>>

-----------------------------------------------------------------------------
Dispatch ==
  \/ NextQueued \/ StartableBacklog \/ InsertBackground \/ Claim \/ Spawn
  \/ RecordPid \/ PumpFails \/ WaitReturns \/ Judge \/ Finalize

Cancel(j) == CancelSignal(j) \/ CancelClose(j) \/ CancelMark(j)

Child(j) ==
  \/ ChildStarts(j) \/ ChildMeetsHolder(j) \/ ChildEnds(j)
  \/ BackgroundYields(j) \/ ChildKilled(j)

Next ==
  \/ \E r \in Requests : Submit(r)
  \/ Dispatch \/ BacklogChanged
  \/ \E j \in Rows : Reap(j) \/ CancelRead(j) \/ Cancel(j) \/ Child(j)
  \/ TerminalTakes \/ TerminalEnds
  \/ ServerCrash \/ RecoverOnStartup

Spec == Init /\ [][Next]_vars

(* The server's tasks and threads run, a crashed server is started again   *)
(* (MaxUpsets bounds the crashes), children take their steps, and every    *)
(* command but background tagging ends by itself. Nobody need submit,      *)
(* cancel or use a terminal, and a backlog need never become empty.        *)
Fairness ==
  /\ WF_vars(Dispatch) /\ WF_vars(RecoverOnStartup) /\ WF_vars(TerminalEnds)
  /\ \A j \in Rows :
       /\ WF_vars(Reap(j)) /\ WF_vars(Cancel(j))
       /\ WF_vars(ChildStarts(j)) /\ WF_vars(ChildMeetsHolder(j))
       /\ WF_vars(ChildEnds(j) /\ ~IsBackground(j))
       /\ WF_vars(BackgroundYields(j)) /\ WF_vars(ChildKilled(j))

FairSpec == Spec /\ Fairness

-----------------------------------------------------------------------------
(* One row at a time is running, across cancels, reaping and restarts:     *)
(* this row is what keeps the dispatcher from starting another job (it     *)
(* does not take the lock itself), and the Queue page shows it.            *)
OneRunningRow == Cardinality(With("running")) <= 1

(* A request is answered by a run that reads its inputs after the request  *)
(* was made (ADR 0068): it is never attached to a row whose process may    *)
(* have read them.                                                         *)
RequestsAreSeen ==
  [][\A j \in Rows : jobs'[j].asked # jobs[j].asked => child[j] = "none"]_vars

(* A row recorded as done belongs to a process that ended with success. *)
DoneMeansSuccess == \A j \in Rows : jobs[j].status = "done" => child[j] = "ok"

(* A row that ended never waits or runs again, whatever cancels, reapings, *)
(* recoveries and late dispatcher steps do to it; in particular a queued   *)
(* row that is cancelled is never started.                                 *)
EndedStaysEnded ==
  [][\A j \in Rows : jobs[j].status \in Ended => jobs'[j].status \in Ended]_vars

(* Every queued job leaves the queue although background tagging never     *)
(* runs out of memories, terminals use the lock and the server crashes.    *)
QueuedJobsRun == \A j \in Rows : jobs[j].status = "queued" ~> jobs[j].status # "queued"

(* Every running row is closed, also one a crash left to a server that did *)
(* not start its process; a background run, which need never end by        *)
(* itself, when it is cancelled.                                           *)
RunsEnd ==
  \A j \in Rows :
    jobs[j].status = "running" /\ (IsBackground(j) => cancel[j] # "none")
      ~> jobs[j].status \in Ended

(* Cancel kills the process group: a row that ends as cancelled leaves no  *)
(* process of its job behind that nobody told to stop (docs/queue.md).     *)
CancelledJobIsStopped ==
  \A j \in Rows : jobs[j].status = "cancelled" => ~Running(j) \/ j \in signalled

Phase(j) ==
  CASE jobs[j].status = "none" -> "new"
    [] jobs[j].status = "queued" -> "waiting"
    [] jobs[j].status = "running" -> "running"
    [] OTHER -> "ended"

Lifecycle ==
  INSTANCE JobLifecycle WITH
    Jobs <- Rows,
    phase <- [j \in Rows |-> Phase(j)],
    answers <- [j \in Rows |-> jobs[j].asked]

(* "A single-slot FIFO queue" with "merged duplicate jobs" (docs/queue.md):*)
(* every step of the dispatcher, the requests, the reaper, the children    *)
(* and a restarted server is a step of JobLifecycle, or none of it.        *)
ImplementsLifecycle == Lifecycle!Spec

=============================================================================
