----------------------------- MODULE QueueLock -----------------------------
(***************************************************************************)
(* The lock on data/queue.lock that serializes every heavy command: a      *)
(* flock, which the kernel grants and frees, and the file's body, which    *)
(* names the holder and says whether it may be stopped (ADR 0067).         *)
(* imprint/queue_lock.py and internal/queuelock are the two               *)
(* implementations that compete for it; a process here runs one of them,   *)
(* acquires the lock at most once and never returns from "dead", so a      *)
(* process stands for its PID.                                             *)
(***************************************************************************)
EXTENDS Naturals, FiniteSets

CONSTANTS
  Procs,       \* processes that use the lock
  Background,  \* background tagging runs, which acquire as preemptible
  Blocking,    \* takers that wait until they get the lock
  GoProcs,     \* takers that use internal/queuelock (the CLI)
  Cleaners,    \* dashboard servers that only run clear_stale
  Nobody,      \* no process
  MaxCrashes   \* processes killed from outside the system

ASSUME QueueLockAssumption ==
  /\ Background \subseteq Procs
  /\ Blocking \subseteq Procs \ Background
  /\ GoProcs \subseteq Procs \ Background
  /\ Cleaners \subseteq Procs \ (Background \cup GoProcs \cup Blocking)
  /\ Nobody \notin Procs
  /\ MaxCrashes \in Nat

VARIABLES
  pc,       \* where each process is in acquire, release or clear_stale
  owner,    \* the process whose descriptor holds the flock
  body,     \* the process the file's body names
  target,   \* the PID a taker is about to signal
  waited,   \* a taker's wait: 0 under 3 s, 1 under 6 s, 2 past the deadline
  term,     \* live processes that were sent SIGTERM
  kill,     \* live processes that were sent SIGKILL
  crashes   \* processes killed from outside so far

vars == <<pc, owner, body, target, waited, term, kill, crashes>>

(* The steps of a process that owns the flock. *)
Owning == {"truncate", "write", "held", "unlock", "clear"}

PC == Owning \cup {"idle", "read", "stop", "reread", "poll", "escalate", "blocked",
                   "refused", "clearing", "done", "dead"}

TypeOK ==
  /\ pc \in [Procs -> PC]
  /\ owner \in Procs \cup {Nobody}
  /\ body \in Procs \cup {Nobody}
  /\ target \in [Procs -> Procs \cup {Nobody}]
  /\ waited \in [Procs -> 0..2]
  /\ term \in SUBSET Procs
  /\ kill \in SUBSET Procs
  /\ crashes \in 0..MaxCrashes

Init ==
  /\ pc = [p \in Procs |-> "idle"]
  /\ owner = Nobody
  /\ body = Nobody
  /\ target = [p \in Procs |-> Nobody]
  /\ waited = [p \in Procs |-> 0]
  /\ term = {}
  /\ kill = {}
  /\ crashes = 0

Alive(p) == p \in Procs /\ pc[p] # "dead"

(* read_holder: nobody when the body is empty or its PID is dead. *)
Holder == IF Alive(body) THEN body ELSE Nobody

Goto(p, to) == pc' = [pc EXCEPT ![p] = to]

Take(p) == owner = Nobody /\ owner' = p

-----------------------------------------------------------------------------
(* Slips a change to the code could make, each the mutant of the           *)
(* definition after which it is named; no action uses them.                *)

(* A waiting CLI would block in flock, as Python does. *)
GiveUpBlocks(p) == IF p \in Blocking THEN "blocked" ELSE "refused"

(* preempt would not look at the preemptible flag. *)
AnyHolder(h) == h # Nobody

(* The poll's clock would run on past the deadline. *)
TickPastDeadline(p) ==
  /\ pc[p] = "poll"
  /\ waited' = [waited EXCEPT ![p] = @ + 1]
  /\ UNCHANGED <<pc, owner, body, target, term, kill, crashes>>

(* release would leave the metadata in the file. *)
ReleaseKeepsBody(p) ==
  /\ pc[p] = "held"
  /\ Goto(p, "unlock")
  /\ UNCHANGED <<owner, body, target, waited, term, kill, crashes>>

(* clear_stale would go on when the lock is held. *)
ClearUnlocked(p) ==
  /\ pc[p] = "clearing"
  /\ Goto(p, "clear")
  /\ UNCHANGED <<owner, body, target, waited, term, kill, crashes>>

-----------------------------------------------------------------------------
(* acquire *)

(* Whether a process may be stopped: the flag its metadata carries. *)
Preemptible(h) == h \in Background

(* What acquire does once it may not or could not take the lock from its   *)
(* holder: a blocking Python caller enters flock without LOCK_NB, any      *)
(* other caller is told the lock is busy.                                  *)
GiveUp(p) == IF p \in Blocking \ GoProcs THEN "blocked" ELSE "refused"

(* The first non-blocking attempt. A preemptible caller gives up at once.  *)
TryLock(p) ==
  /\ pc[p] = "idle" /\ p \notin Cleaners
  /\ \/ Take(p) /\ Goto(p, "truncate")
     \/ /\ owner # Nobody
        /\ Goto(p, IF p \in Background THEN "refused" ELSE "read")
        /\ UNCHANGED owner
  /\ UNCHANGED <<body, target, waited, term, kill, crashes>>

(* preempt reads the body: only a preemptible holder is to be stopped.     *)
ReadHolder(p) ==
  /\ pc[p] = "read"
  /\ \/ /\ Preemptible(Holder)
        /\ target' = [target EXCEPT ![p] = Holder]
        /\ Goto(p, "stop")
     \/ /\ ~Preemptible(Holder)
        /\ Goto(p, GiveUp(p))
        /\ UNCHANGED target
  /\ UNCHANGED <<owner, body, waited, term, kill, crashes>>

(* preempt sends SIGTERM. Go keeps the PID it read for the escalation,     *)
(* Python reads the body again.                                            *)
StopHolder(p) ==
  /\ pc[p] = "stop"
  /\ term' = IF Alive(target[p]) THEN term \cup {target[p]} ELSE term
  /\ Goto(p, IF p \in GoProcs THEN "poll" ELSE "reread")
  /\ UNCHANGED <<owner, body, target, waited, kill, crashes>>

(* _wait_for_lock takes the PID to escalate to from a second reading.      *)
Reread(p) ==
  /\ pc[p] = "reread"
  /\ target' = [target EXCEPT ![p] = Holder]
  /\ Goto(p, "poll")
  /\ UNCHANGED <<owner, body, waited, term, kill, crashes>>

(* An attempt of the poll that gets the lock. Go still makes one after the *)
(* deadline, Python none.                                                  *)
PollTake(p) ==
  /\ pc[p] = "poll"
  /\ waited[p] < 2 \/ p \in GoProcs
  /\ Take(p)
  /\ target' = [target EXCEPT ![p] = Nobody]
  /\ Goto(p, "truncate")
  /\ UNCHANGED <<body, waited, term, kill, crashes>>

(* An attempt that fails once three seconds have passed.                   *)
PollLate(p) ==
  /\ pc[p] = "poll" /\ waited[p] = 1
  /\ owner # Nobody
  /\ target[p] # Nobody
  /\ Goto(p, "escalate")
  /\ UNCHANGED <<owner, body, target, waited, term, kill, crashes>>

(* The one SIGKILL of the poll; the lock may have changed hands since.     *)
Escalate(p) ==
  /\ pc[p] = "escalate"
  /\ kill' = IF Alive(target[p]) THEN kill \cup {target[p]} ELSE kill
  /\ target' = [target EXCEPT ![p] = Nobody]
  /\ Goto(p, "poll")
  /\ UNCHANGED <<owner, body, waited, term, crashes>>

PollTimeout(p) ==
  /\ pc[p] = "poll" /\ waited[p] = 2
  /\ p \in GoProcs => owner # Nobody
  /\ target' = [target EXCEPT ![p] = Nobody]
  /\ waited' = [waited EXCEPT ![p] = 0]
  /\ Goto(p, GiveUp(p))
  /\ UNCHANGED <<owner, body, term, kill, crashes>>

(* Time passes for a polling taker. *)
Tick(p) ==
  /\ pc[p] = "poll" /\ waited[p] < 2
  /\ waited' = [waited EXCEPT ![p] = @ + 1]
  /\ UNCHANGED <<pc, owner, body, target, term, kill, crashes>>

(* flock without LOCK_NB returns once the kernel gives it the lock.        *)
Grant(p) ==
  /\ pc[p] = "blocked"
  /\ Take(p)
  /\ Goto(p, "truncate")
  /\ UNCHANGED <<body, target, waited, term, kill, crashes>>

(* waitForLock tries again on every tick of its ticker. *)
Retry(p) ==
  /\ pc[p] = "refused" /\ p \in Blocking \cap GoProcs
  /\ Goto(p, "idle")
  /\ UNCHANGED <<owner, body, target, waited, term, kill, crashes>>

(* The new holder empties the body before it writes its own name, so a     *)
(* reader in between finds nobody.                                         *)
Truncate(p) ==
  /\ pc[p] = "truncate"
  /\ body' = Nobody
  /\ Goto(p, "write")
  /\ UNCHANGED <<owner, target, waited, term, kill, crashes>>

WriteHolder(p) ==
  /\ pc[p] = "write"
  /\ body' = p
  /\ Goto(p, "held")
  /\ UNCHANGED <<owner, target, waited, term, kill, crashes>>

-----------------------------------------------------------------------------
(* release: the body is emptied before the flock is given up. *)

Release(p) ==
  /\ pc[p] = "held"
  /\ body' = Nobody
  /\ Goto(p, "unlock")
  /\ UNCHANGED <<owner, target, waited, term, kill, crashes>>

Unlock(p) ==
  /\ pc[p] = "unlock"
  /\ owner' = Nobody
  /\ Goto(p, "done")
  /\ UNCHANGED <<body, target, waited, term, kill, crashes>>

-----------------------------------------------------------------------------
(* clear_stale *)

ClearRead(p) ==
  /\ pc[p] = "idle" /\ p \in Cleaners
  /\ Goto(p, IF Holder = Nobody THEN "clearing" ELSE "done")
  /\ UNCHANGED <<owner, body, target, waited, term, kill, crashes>>

ClearLock(p) ==
  /\ pc[p] = "clearing"
  /\ \/ Take(p) /\ Goto(p, "clear")
     \/ owner # Nobody /\ Goto(p, "done") /\ UNCHANGED owner
  /\ UNCHANGED <<body, target, waited, term, kill, crashes>>

ClearTruncate(p) ==
  /\ pc[p] = "clear"
  /\ body' = Nobody
  /\ Goto(p, "unlock")
  /\ UNCHANGED <<owner, target, waited, term, kill, crashes>>

-----------------------------------------------------------------------------
(* Processes end without cleaning up: the kernel frees the flock and the   *)
(* body keeps the dead holder's name.                                      *)

Gone(p) ==
  /\ Goto(p, "dead")
  /\ owner' = IF owner = p THEN Nobody ELSE owner
  /\ UNCHANGED <<body, target, waited, term, kill>>

(* A signal stops the process it was sent to, some time later. *)
Die(p) ==
  /\ Alive(p) /\ p \in term \cup kill
  /\ Gone(p)
  /\ UNCHANGED crashes

(* A process ends by itself once it is done with the lock. *)
Exit(p) ==
  /\ pc[p] \in {"done", "refused"}
  /\ Gone(p)
  /\ UNCHANGED crashes

(* Any process may be killed from outside: a cancelled job, a kill -9. *)
Crash(p) ==
  /\ Alive(p) /\ crashes < MaxCrashes
  /\ Gone(p)
  /\ crashes' = crashes + 1

-----------------------------------------------------------------------------
Acquire(p) ==
  \/ TryLock(p) \/ ReadHolder(p) \/ StopHolder(p) \/ Reread(p)
  \/ PollTake(p) \/ PollLate(p) \/ Escalate(p) \/ PollTimeout(p)
  \/ Grant(p) \/ Retry(p) \/ Truncate(p) \/ WriteHolder(p)

ClearStale(p) == ClearRead(p) \/ ClearLock(p) \/ ClearTruncate(p)

Next ==
  \E p \in Procs :
    \/ Acquire(p) \/ Tick(p)
    \/ Release(p) \/ Unlock(p)
    \/ ClearStale(p)
    \/ Die(p) \/ Exit(p) \/ Crash(p)

Spec == Init /\ [][Next]_vars

(* A process that runs keeps taking its steps, time passes for a taker     *)
(* that polls and the kernel delivers signals; a job other than background *)
(* tagging ends. A background run need never end by itself (its backlog    *)
(* may keep growing), a process need not leave after it is done and nobody *)
(* need crash.                                                             *)
Fairness ==
  \A p \in Procs :
    /\ WF_vars(Acquire(p))
    /\ WF_vars(Tick(p))
    /\ WF_vars(Unlock(p))
    /\ WF_vars(ClearStale(p))
    /\ WF_vars(Die(p))
    /\ p \notin Background => WF_vars(Release(p))

FairSpec == Spec /\ Fairness

-----------------------------------------------------------------------------
Working(p) == pc[p] \in Owning

(* One job at a time, system-wide (docs/queue.md): no two processes are    *)
(* between getting the flock and giving it up, whichever of the two        *)
(* implementations and whichever path through acquire they came by.        *)
MutualExclusion ==
  \A p, q \in Procs : Working(p) /\ Working(q) => p = q

(* Whoever runs a job is the one the body names, so the CLI prints the     *)
(* right holder, the dispatcher sees that the lock is taken and a taker    *)
(* finds a preemptible holder: no release, stale cleanup or truncation of  *)
(* another process erases it.                                              *)
HolderIsNamed ==
  \A p \in Procs : pc[p] = "held" => body = p

(* A live process the body names does hold the lock: a process that keeps  *)
(* running after its release is not taken for the holder, and is not       *)
(* signalled for it.                                                       *)
NamedHolderHolds ==
  \A p \in Procs : body = p /\ Alive(p) => owner = p

(* preempt signals only processes that declared themselves preemptible     *)
(* (queue_lock.preempt's docstring), the escalation to SIGKILL included.   *)
OnlyPreemptibleSignalled == term \cup kill \subseteq Background

(* SIGTERM alone: the step whose reading of the body is checked.           *)
OnlyPreemptibleTerminated == term \subseteq Background

(* A CLI process that waits for the lock gets it although a background run *)
(* never ends by itself (ADR 0067).                                        *)
BackgroundStepsAside ==
  \A p \in Blocking \cap GoProcs : pc[p] = "read" ~> pc[p] \in {"held", "dead"}

(* Every behaviour of the lock file is one of a slot with a sign, whatever *)
(* crashes: the occupant owns the flock, the sign is what read_holder      *)
(* returns to the dispatcher and to the CLI.                               *)
Slot == INSTANCE SingleSlot WITH occupant <- owner, shown <- Holder

ImplementsSlot == Slot!Spec

=============================================================================
