---------------------------- MODULE SessionLearn ----------------------------
(***************************************************************************)
(* The learners the Stop hook starts (imprint/session_learn.py, ADR 0077), *)
(* for one conversation. A turn that ends starts a learner, which takes    *)
(* the conversation's waiting slot or leaves its turn to the learner that  *)
(* holds it; the holder waits for the queue lock, gives up the slot and    *)
(* only then reads the conversation.                                       *)
(*                                                                         *)
(* The slot is a locked file that its holder removes (queue_lock.try_lock  *)
(* and unlock): a learner locks the file it opened, which need no longer   *)
(* be the file at the path. The queue lock is taken in one step here;      *)
(* QueueLock shows how. A learner has the number of the turn that started  *)
(* it.                                                                     *)
(***************************************************************************)
EXTENDS Naturals, FiniteSets

CONSTANTS
  Turns,      \* turns the conversation may have
  MaxJobs,    \* other jobs that take the queue lock
  MaxUpsets   \* learners that are killed or stopped, or that fail

ASSUME SessionLearnAssumption == {Turns, MaxJobs, MaxUpsets} \subseteq Nat

VARIABLES
  pc,       \* where each learner is
  path,     \* the file at slot_path, 0 when there is none
  files,    \* files created so far, numbered from 1
  fd,       \* the file a learner opened as its slot
  flock,    \* file -> the learner that has it locked
  queue,    \* the holder of the queue lock
  learned,  \* turns that were read and learned
  by,       \* history: the learner each turn was left to, first its own
  failed,   \* learners that were killed or stopped, or that failed
  jobs      \* other jobs so far

vars == <<pc, path, files, fd, flock, queue, learned, by, failed, jobs>>

Learners == 1..Turns

Files == 1..Turns  \* a learner creates at most one

Nobody == 0
OtherJob == Turns + 1

TypeOK ==
  /\ pc \in [Learners -> {"idle", "open", "lock", "settle", "give_up", "unlink", "read",
                          "release", "done"}]
  /\ path \in Files \cup {0}
  /\ files \in Files \cup {0}
  /\ fd \in [Learners -> Files \cup {0}]
  /\ flock \in [Files -> Learners \cup {Nobody}]
  /\ queue \in Learners \cup {Nobody, OtherJob}
  /\ learned \in SUBSET Learners
  /\ by \in [Learners -> Learners]
  /\ failed \in SUBSET Learners
  /\ jobs \in 0..MaxJobs

Init ==
  /\ pc = [l \in Learners |-> "idle"]
  /\ path = 0 /\ files = 0
  /\ fd = [l \in Learners |-> 0]
  /\ flock = [f \in Files |-> Nobody]
  /\ queue = Nobody
  /\ learned = {}
  /\ by = [l \in Learners |-> l]
  /\ failed = {}
  /\ jobs = 0

-----------------------------------------------------------------------------
Goto(l, to) == pc' = [pc EXCEPT ![l] = to]

(* The turns in the transcript: a turn ends before its hook runs.          *)
Ended == {l \in Learners : pc[l] # "idle"}

Fails(l) == Cardinality(failed) < MaxUpsets /\ failed' = failed \cup {l}

-----------------------------------------------------------------------------
(* Slips a change to the code could make, each the mutant of a definition  *)
(* below; no action uses them.                                             *)

(* The slot would be taken by whoever finds its file. *)
FileIsTheSlot(l) ==
  /\ pc[l] = "open"
  /\ \/ /\ path = 0
        /\ files' = files + 1 /\ path' = files'
        /\ fd' = [fd EXCEPT ![l] = files']
        /\ Goto(l, "lock")
     \/ path # 0 /\ Goto(l, "done") /\ UNCHANGED <<files, path, fd>>
  /\ UNCHANGED <<flock, queue, learned, by, failed, jobs>>

(* A learner would also leave its turn to one that holds the queue lock. *)
LeaveToReader(l) ==
  /\ pc[l] = "lock"
  /\ \/ /\ flock[fd[l]] = Nobody /\ queue \notin Learners
        /\ flock' = [flock EXCEPT ![fd[l]] = l]
        /\ Goto(l, "settle") /\ UNCHANGED by
     \/ /\ queue \in Learners
        /\ by' = [by EXCEPT ![l] = queue]
        /\ Goto(l, "done") /\ UNCHANGED flock
     \/ /\ flock[fd[l]] # Nobody
        /\ by' = [by EXCEPT ![l] = flock[fd[l]]]
        /\ Goto(l, "done") /\ UNCHANGED flock
  /\ UNCHANGED <<path, files, fd, queue, learned, failed, jobs>>

-----------------------------------------------------------------------------
(* learn: the waiting slot *)

(* A turn ends, after those before it; its hook starts a learner and returns. *)
TurnEnds(l) ==
  /\ pc[l] = "idle" /\ \A k \in 1..l - 1 : pc[k] # "idle"
  /\ Goto(l, "open")
  /\ UNCHANGED <<path, files, fd, flock, queue, learned, by, failed, jobs>>

(* os.open with O_CREAT *)
OpenSlot(l) ==
  /\ pc[l] = "open"
  /\ files' = IF path = 0 THEN files + 1 ELSE files
  /\ path' = IF path = 0 THEN files' ELSE path
  /\ fd' = [fd EXCEPT ![l] = path']
  /\ Goto(l, "lock")
  /\ UNCHANGED <<flock, queue, learned, by, failed, jobs>>

(* The learner waits with the slot, or leaves its turn to the one that does. *)
TryLock(l) ==
  /\ pc[l] = "lock"
  /\ \/ /\ flock[fd[l]] = Nobody
        /\ flock' = [flock EXCEPT ![fd[l]] = l]
        /\ Goto(l, "settle") /\ UNCHANGED by
     \/ /\ flock[fd[l]] # Nobody
        /\ by' = [by EXCEPT ![l] = flock[fd[l]]]
        /\ Goto(l, "done") /\ UNCHANGED flock
  /\ UNCHANGED <<path, files, fd, queue, learned, failed, jobs>>

(* After the settle period and a wait that takes attempt after attempt. *)
AcquireQueueLock(l) ==
  /\ pc[l] = "settle" /\ queue = Nobody
  /\ queue' = l
  /\ Goto(l, "give_up")
  /\ UNCHANGED <<path, files, fd, flock, learned, by, failed, jobs>>

(* SIGTERM while it waits: the finally clause gives up the slot. *)
StopWaiting(l) ==
  /\ pc[l] = "settle"
  /\ Fails(l)
  /\ Goto(l, "give_up")
  /\ UNCHANGED <<path, files, fd, flock, queue, learned, by, jobs>>

(* unlock releases and closes the file it has open, then removes the file  *)
(* at the path, which may be another one by now. (On Windows the file      *)
(* stays when another learner has it open.)                                *)
UnlockSlot(l) ==
  /\ pc[l] = "give_up"
  /\ flock' = [flock EXCEPT ![fd[l]] = Nobody]
  /\ Goto(l, "unlink")
  /\ UNCHANGED <<path, files, fd, queue, learned, by, failed, jobs>>

RemoveSlot(l) ==
  /\ pc[l] = "unlink"
  /\ path' = 0
  /\ Goto(l, IF queue = l THEN "read" ELSE "done")
  /\ UNCHANGED <<files, fd, flock, queue, learned, by, failed, jobs>>

-----------------------------------------------------------------------------
(* learn: with the queue lock *)

(* The whole transcript is read, and what is new in it learned. *)
Learn(l) ==
  /\ pc[l] = "read"
  /\ learned' = learned \cup Ended
  /\ Goto(l, "release")
  /\ UNCHANGED <<path, files, fd, flock, queue, by, failed, jobs>>

(* The export or the indexing fails, or SIGTERM comes meanwhile. *)
LearnFails(l) ==
  /\ pc[l] = "read"
  /\ Fails(l)
  /\ Goto(l, "release")
  /\ UNCHANGED <<path, files, fd, flock, queue, learned, by, jobs>>

Release(l) ==
  /\ pc[l] = "release"
  /\ queue' = Nobody
  /\ Goto(l, "done")
  /\ UNCHANGED <<path, files, fd, flock, learned, by, failed, jobs>>

(* A learner is killed: the kernel frees its locks, the slot's file stays. *)
Crash(l) ==
  /\ pc[l] \notin {"idle", "done"}
  /\ Fails(l)
  /\ flock' = [f \in Files |-> IF flock[f] = l THEN Nobody ELSE flock[f]]
  /\ queue' = IF queue = l THEN Nobody ELSE queue
  /\ Goto(l, "done")
  /\ UNCHANGED <<path, files, fd, learned, by, jobs>>

(* Other jobs *)

JobTakesLock ==
  /\ queue = Nobody
  /\ jobs < MaxJobs /\ jobs' = jobs + 1
  /\ queue' = OtherJob
  /\ UNCHANGED <<pc, path, files, fd, flock, learned, by, failed>>

JobEnds ==
  /\ queue = OtherJob
  /\ queue' = Nobody
  /\ UNCHANGED <<pc, path, files, fd, flock, learned, by, failed, jobs>>

-----------------------------------------------------------------------------
Step(l) ==
  \/ OpenSlot(l) \/ TryLock(l) \/ AcquireQueueLock(l) \/ UnlockSlot(l)
  \/ RemoveSlot(l) \/ Learn(l) \/ Release(l)

Next ==
  \/ \E l \in Learners : TurnEnds(l) \/ Step(l) \/ StopWaiting(l) \/ LearnFails(l) \/ Crash(l)
  \/ JobTakesLock \/ JobEnds

Spec == Init /\ [][Next]_vars

(* A learner takes its steps, and a job that has the queue lock ends. (One *)
(* that never ends, background tagging, is stopped: QueueLock.)            *)
Fairness == WF_vars(JobEnds) /\ \A l \in Learners : WF_vars(Step(l))

FairSpec == Spec /\ Fairness

-----------------------------------------------------------------------------
(* Learners that have the conversation still to read. *)
WillRead(l) == pc[l] \in {"open", "lock", "settle", "give_up", "unlink", "read"}

(* A turn that ended and was not learned is left to a learner that has the *)
(* transcript still to read, or that was lost: whoever leaves its turn to  *)
(* the slot's holder does so before that one reads (ADR 0077), although    *)
(* several learners may hold a slot at once.                               *)
UnreadTurnHasALearner ==
  \A l \in Ended \ learned : by[l] \in failed \/ WillRead(by[l])

(* Every turn is learned, unless the learner it was left to is lost; "one  *)
(* repeated learn, never a lost turn" (ADR 0077, Consequences).            *)
TurnsAreLearned ==
  \A l \in Learners : l \in Ended ~> l \in learned \/ by[l] \in failed

=============================================================================
