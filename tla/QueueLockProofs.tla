-------------------------- MODULE QueueLockProofs --------------------------
(***************************************************************************)
(* What QueueLock guarantees for any number of processes, and that it      *)
(* implements SingleSlot.                                                  *)
(***************************************************************************)
EXTENDS QueueLock, TLAPS

(* The states of a process that does, or is about to do, what only a taker *)
(* of a held lock does.                                                    *)
Taking == {"read", "stop", "reread", "poll", "escalate", "blocked"}

(* The flock and the program counters agree: this is what makes the lock   *)
(* exclusive, and what keeps one process from writing the body of another. *)
OwnerWorks == \A p \in Procs : Working(p) <=> owner = p

(* The body names a live process exactly while that process holds the lock *)
(* and has not begun to release it.                                        *)
BodyInv == \A p \in Procs : Alive(p) => (body = p <=> pc[p] = "held")

(* Only takers that are neither preemptible nor cleaning up wait, and the  *)
(* PID about to get SIGTERM was read from a preemptible holder.            *)
TakerInv ==
  \A p \in Procs :
    /\ pc[p] \in Taking => p \notin Background \cup Cleaners
    /\ pc[p] = "stop" => target[p] \in Background

IInv == TypeOK /\ OwnerWorks /\ BodyInv /\ TakerInv /\ OnlyPreemptibleTerminated

USE QueueLockAssumption

LEMMA InitInv == Init => IInv
  BY DEF Init, IInv, TypeOK, OwnerWorks, BodyInv, TakerInv, OnlyPreemptibleTerminated,
         Working, Owning, Alive, Taking, PC

LEMMA NextInv == IInv /\ [Next]_vars => IInv'
<1> SUFFICES ASSUME IInv, [Next]_vars
             PROVE  IInv'
  OBVIOUS
<1> USE DEF IInv, TypeOK, OwnerWorks, BodyInv, TakerInv, OnlyPreemptibleTerminated,
            Working, Owning, Alive, Taking, PC, Goto, Take
<1>1. ASSUME NEW p \in Procs, TryLock(p)
      PROVE  IInv'
  BY <1>1 DEF TryLock
<1>2. ASSUME NEW p \in Procs, ReadHolder(p)
      PROVE  IInv'
  BY <1>2 DEF ReadHolder, Holder, Preemptible, GiveUp
<1>3. ASSUME NEW p \in Procs, StopHolder(p)
      PROVE  IInv'
  BY <1>3 DEF StopHolder
<1>4. ASSUME NEW p \in Procs, Reread(p)
      PROVE  IInv'
  BY <1>4 DEF Reread, Holder
<1>5. ASSUME NEW p \in Procs, PollTake(p)
      PROVE  IInv'
  BY <1>5 DEF PollTake
<1>6. ASSUME NEW p \in Procs, PollLate(p)
      PROVE  IInv'
  BY <1>6 DEF PollLate
<1>7. ASSUME NEW p \in Procs, Escalate(p)
      PROVE  IInv'
  BY <1>7 DEF Escalate
<1>8. ASSUME NEW p \in Procs, PollTimeout(p)
      PROVE  IInv'
  BY <1>8 DEF PollTimeout, GiveUp
<1>9. ASSUME NEW p \in Procs, Grant(p)
      PROVE  IInv'
  BY <1>9 DEF Grant
<1>10. ASSUME NEW p \in Procs, Retry(p)
       PROVE  IInv'
  BY <1>10 DEF Retry
<1>11. ASSUME NEW p \in Procs, Truncate(p)
       PROVE  IInv'
  BY <1>11 DEF Truncate
<1>12. ASSUME NEW p \in Procs, WriteHolder(p)
       PROVE  IInv'
  BY <1>12 DEF WriteHolder
<1>13. ASSUME NEW p \in Procs, Tick(p)
       PROVE  IInv'
  BY <1>13 DEF Tick
<1>14. ASSUME NEW p \in Procs, Release(p)
       PROVE  IInv'
  BY <1>14 DEF Release
<1>15. ASSUME NEW p \in Procs, Unlock(p)
       PROVE  IInv'
  BY <1>15 DEF Unlock
<1>16. ASSUME NEW p \in Procs, ClearStale(p)
       PROVE  IInv'
  BY <1>16 DEF ClearStale, ClearRead, ClearLock, ClearTruncate, Holder
<1>17. ASSUME NEW p \in Procs, Gone(p), Alive(p), crashes' \in 0..MaxCrashes
       PROVE  IInv'
  BY <1>17 DEF Gone
<1>18. ASSUME NEW p \in Procs, Die(p) \/ Exit(p) \/ Crash(p)
       PROVE  IInv'
  BY <1>17, <1>18 DEF Die, Exit, Crash
<1>19. CASE UNCHANGED vars
  BY <1>19 DEF vars
<1>20. QED
  BY <1>1, <1>2, <1>3, <1>4, <1>5, <1>6, <1>7, <1>8, <1>9, <1>10, <1>11, <1>12, <1>13,
     <1>14, <1>15, <1>16, <1>18, <1>19 DEF Next, Acquire

LEMMA Invariance == Spec => []IInv
  BY InitInv, NextInv, PTL DEF Spec

-----------------------------------------------------------------------------
(* Every state of the lock file and its processes is well formed. *)
THEOREM TypeCorrect == Spec => []TypeOK
  BY Invariance, PTL DEF IInv

(* One job at a time, for any number of processes of both implementations, *)
(* background runs, cleaners and crashes: acquire, release and clear_stale *)
(* never let two processes past the flock.                                 *)
THEOREM OneJobAtATime == Spec => []MutualExclusion
<1>1. IInv => MutualExclusion
  BY DEF IInv, OwnerWorks, MutualExclusion
<1>2. QED
  BY Invariance, <1>1, PTL

(* The running job is always named by the lock file's body: nothing        *)
(* another process does to the body erases or replaces its name.           *)
THEOREM RunningJobIsNamed == Spec => []HolderIsNamed
<1>1. IInv => HolderIsNamed
  BY DEF IInv, BodyInv, HolderIsNamed, Alive
<1>2. QED
  BY Invariance, <1>1, PTL

(* A live process the body names holds the lock, so nobody waits for, or   *)
(* signals, one that has released it.                                      *)
THEOREM LiveNameHolds == Spec => []NamedHolderHolds
<1>1. IInv => NamedHolderHolds
  BY DEF IInv, BodyInv, OwnerWorks, NamedHolderHolds, Working, Owning
<1>2. QED
  BY Invariance, <1>1, PTL

(* Only runs that declared themselves preemptible get the SIGTERM of       *)
(* preempt, however readings and releases interleave.                      *)
THEOREM SigtermIsDeclared == Spec => []OnlyPreemptibleTerminated
  BY Invariance, PTL DEF IInv

-----------------------------------------------------------------------------
(* The Go side alone also keeps SIGKILL to preemptible runs: it escalates  *)
(* to the PID it read the flag of. (Python reads the PID again, and a run  *)
(* of TLC shows it killing a job that is not preemptible.)                 *)
AllTakersAreGo == Procs = Background \cup GoProcs \cup Cleaners

GoInv ==
  /\ \A p \in Procs :
       /\ pc[p] # "reread"
       /\ pc[p] \in {"poll", "escalate"} => target[p] \in Background \cup {Nobody}
       /\ pc[p] = "escalate" => target[p] # Nobody
  /\ kill \subseteq Background

THEOREM GoSignalsAreDeclared ==
  ASSUME AllTakersAreGo
  PROVE  Spec => []OnlyPreemptibleSignalled
<1>1. Init => GoInv
  BY DEF Init, GoInv
<1>2. IInv /\ GoInv /\ [Next]_vars => GoInv'
  <2> SUFFICES ASSUME IInv, GoInv, [Next]_vars
               PROVE  GoInv'
    OBVIOUS
  <2> USE DEF GoInv, IInv, TypeOK, Goto
  <2>1. ASSUME NEW p \in Procs, StopHolder(p)
        PROVE  GoInv'
    <3>1. p \in GoProcs /\ target[p] \in Background
      BY <2>1, AllTakersAreGo DEF AllTakersAreGo, StopHolder, TakerInv, Taking
    <3>2. QED
      BY <2>1, <3>1 DEF StopHolder
  <2>2. ASSUME NEW p \in Procs, Escalate(p)
        PROVE  GoInv'
    BY <2>2 DEF Escalate
  <2>3. ASSUME NEW p \in Procs, PollTake(p) \/ PollLate(p) \/ PollTimeout(p) \/ Tick(p)
        PROVE  GoInv'
    BY <2>3 DEF PollTake, PollLate, PollTimeout, Tick, GiveUp
  <2>4. ASSUME NEW p \in Procs, TryLock(p) \/ ReadHolder(p) \/ Reread(p) \/ Grant(p) \/ Retry(p)
        PROVE  GoInv'
    BY <2>4 DEF TryLock, ReadHolder, Reread, Grant, Retry, GiveUp
  <2>5. ASSUME NEW p \in Procs, Truncate(p) \/ WriteHolder(p) \/ Release(p) \/ Unlock(p)
        PROVE  GoInv'
    BY <2>5 DEF Truncate, WriteHolder, Release, Unlock
  <2>6. ASSUME NEW p \in Procs, ClearStale(p)
        PROVE  GoInv'
    BY <2>6 DEF ClearStale, ClearRead, ClearLock, ClearTruncate
  <2>7. ASSUME NEW p \in Procs, Die(p) \/ Exit(p) \/ Crash(p)
        PROVE  GoInv'
    BY <2>7 DEF Die, Exit, Crash, Gone
  <2>8. CASE UNCHANGED vars
    BY <2>8 DEF vars
  <2>9. QED
    BY <2>1, <2>2, <2>3, <2>4, <2>5, <2>6, <2>7, <2>8 DEF Next, Acquire
<1>3. IInv /\ GoInv => OnlyPreemptibleSignalled
  BY DEF IInv, OnlyPreemptibleTerminated, GoInv, OnlyPreemptibleSignalled
<1>4. QED
  BY Invariance, <1>1, <1>2, <1>3, PTL DEF Spec

-----------------------------------------------------------------------------
(* Every step of the lock file's processes is a step of the slot, or none. *)
LEMMA StepImplementsSlot == IInv /\ IInv' /\ [Next]_vars => [Slot!Next]_(Slot!vars)
<1> SUFFICES ASSUME IInv, IInv', [Next]_vars
             PROVE  [Slot!Next]_(Slot!vars)
  OBVIOUS
<1> USE DEF IInv, TypeOK, Goto, Holder, Alive, Slot!Next, Slot!vars
<1>1. ASSUME NEW p \in Procs, Take(p), UNCHANGED body, pc[p] # "dead",
             \E to \in Owning : Goto(p, to)
      PROVE  Slot!Next
  <2>1. Holder' = Holder
    BY <1>1 DEF Owning
  <2>2. QED
    BY <1>1, <2>1 DEF Take, Slot!Enter
<1>2. ASSUME NEW p \in Procs, UNCHANGED <<owner, body>>, pc[p] # "dead",
             \E to \in PC \ {"dead"} : Goto(p, to)
      PROVE  UNCHANGED Slot!vars
  BY <1>2
<1>3. ASSUME NEW p \in Procs, owner = p, UNCHANGED owner, body' = Nobody, pc[p] # "dead",
             \E to \in Owning : Goto(p, to)
      PROVE  Slot!Next
  BY <1>3 DEF Owning, Slot!Conceal

<1>4. ASSUME NEW p \in Procs, TryLock(p) \/ PollTake(p) \/ Grant(p) \/ ClearLock(p)
      PROVE  [Slot!Next]_(Slot!vars)
  BY <1>1, <1>2, <1>4 DEF TryLock, PollTake, Grant, ClearLock, Owning, PC
<1>5. ASSUME NEW p \in Procs,
             \/ ReadHolder(p) \/ StopHolder(p) \/ Reread(p) \/ PollLate(p) \/ Escalate(p)
             \/ PollTimeout(p) \/ Retry(p) \/ ClearRead(p)
      PROVE  UNCHANGED Slot!vars
  BY <1>2, <1>5 DEF ReadHolder, StopHolder, Reread, PollLate, Escalate, PollTimeout, Retry,
                    ClearRead, GiveUp, PC, Owning
<1>6. ASSUME NEW p \in Procs, Truncate(p) \/ Release(p) \/ ClearTruncate(p)
      PROVE  Slot!Next
  BY <1>3, <1>6 DEF Truncate, Release, ClearTruncate, OwnerWorks, Working, Owning
<1>7. ASSUME NEW p \in Procs, WriteHolder(p)
      PROVE  Slot!Next
  BY <1>7 DEF WriteHolder, OwnerWorks, Working, Owning, Slot!Announce
<1>8. ASSUME NEW p \in Procs, Unlock(p)
      PROVE  Slot!Next
  <2>1. owner = p /\ owner' = Nobody /\ pc' = [pc EXCEPT ![p] = "done"] /\ body' = body
    BY <1>8 DEF Unlock, OwnerWorks, Working, Owning
  <2>2. Holder' = Nobody
    BY <2>1, <1>8 DEF Unlock, OwnerWorks, BodyInv, Working, Owning
  <2>3. QED
    BY <2>1, <2>2 DEF Slot!Leave
<1>9. ASSUME NEW p \in Procs, Gone(p), Alive(p)
      PROVE  [Slot!Next]_(Slot!vars)
  <2>1. CASE owner = p
    <3>1. Holder' = Nobody
      BY <2>1, <1>9 DEF Gone, OwnerWorks, BodyInv, Working, Owning
    <3>2. QED
      BY <2>1, <3>1, <1>9 DEF Gone, Slot!Leave
  <2>2. CASE owner # p
    BY <2>2, <1>9 DEF Gone, OwnerWorks, BodyInv, Working, Owning
  <2>3. QED
    BY <2>1, <2>2
<1>10. ASSUME NEW p \in Procs, Die(p) \/ Exit(p) \/ Crash(p)
       PROVE  [Slot!Next]_(Slot!vars)
  BY <1>9, <1>10 DEF Die, Exit, Crash
<1>11. CASE (\E p \in Procs : Tick(p)) \/ UNCHANGED vars
  BY <1>11 DEF Tick, vars
<1>12. QED
  BY <1>4, <1>5, <1>6, <1>7, <1>8, <1>10, <1>11 DEF Next, Acquire, ClearStale

(* The lock file, with its stale names, signals and crashes, is a slot     *)
(* with a sign: whatever a reader is told, it is told of the occupant.     *)
THEOREM LockFileIsASlot == Spec => ImplementsSlot
<1>1. Init => Slot!Init
  BY DEF Init, Slot!Init, Holder, Alive
<1>2. QED
  BY <1>1, Invariance, StepImplementsSlot, PTL DEF Spec, ImplementsSlot, Slot!Spec

=============================================================================
