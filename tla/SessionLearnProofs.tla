------------------------- MODULE SessionLearnProofs -------------------------
(***************************************************************************)
(* What SessionLearn guarantees for any number of turns, other jobs and    *)
(* upsets.                                                                 *)
(***************************************************************************)
EXTENDS SessionLearn, FiniteSetTheorems, TLAPS

(* Learners that opened the slot's file, or were killed before they could. *)
Opened == {l \in Learners : pc[l] \notin {"idle", "open"}}

(* No learner creates more than one file. *)
FewFiles == files <= Cardinality(Opened)

(* The newest file is at the path, if any is; a learner that goes on has one. *)
FileInv ==
  /\ path <= files
  /\ \A l \in Learners : pc[l] \notin {"idle", "open", "done"} => fd[l] \in Files

(* A locked file was opened by its holder, which has not begun to read.    *)
SlotInv ==
  \A f \in Files :
    flock[f] # Nobody => pc[flock[f]] \in {"settle", "give_up"} /\ fd[flock[f]] = f

(* A learner that gives up the slot goes on to read, unless it was stopped. *)
QueueInv ==
  \A l \in Learners :
    /\ pc[l] \in {"read", "release"} => queue = l
    /\ pc[l] \in {"give_up", "unlink"} => queue = l \/ l \in failed

(* Whoever left its turn is done, to one that got past taking the slot.    *)
LeftInv ==
  \A l \in Learners :
    by[l] # l => pc[l] = "done" /\ pc[by[l]] \notin {"idle", "open", "lock"}

IInv ==
  TypeOK /\ FewFiles /\ FileInv /\ SlotInv /\ QueueInv /\ LeftInv /\ UnreadTurnHasALearner

USE SessionLearnAssumption

-----------------------------------------------------------------------------
(* The learners that opened a file are finitely many: there are no more    *)
(* files than learners.                                                    *)
LEMMA OpenedFinite ==
  /\ IsFiniteSet(Opened) /\ Cardinality(Opened) \in 0..Turns
  /\ IsFiniteSet(Learners) /\ Cardinality(Learners) = Turns
<1>1. IsFiniteSet(Learners) /\ Cardinality(Learners) = Turns
  BY FS_Interval, 0 \in Int, 1 \in Int DEF Learners
<1>2. IsFiniteSet(Opened) /\ Cardinality(Opened) <= Turns
  BY <1>1, FS_Subset DEF Opened
<1>3. QED
  BY <1>1, <1>2, FS_CardinalityType

(* A learner that moves on makes the opened ones more, and one that opens  *)
(* its file makes them one more.                                           *)
LEMMA OpenedGrows ==
  ASSUME NEW l \in Learners, pc'[l] \notin {"idle", "open"},
         \A k \in Learners \ {l} : pc'[k] = pc[k]
  PROVE  /\ Cardinality(Opened') \in 0..Turns /\ Cardinality(Opened) \in 0..Turns
         /\ Cardinality(Opened) <= Cardinality(Opened')
         /\ pc[l] = "open" => Cardinality(Opened') = Cardinality(Opened) + 1
<1>1. Opened' = Opened \cup {l}
  BY DEF Opened
<1>2. IsFiniteSet(Opened) /\ Cardinality(Opened) \in 0..Turns /\ IsFiniteSet(Learners)
      /\ Cardinality(Learners) = Turns
  BY OpenedFinite
<1>3. /\ IsFiniteSet(Opened \cup {l})
      /\ l \in Opened => Cardinality(Opened \cup {l}) = Cardinality(Opened)
      /\ l \notin Opened => Cardinality(Opened \cup {l}) = Cardinality(Opened) + 1
  BY <1>2, FS_AddElement
<1>4. Cardinality(Opened \cup {l}) <= Turns
  BY <1>2, FS_Subset DEF Opened
<1>5. pc[l] = "open" => l \notin Opened
  BY DEF Opened
<1>6. QED
  BY <1>1, <1>2, <1>3, <1>4, <1>5

(* A step leaves the files, with the learners that opened one as they were *)
(* or more, or it creates a file for a learner that had none.              *)
LEMMA FewFilesInv == TypeOK /\ FewFiles /\ [Next]_vars => FewFiles' /\ files' \in 0..Turns
<1> SUFFICES ASSUME TypeOK, FewFiles, [Next]_vars
             PROVE  FewFiles' /\ files' \in 0..Turns
  OBVIOUS
<1>1. files \in 0..Turns /\ pc = [l \in Learners |-> pc[l]]
  BY DEF TypeOK, Files
<1>2. ASSUME Opened' = Opened, files' = files
      PROVE  FewFiles' /\ files' \in 0..Turns
  BY <1>1, <1>2 DEF FewFiles
<1>3. ASSUME NEW l \in Learners, TurnEnds(l)
      PROVE  FewFiles' /\ files' \in 0..Turns
  <2>1. Opened' = Opened
    BY <1>1, <1>3 DEF TurnEnds, Goto, Opened
  <2>2. QED
    BY <1>2, <1>3, <2>1 DEF TurnEnds
<1>4. ASSUME NEW l \in Learners, OpenSlot(l)
      PROVE  FewFiles' /\ files' \in 0..Turns
  <2>1. pc'[l] = "lock" /\ \A k \in Learners \ {l} : pc'[k] = pc[k]
    BY <1>1, <1>4 DEF OpenSlot, Goto
  <2>2. /\ Cardinality(Opened') \in 0..Turns /\ Cardinality(Opened) \in 0..Turns
        /\ Cardinality(Opened') = Cardinality(Opened) + 1
    BY <1>4, <2>1, OpenedGrows DEF OpenSlot
  <2>3. files' = files \/ files' = files + 1
    BY <1>4 DEF OpenSlot
  <2>4. QED
    BY <1>1, <2>2, <2>3 DEF FewFiles
<1>5. ASSUME NEW l \in Learners,
             TryLock(l) \/ AcquireQueueLock(l) \/ StopWaiting(l) \/ UnlockSlot(l)
               \/ RemoveSlot(l) \/ Learn(l) \/ LearnFails(l) \/ Release(l) \/ Crash(l)
      PROVE  FewFiles' /\ files' \in 0..Turns
  <2>1. /\ pc'[l] \notin {"idle", "open"} /\ \A k \in Learners \ {l} : pc'[k] = pc[k]
        /\ files' = files
    BY <1>1, <1>5 DEF TryLock, AcquireQueueLock, StopWaiting, UnlockSlot, RemoveSlot, Learn,
                      LearnFails, Release, Crash, Goto
  <2>2. /\ Cardinality(Opened') \in 0..Turns /\ Cardinality(Opened) \in 0..Turns
        /\ Cardinality(Opened) <= Cardinality(Opened')
    BY <2>1, OpenedGrows
  <2>3. QED
    BY <1>1, <2>1, <2>2 DEF FewFiles
<1>6. CASE JobTakesLock \/ JobEnds \/ UNCHANGED vars
  <2>1. Opened' = Opened /\ files' = files
    BY <1>6 DEF JobTakesLock, JobEnds, vars, Opened
  <2>2. QED
    BY <1>2, <2>1
<1>7. QED
  BY <1>3, <1>4, <1>5, <1>6 DEF Next, Step

-----------------------------------------------------------------------------
LEMMA InitInv == Init => IInv
<1> SUFFICES ASSUME Init
             PROVE  IInv
  OBVIOUS
<1>1. files <= Cardinality(Opened)
  BY OpenedFinite DEF Init
<1>2. QED
  BY <1>1 DEF Init, IInv, TypeOK, FewFiles, FileInv, SlotInv, QueueInv, LeftInv,
              UnreadTurnHasALearner, Ended, Files, Learners, Nobody

(* The slot's files are not more than the learners, so their numbers stay  *)
(* in range; whoever goes on keeps the file it opened.                     *)
LEMMA TypeInv == TypeOK /\ FewFiles /\ FileInv /\ [Next]_vars => TypeOK' /\ FileInv'
<1> SUFFICES ASSUME TypeOK, FewFiles, FileInv, [Next]_vars
             PROVE  TypeOK' /\ FileInv'
  OBVIOUS
<1>0. files \in 0..Turns /\ files' \in 0..Turns
  BY FewFilesInv DEF TypeOK, Files
<1> USE <1>0 DEF TypeOK, FileInv, Goto, Fails
<1>1. ASSUME NEW l \in Learners, TurnEnds(l)
      PROVE  TypeOK' /\ FileInv'
  BY <1>1 DEF TurnEnds
<1>2. ASSUME NEW l \in Learners, OpenSlot(l)
      PROVE  TypeOK' /\ FileInv'
  BY <1>2 DEF OpenSlot, Files
<1>3. ASSUME NEW l \in Learners, TryLock(l)
      PROVE  TypeOK' /\ FileInv'
  <2>1. fd[l] \in Files
    BY <1>3 DEF TryLock
  <2>2. flock[fd[l]] \in Learners \cup {Nobody}
    BY <2>1
  <2>3. QED
    BY <1>3, <2>1, <2>2 DEF TryLock
<1>4. ASSUME NEW l \in Learners, AcquireQueueLock(l)
      PROVE  TypeOK' /\ FileInv'
  BY <1>4 DEF AcquireQueueLock
<1>5. ASSUME NEW l \in Learners, StopWaiting(l)
      PROVE  TypeOK' /\ FileInv'
  BY <1>5 DEF StopWaiting
<1>6. ASSUME NEW l \in Learners, UnlockSlot(l)
      PROVE  TypeOK' /\ FileInv'
  BY <1>6 DEF UnlockSlot
<1>7. ASSUME NEW l \in Learners, RemoveSlot(l)
      PROVE  TypeOK' /\ FileInv'
  BY <1>7 DEF RemoveSlot, Files
<1>8. ASSUME NEW l \in Learners, Learn(l)
      PROVE  TypeOK' /\ FileInv'
  BY <1>8 DEF Learn, Ended
<1>9. ASSUME NEW l \in Learners, LearnFails(l)
      PROVE  TypeOK' /\ FileInv'
  BY <1>9 DEF LearnFails
<1>10. ASSUME NEW l \in Learners, Release(l)
      PROVE  TypeOK' /\ FileInv'
  BY <1>10 DEF Release
<1>11. ASSUME NEW l \in Learners, Crash(l)
      PROVE  TypeOK' /\ FileInv'
  BY <1>11 DEF Crash
<1>12. CASE JobTakesLock \/ JobEnds
  <2>1. jobs' \in 0..MaxJobs
    BY <1>12 DEF JobTakesLock, JobEnds
  <2>2. QED
    BY <1>12, <2>1 DEF JobTakesLock, JobEnds
<1>13. CASE UNCHANGED vars
  BY <1>13 DEF vars
<1>14. QED
  BY <1>1, <1>2, <1>3, <1>4, <1>5, <1>6, <1>7, <1>8, <1>9, <1>10, <1>11,
     <1>12, <1>13 DEF Next, Step

(* A learner locks the file it opened, and frees it before it reads.       *)
LEMMA SlotInvStep == TypeOK /\ FileInv /\ SlotInv /\ [Next]_vars => SlotInv'
<1> SUFFICES ASSUME TypeOK, FileInv, SlotInv, [Next]_vars
             PROVE  SlotInv'
  OBVIOUS
<1> USE DEF TypeOK, FileInv, SlotInv, Goto
<1>1. ASSUME NEW l \in Learners, TurnEnds(l)
      PROVE  SlotInv'
  BY <1>1 DEF TurnEnds
<1>2. ASSUME NEW l \in Learners, OpenSlot(l)
      PROVE  SlotInv'
  BY <1>2 DEF OpenSlot
<1>3. ASSUME NEW l \in Learners, TryLock(l)
      PROVE  SlotInv'
  BY <1>3 DEF TryLock
<1>4. ASSUME NEW l \in Learners, AcquireQueueLock(l)
      PROVE  SlotInv'
  BY <1>4 DEF AcquireQueueLock
<1>5. ASSUME NEW l \in Learners, StopWaiting(l)
      PROVE  SlotInv'
  BY <1>5 DEF StopWaiting
<1>6. ASSUME NEW l \in Learners, UnlockSlot(l)
      PROVE  SlotInv'
  BY <1>6 DEF UnlockSlot
<1>7. ASSUME NEW l \in Learners, RemoveSlot(l)
      PROVE  SlotInv'
  BY <1>7 DEF RemoveSlot
<1>8. ASSUME NEW l \in Learners, Learn(l)
      PROVE  SlotInv'
  BY <1>8 DEF Learn
<1>9. ASSUME NEW l \in Learners, LearnFails(l)
      PROVE  SlotInv'
  BY <1>9 DEF LearnFails
<1>10. ASSUME NEW l \in Learners, Release(l)
      PROVE  SlotInv'
  BY <1>10 DEF Release
<1>11. ASSUME NEW l \in Learners, Crash(l)
      PROVE  SlotInv'
  BY <1>11 DEF Crash
<1>12. CASE JobTakesLock \/ JobEnds
  BY <1>12 DEF JobTakesLock, JobEnds
<1>13. CASE UNCHANGED vars
  BY <1>13 DEF vars
<1>14. QED
  BY <1>1, <1>2, <1>3, <1>4, <1>5, <1>6, <1>7, <1>8, <1>9, <1>10, <1>11,
     <1>12, <1>13 DEF Next, Step

(* Only the holder of the queue lock lets it go, and whoever stops waiting *)
(* for it is counted as failed.                                            *)
LEMMA QueueInvStep == TypeOK /\ QueueInv /\ [Next]_vars => QueueInv'
<1> SUFFICES ASSUME TypeOK, QueueInv, [Next]_vars
             PROVE  QueueInv'
  OBVIOUS
<1> USE DEF TypeOK, QueueInv, Goto, Fails
<1>1. ASSUME NEW l \in Learners, TurnEnds(l)
      PROVE  QueueInv'
  BY <1>1 DEF TurnEnds
<1>2. ASSUME NEW l \in Learners, OpenSlot(l)
      PROVE  QueueInv'
  BY <1>2 DEF OpenSlot
<1>3. ASSUME NEW l \in Learners, TryLock(l)
      PROVE  QueueInv'
  BY <1>3 DEF TryLock
<1>4. ASSUME NEW l \in Learners, AcquireQueueLock(l)
      PROVE  QueueInv'
  BY <1>4 DEF AcquireQueueLock, Learners, Nobody
<1>5. ASSUME NEW l \in Learners, StopWaiting(l)
      PROVE  QueueInv'
  BY <1>5 DEF StopWaiting
<1>6. ASSUME NEW l \in Learners, UnlockSlot(l)
      PROVE  QueueInv'
  BY <1>6 DEF UnlockSlot
<1>7. ASSUME NEW l \in Learners, RemoveSlot(l)
      PROVE  QueueInv'
  BY <1>7 DEF RemoveSlot
<1>8. ASSUME NEW l \in Learners, Learn(l)
      PROVE  QueueInv'
  BY <1>8 DEF Learn
<1>9. ASSUME NEW l \in Learners, LearnFails(l)
      PROVE  QueueInv'
  BY <1>9 DEF LearnFails
<1>10. ASSUME NEW l \in Learners, Release(l)
      PROVE  QueueInv'
  BY <1>10 DEF Release
<1>11. ASSUME NEW l \in Learners, Crash(l)
      PROVE  QueueInv'
  BY <1>11 DEF Crash
<1>12. CASE JobTakesLock \/ JobEnds
  BY <1>12 DEF JobTakesLock, JobEnds, Learners, OtherJob, Nobody
<1>13. CASE UNCHANGED vars
  BY <1>13 DEF vars
<1>14. QED
  BY <1>1, <1>2, <1>3, <1>4, <1>5, <1>6, <1>7, <1>8, <1>9, <1>10, <1>11,
     <1>12, <1>13 DEF Next, Step

(* A turn is left to a learner that has a file locked: one that waits.     *)
LEMMA LeftInvStep == TypeOK /\ FileInv /\ SlotInv /\ LeftInv /\ [Next]_vars => LeftInv'
<1> SUFFICES ASSUME TypeOK, FileInv, SlotInv, LeftInv, [Next]_vars
             PROVE  LeftInv'
  OBVIOUS
<1> USE DEF TypeOK, FileInv, SlotInv, LeftInv, Goto, Fails
<1>1. ASSUME NEW l \in Learners, TurnEnds(l)
      PROVE  LeftInv'
  BY <1>1 DEF TurnEnds
<1>2. ASSUME NEW l \in Learners, OpenSlot(l)
      PROVE  LeftInv'
  BY <1>2 DEF OpenSlot
<1>3. ASSUME NEW l \in Learners, TryLock(l)
      PROVE  LeftInv'
  BY <1>3 DEF TryLock
<1>4. ASSUME NEW l \in Learners, AcquireQueueLock(l)
      PROVE  LeftInv'
  BY <1>4 DEF AcquireQueueLock
<1>5. ASSUME NEW l \in Learners, StopWaiting(l)
      PROVE  LeftInv'
  BY <1>5 DEF StopWaiting
<1>6. ASSUME NEW l \in Learners, UnlockSlot(l)
      PROVE  LeftInv'
  BY <1>6 DEF UnlockSlot
<1>7. ASSUME NEW l \in Learners, RemoveSlot(l)
      PROVE  LeftInv'
  BY <1>7 DEF RemoveSlot
<1>8. ASSUME NEW l \in Learners, Learn(l)
      PROVE  LeftInv'
  BY <1>8 DEF Learn
<1>9. ASSUME NEW l \in Learners, LearnFails(l)
      PROVE  LeftInv'
  BY <1>9 DEF LearnFails
<1>10. ASSUME NEW l \in Learners, Release(l)
      PROVE  LeftInv'
  BY <1>10 DEF Release
<1>11. ASSUME NEW l \in Learners, Crash(l)
      PROVE  LeftInv'
  BY <1>11 DEF Crash
<1>12. CASE JobTakesLock \/ JobEnds
  BY <1>12 DEF JobTakesLock, JobEnds
<1>13. CASE UNCHANGED vars
  BY <1>13 DEF vars
<1>14. QED
  BY <1>1, <1>2, <1>3, <1>4, <1>5, <1>6, <1>7, <1>8, <1>9, <1>10, <1>11,
     <1>12, <1>13 DEF Next, Step

(* A learner that was to read a turn reads it or is lost.                  *)
LEMMA UnreadInvStep ==
  TypeOK /\ FileInv /\ SlotInv /\ QueueInv /\ LeftInv /\ UnreadTurnHasALearner /\ [Next]_vars
    => UnreadTurnHasALearner'
<1> SUFFICES ASSUME TypeOK, FileInv, SlotInv, QueueInv, LeftInv, UnreadTurnHasALearner,
                    [Next]_vars
             PROVE  UnreadTurnHasALearner'
  OBVIOUS
<1> USE DEF TypeOK, QueueInv, LeftInv, UnreadTurnHasALearner, Ended, WillRead, Goto, Fails
<1>1. ASSUME NEW l \in Learners, TurnEnds(l)
      PROVE  UnreadTurnHasALearner'
  BY <1>1 DEF TurnEnds
<1>2. ASSUME NEW l \in Learners, OpenSlot(l)
      PROVE  UnreadTurnHasALearner'
  BY <1>2 DEF OpenSlot
<1>3. ASSUME NEW l \in Learners, TryLock(l)
      PROVE  UnreadTurnHasALearner'
  BY <1>3 DEF TryLock, FileInv, SlotInv
<1>4. ASSUME NEW l \in Learners, AcquireQueueLock(l)
      PROVE  UnreadTurnHasALearner'
  BY <1>4 DEF AcquireQueueLock
<1>5. ASSUME NEW l \in Learners, StopWaiting(l)
      PROVE  UnreadTurnHasALearner'
  BY <1>5 DEF StopWaiting
<1>6. ASSUME NEW l \in Learners, UnlockSlot(l)
      PROVE  UnreadTurnHasALearner'
  BY <1>6 DEF UnlockSlot
<1>7. ASSUME NEW l \in Learners, RemoveSlot(l)
      PROVE  UnreadTurnHasALearner'
  BY <1>7 DEF RemoveSlot
<1>8. ASSUME NEW l \in Learners, Learn(l)
      PROVE  UnreadTurnHasALearner'
  BY <1>8 DEF Learn
<1>9. ASSUME NEW l \in Learners, LearnFails(l)
      PROVE  UnreadTurnHasALearner'
  BY <1>9 DEF LearnFails
<1>10. ASSUME NEW l \in Learners, Release(l)
      PROVE  UnreadTurnHasALearner'
  BY <1>10 DEF Release
<1>11. ASSUME NEW l \in Learners, Crash(l)
      PROVE  UnreadTurnHasALearner'
  BY <1>11 DEF Crash
<1>12. CASE JobTakesLock \/ JobEnds
  BY <1>12 DEF JobTakesLock, JobEnds
<1>13. CASE UNCHANGED vars
  BY <1>13 DEF vars
<1>14. QED
  BY <1>1, <1>2, <1>3, <1>4, <1>5, <1>6, <1>7, <1>8, <1>9, <1>10, <1>11,
     <1>12, <1>13 DEF Next, Step

LEMMA NextInv == IInv /\ [Next]_vars => IInv'
  BY FewFilesInv, TypeInv, SlotInvStep, QueueInvStep, LeftInvStep, UnreadInvStep DEF IInv

LEMMA Invariance == Spec => []IInv
  BY InitInv, NextInv, PTL DEF Spec

-----------------------------------------------------------------------------
(* Every state of the learners, the slot's files and the queue lock is     *)
(* well formed; no learner makes a second file, so their numbers suffice.  *)
THEOREM TypeCorrect == Spec => []TypeOK
  BY Invariance, PTL DEF IInv

(* A turn that learn leaves to the slot's holder is still to be read by    *)
(* it: for any number of turns, files at the path, kills and failures.     *)
THEOREM NoTurnIsForgotten == Spec => []UnreadTurnHasALearner
  BY Invariance, PTL DEF IInv

=============================================================================
