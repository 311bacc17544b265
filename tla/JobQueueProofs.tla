--------------------------- MODULE JobQueueProofs ---------------------------
(***************************************************************************)
(* What JobQueue guarantees for any number of rows, requests, crashes,     *)
(* cancels and commands of terminals.                                      *)
(***************************************************************************)
EXTENDS JobQueue, TLAPS, FiniteSetTheorems

LEMMA Bounds == MaxRows \in Nat /\ MaxUpsets \in Nat
  BY JobQueueAssumption

USE JobQueueAssumption

-----------------------------------------------------------------------------
(* A nonempty set of row numbers has a least one: otherwise each number    *)
(* would have between 1 and n - 1 of the n numbers below it, and two would *)
(* have equally many.                                                      *)
LEMMA LeastRow ==
  ASSUME NEW S \in SUBSET Rows, S # {}
  PROVE  \E x \in S : \A y \in S : x <= y
<1> DEFINE Below(x) == {y \in S : y < x}
           n == Cardinality(S)
           f == [x \in S |-> Cardinality(Below(x))]
<1>1. S \subseteq Nat /\ IsFiniteSet(S) /\ n \in Nat /\ n # 0
  <2>1. IsFiniteSet(Rows)
    BY FS_Interval DEF Rows
  <2>2. IsFiniteSet(S)
    BY <2>1, FS_Subset
  <2> QED
    BY <2>2, FS_CardinalityType, FS_EmptySet DEF Rows
<1>2. ASSUME NEW x \in S
      PROVE  /\ IsFiniteSet(Below(x)) /\ Cardinality(Below(x)) \in Nat
             /\ Cardinality(Below(x)) <= n - 1
  <2>1. IsFiniteSet(S \ {x}) /\ Cardinality(S \ {x}) = n - 1
    BY <1>1, FS_RemoveElement
  <2>2. Below(x) \in SUBSET (S \ {x})
    BY <1>1
  <2> QED
    BY <2>1, <2>2, FS_Subset, FS_CardinalityType
<1>3. ASSUME NEW x \in S, NEW y \in S, x < y
      PROVE  f[x] # f[y]
  <2>1. Below(x) \in SUBSET Below(y) /\ x \in Below(y) /\ x \notin Below(x)
    <3>1. x \in Nat /\ y \in Nat /\ x < y /\ \A z \in S : z \in Nat
      BY <1>1, <1>3
    <3>2. ~ (x < x) /\ \A z \in S : z < x => z < y
      BY <3>1
    <3> QED
      BY <3>1, <3>2, Zenon
  <2>2. Cardinality(Below(x)) # Cardinality(Below(y))
    BY <1>2, <2>1, FS_Subset
  <2> QED
    BY <2>2
<1> SUFFICES ASSUME \A x \in S : \E y \in S : y < x
             PROVE  FALSE
  BY <1>1
<1>4. f \in [S -> 1..n - 1]
  <2> SUFFICES ASSUME NEW x \in S
               PROVE  Cardinality(Below(x)) \in 1..n - 1
    OBVIOUS
  <2>1. Below(x) # {}
    OBVIOUS
  <2>2. Cardinality(Below(x)) # 0
    BY <1>2, <2>1, FS_EmptySet
  <2> QED
    BY <1>1, <1>2, <2>2
<1>5. IsFiniteSet(1..n - 1) /\ Cardinality(1..n - 1) < n
  <2> HIDE DEF n
  <2> DEFINE m == n - 1
  <2>1. n \in Nat /\ n # 0 /\ m \in Int /\ 1 \in Int
    BY <1>1
  <2> HIDE DEF m
  <2>2. IsFiniteSet(1..m) /\ Cardinality(1..m) = IF 1 > m THEN 0 ELSE m - 1 + 1
    BY <2>1, FS_Interval, Zenon
  <2>3. Cardinality(1..m) < n
    BY <2>1, <2>2, SMT DEF m
  <2> QED
    BY <2>2, <2>3 DEF m
<1>6. PICK x, y \in S : x # y /\ f[x] = f[y]
  <2> DEFINE T == 1..n - 1
  <2>1. IsFiniteSet(S) /\ IsFiniteSet(T) /\ Cardinality(T) < Cardinality(S) /\ f \in [S -> T]
    BY <1>1, <1>4, <1>5
  <2> HIDE DEF f, T
  <2> QED
    BY <2>1, FS_PigeonHole
<1> QED
  BY <1>1, <1>3, <1>6

USE Bounds

(* The oldest of some rows is one of them: what _next_queued selects and   *)
(* what submit merges into exist.                                          *)
LEMMA OldestIsIn ==
  ASSUME NEW S \in SUBSET Rows, S # {}
  PROVE  Oldest(S) \in S
BY LeastRow DEF Oldest

(* An update of one row's status leaves everything else of the table.      *)
LEMMA StatusUpdate ==
  ASSUME NEW table \in [Rows -> Row], NEW j \in Rows,
         NEW status \in Ended \cup {"none", "queued", "running"}
  PROVE  LET new == [table EXCEPT ![j].status = status]
         IN  /\ new \in [Rows -> Row]
             /\ \A i \in Rows :
                  /\ new[i].status = IF i = j THEN status ELSE table[i].status
                  /\ new[i].asked = table[i].asked
                  /\ new[i].command = table[i].command
  BY DEF Row

(* So does an update of the requests a row answers, of its PID, or of its  *)
(* cancel marker.                                                          *)
LEMMA AskedUpdate ==
  ASSUME NEW table \in [Rows -> Row], NEW j \in Rows, NEW r \in Requests
  PROVE  LET new == [table EXCEPT ![j].asked = @ \cup {r}]
         IN  /\ new \in [Rows -> Row]
             /\ \A i \in Rows :
                  new[i].status = table[i].status /\ (i # j => new[i] = table[i])
<1> DEFINE row == [table[j] EXCEPT !.asked = @ \cup {r}]
<1>1. table[j] \in Row
  OBVIOUS
<1>2. row \in Row /\ row.status = table[j].status
  BY <1>1 DEF Row
<1> HIDE DEF row
<1>3. [table EXCEPT ![j] = row] \in [Rows -> Row]
  BY <1>2
<1>4. \A i \in Rows : [table EXCEPT ![j] = row][i] = IF i = j THEN row ELSE table[i]
  OBVIOUS
<1> QED
  BY <1>2, <1>3, <1>4 DEF row

LEMMA PidUpdate ==
  ASSUME NEW table \in [Rows -> Row], NEW j \in Rows
  PROVE  LET new == [table EXCEPT ![j].pid = TRUE]
         IN  /\ new \in [Rows -> Row]
             /\ \A i \in Rows : new[i].status = table[i].status /\ new[i].asked = table[i].asked
BY DEF Row

LEMMA MarkUpdate ==
  ASSUME NEW table \in [Rows -> Row], NEW j \in Rows, NEW mark \in BOOLEAN
  PROVE  LET new == [table EXCEPT ![j].mark = mark]
         IN  /\ new \in [Rows -> Row]
             /\ \A i \in Rows : new[i].status = table[i].status /\ new[i].asked = table[i].asked
BY DEF Row

LEMMA CloseUpdate ==
  ASSUME NEW table \in [Rows -> Row], NEW j \in Rows
  PROVE  LET new == [table EXCEPT ![j].status = "cancelled", ![j].mark = TRUE]
         IN  /\ new \in [Rows -> Row]
             /\ \A i \in Rows :
                  /\ new[i].status = IF i = j THEN "cancelled" ELSE table[i].status
                  /\ new[i].asked = table[i].asked
BY DEF Row, Ended

(* A new row takes a place of the table that no row had.                   *)
LEMMA InsertEffect ==
  ASSUME jobs \in [Rows -> Row], NEW command \in Commands \cup {Background},
         NEW asked \in SUBSET Requests, Insert(command, asked)
  PROVE  \E j \in Rows :
           /\ j = Oldest(Unused) /\ jobs[j].status = "none"
           /\ jobs' \in [Rows -> Row]
           /\ jobs'[j].status = "queued"
           /\ \A i \in Rows \ {j} : jobs'[i] = jobs[i]
<1> DEFINE j == Oldest(Unused)
<1>1. j \in Unused /\ Unused \subseteq Rows
  BY OldestIsIn DEF Insert, Unused, With
<1>2. jobs' = [jobs EXCEPT ![j] = [NoRow EXCEPT !.command = command, !.status = "queued", !.asked = asked]]
  BY DEF Insert
<1>3. [NoRow EXCEPT !.command = command, !.status = "queued", !.asked = asked] \in Row
  BY DEF NoRow, Row
<1>4. [NoRow EXCEPT !.command = command, !.status = "queued", !.asked = asked].status = "queued"
  BY DEF NoRow
<1> QED
  BY <1>1, <1>2, <1>3, <1>4 DEF Unused, With

-----------------------------------------------------------------------------
(* What the steps do to the table *)

LEMMA SubmitTable ==
  ASSUME jobs \in [Rows -> Row], NEW r \in Requests, Submit(r)
  PROVE  /\ jobs' \in [Rows -> Row]
         /\ \A i \in Rows :
              \/ jobs'[i].status = jobs[i].status
              \/ jobs[i].status = "none" /\ jobs'[i].status = "queued"
<1>1. CASE \E j \in Rows : Absorbs(j, r)
  <2> DEFINE k == Oldest({j \in Rows : Absorbs(j, r)})
  <2>1. k \in Rows
    BY <1>1, OldestIsIn
  <2>2. jobs' = [jobs EXCEPT ![k].asked = @ \cup {r}]
    BY <1>1 DEF Submit
  <2> HIDE DEF k
  <2> QED
    BY <2>1, <2>2, AskedUpdate
<1>2. CASE ~ \E j \in Rows : Absorbs(j, r)
  <2>1. KeyOf[r] \in Commands /\ Insert(KeyOf[r], {r})
    BY <1>2 DEF Submit
  <2> QED
    BY <2>1, InsertEffect
<1> QED
  BY <1>1, <1>2

LEMMA InsertBackgroundTable ==
  ASSUME jobs \in [Rows -> Row], current \in 0..MaxRows, InsertBackground
  PROVE  /\ jobs' \in [Rows -> Row]
         /\ \A i \in Rows :
              \/ jobs'[i].status = jobs[i].status
              \/ jobs[i].status = "none" /\ jobs'[i].status = "queued"
         /\ \/ at' = "claim" /\ current' \in Rows /\ jobs'[current'].status = "queued"
            \/ at' = "look" /\ current' \in 0..MaxRows
<1>1. CASE Insert(Background, {}) /\ current' = Oldest(Unused) /\ at' = "claim"
  <2>1. Background \in Commands \cup {Background} /\ {} \in SUBSET Requests
    OBVIOUS
  <2> QED
    BY <1>1, <2>1, InsertEffect
<1>2. CASE at' = "look" /\ UNCHANGED <<jobs, current>>
  BY <1>2
<1> QED
  BY <1>1, <1>2 DEF InsertBackground

LEMMA SetStatusTable ==
  ASSUME jobs \in [Rows -> Row], NEW j \in Rows, NEW status \in Ended \cup {"running"}, SetStatus(j, status)
  PROVE  /\ jobs' \in [Rows -> Row]
         /\ \A i \in Rows : jobs'[i].status = IF i = j THEN status ELSE jobs[i].status
<1>1. status \in Ended \cup {"none", "queued", "running"}
  OBVIOUS
<1> QED
  BY <1>1, StatusUpdate DEF SetStatus

LEMMA ClaimTable ==
  ASSUME jobs \in [Rows -> Row], current \in Rows, Claim
  PROVE  /\ jobs' \in [Rows -> Row]
         /\ \/ /\ jobs[current].status = "queued" /\ jobs'[current].status = "running"
               /\ \A i \in Rows \ {current} : jobs'[i].status = jobs[i].status
               /\ at' = "spawn" /\ current' = current
            \/ jobs' = jobs /\ at' = "look" /\ current' = 0
<1>1. CASE /\ jobs[current].status = "queued" /\ SetStatus(current, "running")
           /\ at' = "spawn" /\ current' = current
  BY <1>1, SetStatusTable
<1>2. CASE at' = "look" /\ current' = 0 /\ UNCHANGED jobs
  BY <1>2
<1> QED
  BY <1>1, <1>2 DEF Claim

LEMMA CancelReadTable ==
  ASSUME TypeOK, NEW j \in Rows, CancelRead(j)
  PROVE  /\ jobs' \in [Rows -> Row]
         /\ cancel' \in [Rows -> {"none", "gone", "alive", "mark"}]
         /\ \A i \in Rows :
              \/ jobs'[i].status = jobs[i].status
              \/ jobs[i].status = "queued" /\ jobs'[i].status = "cancelled"
<1>1. jobs \in [Rows -> Row] /\ cancel \in [Rows -> {"none", "gone", "alive", "mark"}]
  BY DEF TypeOK
<1>2. CASE jobs[j].status = "queued" /\ SetStatus(j, "cancelled") /\ UNCHANGED cancel
  <2>1. "cancelled" \in Ended
    BY DEF Ended
  <2> QED
    BY <1>1, <1>2, <2>1, SetStatusTable
<1>3. CASE /\ cancel' = [cancel EXCEPT ![j] = IF jobs[j].pid THEN "alive" ELSE "gone"]
           /\ UNCHANGED jobs
  <2>1. (IF jobs[j].pid THEN "alive" ELSE "gone") \in {"none", "gone", "alive", "mark"}
    OBVIOUS
  <2> QED
    BY <1>1, <1>3, <2>1
<1> QED
  BY <1>2, <1>3 DEF CancelRead

LEMMA CancelMarkTable ==
  ASSUME jobs \in [Rows -> Row], NEW j \in Rows, CancelMark(j)
  PROVE  /\ jobs' \in [Rows -> Row]
         /\ \A i \in Rows : jobs'[i].status = jobs[i].status /\ jobs'[i].asked = jobs[i].asked
<1>1. PICK mark \in BOOLEAN : jobs' = [jobs EXCEPT ![j].mark = mark]
  <2>1. (jobs[j].mark \/ jobs[j].status = "running") \in BOOLEAN
    OBVIOUS
  <2> QED
    BY <2>1, Zenon DEF CancelMark
<1> QED
  BY <1>1, MarkUpdate

(* Recovery ends rows, and stops at most the holder of the queue lock.     *)
LEMMA RecoverTable ==
  ASSUME TypeOK, RecoverOnStartup
  PROVE  /\ jobs' \in [Rows -> Row]
         /\ \A i \in Rows :
              /\ jobs'[i].status \in {jobs[i].status, "yielded", "failed", "cancelled"}
              /\ jobs'[i].asked = jobs[i].asked
         /\ child' \in [Rows -> Exited \cup {"none", "starting", "working"}]
         /\ \A i \in Rows :
              \/ child'[i] = child[i]
              \/ i = lock /\ child'[i] = "killed" /\ lock' = Free
         /\ lock' \in {lock, Free}
         /\ signalled' \in SUBSET Rows
         /\ ~up /\ UNCHANGED <<at, current, verdict, cancel, held, upsets>>
<1> DEFINE leftBehind == With("running")
           stopped == {j \in Rows : j = lock /\ IsBackground(j) /\ \E b \in leftBehind : IsBackground(b)}
           Recovered(j) ==
             CASE j \in leftBehind /\ IsBackground(j) -> "yielded"
               [] j \in leftBehind /\ ~IsBackground(j) /\ Dead(j, jobs[j].pid) -> "failed"
               [] jobs[j].status = "queued" /\ IsBackground(j) -> "cancelled"
               [] OTHER -> jobs[j].status
           Updated(j) == [jobs[j] EXCEPT !.status = Recovered(j),
                                         !.mark = @ /\ Recovered(j) = jobs[j].status]
<1>1. /\ jobs' = [j \in Rows |-> Updated(j)]
      /\ child' = [j \in Rows |-> IF j \in stopped THEN "killed" ELSE child[j]]
      /\ lock' = IF stopped # {} THEN Free ELSE lock
      /\ signalled' = signalled \ stopped
      /\ ~up /\ UNCHANGED <<at, current, verdict, cancel, held, upsets>>
  BY DEF RecoverOnStartup
<1>2. \A j \in Rows : Recovered(j) \in {jobs[j].status, "yielded", "failed", "cancelled"}
  OBVIOUS
<1>3. \A j \in stopped : j = lock
  OBVIOUS
<1> HIDE DEF Recovered, stopped
<1>4. ASSUME NEW j \in Rows
      PROVE  /\ Updated(j) \in Row
             /\ Updated(j).status = Recovered(j)
             /\ Updated(j).asked = jobs[j].asked
  <2> DEFINE mark == jobs[j].mark /\ Recovered(j) = jobs[j].status
  <2>1. jobs[j] \in Row
    BY DEF TypeOK
  <2>2. mark \in BOOLEAN
    OBVIOUS
  <2>3. Updated(j) = [jobs[j] EXCEPT !.status = Recovered(j), !.mark = mark]
    OBVIOUS
  <2> HIDE DEF mark
  <2> QED
    BY <1>2, <2>1, <2>2, <2>3 DEF Row, Ended
<1>5. /\ jobs' \in [Rows -> Row]
      /\ \A j \in Rows : jobs'[j].status = Recovered(j) /\ jobs'[j].asked = jobs[j].asked
  BY <1>1, <1>4
<1>6. child' \in [Rows -> Exited \cup {"none", "starting", "working"}] /\ signalled' \in SUBSET Rows
  BY <1>1 DEF TypeOK, Exited
<1> HIDE DEF Updated
<1> QED
  BY <1>1, <1>2, <1>3, <1>5, <1>6

-----------------------------------------------------------------------------
(* The inductive invariant *)

(* Where the dispatcher works on a row it has claimed. *)
Engaged == {"spawn", "record", "wait", "reaped", "finalize"}

OnlyOne ==
  \A i, j \in Rows : jobs[i].status = "running" /\ jobs[j].status = "running" => i = j

(* The dispatcher claims a row only when none runs, and from then on the   *)
(* row is running or cancelled; it records done only for a process that    *)
(* ended with success. A server that is down has no dispatcher.            *)
DispatcherInv ==
  /\ ~up => at = "look"
  /\ at \in {"insert", "claim"} => \A j \in Rows : jobs[j].status # "running"
  /\ at \notin {"look", "insert"} => current \in Rows
  /\ at = "claim" => jobs[current].status \in {"queued", "cancelled"}
  /\ at = "spawn" => child[current] = "none"
  /\ at \in Engaged => jobs[current].status \in {"running", "cancelled"}
  /\ at = "finalize" /\ verdict = "done" => child[current] = "ok"

(* A waiting row has no process, and the queue lock is held by a live one. *)
ProcessInv ==
  /\ \A j \in Rows : jobs[j].status \in {"none", "queued"} => child[j] = "none"
  /\ lock \in Rows => child[lock] = "working"

IInv == TypeOK /\ OnlyOne /\ DispatcherInv /\ ProcessInv /\ DoneMeansSuccess


LEMMA InitInv == Init => IInv
<1> SUFFICES ASSUME Init PROVE IInv
  OBVIOUS
<1>1. TypeOK
  <2>1. NoRow \in Row
    BY DEF NoRow, Row
  <2>2. jobs \in [Rows -> Row]
    BY <2>1 DEF Init
  <2>3. up \in BOOLEAN /\ held \in BOOLEAN
    BY Zenon DEF Init
  <2> QED
    BY <2>2, <2>3 DEF Init, TypeOK, Ended, Exited, Free
<1>2. OnlyOne /\ DispatcherInv /\ ProcessInv /\ DoneMeansSuccess
  BY DEF Init, OnlyOne, DispatcherInv, ProcessInv, DoneMeansSuccess, NoRow, Free, Rows, Engaged
<1> QED
  BY <1>1, <1>2 DEF IInv

LEMMA NextInv == IInv /\ [Next]_vars => IInv'
<1> SUFFICES ASSUME IInv, [Next]_vars
             PROVE  IInv'
  OBVIOUS
<1>0. /\ jobs \in [Rows -> Row] /\ current \in 0..MaxRows /\ verdict \in Ended
      /\ child \in [Rows -> Exited \cup {"none", "starting", "working"}]
  BY DEF IInv, TypeOK
<1> USE DEF IInv, OnlyOne, DispatcherInv, ProcessInv, DoneMeansSuccess, Engaged,
            Ended, Exited, Free, Terminal, Rows, processes, dispatcher, Upset
<1>1. ASSUME NEW r \in Requests, Submit(r)
      PROVE  IInv'
  <2>1. up' \in BOOLEAN /\ held' \in BOOLEAN
    BY <1>1, Zenon DEF Submit, TypeOK
  <2>2. TypeOK'
    BY <1>1, <1>0, SubmitTable, <2>1 DEF Submit, TypeOK
  <2>3. OnlyOne' /\ DispatcherInv' /\ ProcessInv' /\ DoneMeansSuccess'
    BY <1>1, <1>0, SubmitTable DEF Submit
  <2> QED
    BY <2>2, <2>3
<1>2. CASE NextQueued
  <2>0. /\ current' \in Rows /\ jobs[current'].status = "queued"
        /\ \A i \in Rows : jobs[i].status # "running"
    BY <1>2, OldestIsIn DEF NextQueued, MayPick, Waiting, With
  <2>1. up' \in BOOLEAN /\ held' \in BOOLEAN
    BY <1>2, Zenon DEF NextQueued, TypeOK
  <2>2. TypeOK'
    BY <1>2, <2>0, <2>1 DEF NextQueued, TypeOK
  <2>3. OnlyOne' /\ DispatcherInv' /\ ProcessInv' /\ DoneMeansSuccess'
    BY <1>2, <2>0 DEF NextQueued
  <2> QED
    BY <2>2, <2>3
<1>3. CASE StartableBacklog
  <2>1. up' \in BOOLEAN /\ held' \in BOOLEAN
    BY <1>3, Zenon DEF StartableBacklog, TypeOK
  <2>2. TypeOK'
    BY <1>3, <2>1 DEF StartableBacklog, With, TypeOK
  <2>3. OnlyOne' /\ DispatcherInv' /\ ProcessInv' /\ DoneMeansSuccess'
    BY <1>3 DEF StartableBacklog, With
  <2> QED
    BY <2>2, <2>3
<1>4. CASE InsertBackground
  <2>1. up' \in BOOLEAN /\ held' \in BOOLEAN
    BY <1>4, Zenon DEF InsertBackground, TypeOK
  <2>2. TypeOK'
    BY <1>4, <1>0, InsertBackgroundTable, <2>1 DEF InsertBackground, TypeOK
  <2>3. OnlyOne' /\ DispatcherInv' /\ ProcessInv' /\ DoneMeansSuccess'
    BY <1>4, <1>0, InsertBackgroundTable DEF InsertBackground
  <2> QED
    BY <2>2, <2>3
<1>5. CASE Claim
  <2>1. up' \in BOOLEAN /\ held' \in BOOLEAN
    BY <1>5, Zenon DEF Claim, TypeOK
  <2>2. TypeOK'
    BY <1>5, <1>0, ClaimTable, <2>1 DEF Claim, TypeOK
  <2>3. OnlyOne'
    BY <1>5, <1>0, ClaimTable DEF Claim
  <2>4. DispatcherInv'
    BY <1>5, <1>0, ClaimTable DEF Claim
  <2>5. ProcessInv'
    BY <1>5, <1>0, ClaimTable DEF Claim
  <2>6. DoneMeansSuccess'
    BY <1>5, <1>0, ClaimTable DEF Claim
  <2> QED
    BY <2>2, <2>3, <2>4, <2>5, <2>6
<1>6. CASE Spawn
  <2>1. up' \in BOOLEAN /\ held' \in BOOLEAN
    BY <1>6, Zenon DEF Spawn, TypeOK
  <2>2. TypeOK'
    BY <1>6, <1>0, <2>1 DEF Spawn, TypeOK
  <2>3. OnlyOne'
    BY <1>6, <1>0 DEF Spawn
  <2>4. DispatcherInv'
    BY <1>6, <1>0 DEF Spawn
  <2>5. ProcessInv'
    BY <1>6, <1>0 DEF Spawn
  <2>6. DoneMeansSuccess'
    BY <1>6, <1>0 DEF Spawn
  <2> QED
    BY <2>2, <2>3, <2>4, <2>5, <2>6
<1>7. CASE RecordPid
  <2>1. up' \in BOOLEAN /\ held' \in BOOLEAN
    BY <1>7, Zenon DEF RecordPid, TypeOK
  <2>2. TypeOK'
    BY <1>7, PidUpdate, <2>1 DEF RecordPid, TypeOK
  <2>3. OnlyOne' /\ DispatcherInv' /\ ProcessInv' /\ DoneMeansSuccess'
    BY <1>7, PidUpdate DEF RecordPid
  <2> QED
    BY <2>2, <2>3
<1>8. CASE PumpFails
  <2>1. up' \in BOOLEAN /\ held' \in BOOLEAN
    BY <1>8, Zenon DEF PumpFails, TypeOK
  <2>2. TypeOK'
    BY <1>8, <2>1 DEF PumpFails, TypeOK
  <2>3. OnlyOne' /\ DispatcherInv' /\ ProcessInv' /\ DoneMeansSuccess'
    BY <1>8 DEF PumpFails
  <2> QED
    BY <2>2, <2>3
<1>9. CASE WaitReturns
  <2>1. up' \in BOOLEAN /\ held' \in BOOLEAN
    BY <1>9, Zenon DEF WaitReturns, TypeOK
  <2>2. TypeOK'
    BY <1>9, <2>1 DEF WaitReturns, TypeOK
  <2>3. OnlyOne' /\ DispatcherInv' /\ ProcessInv' /\ DoneMeansSuccess'
    BY <1>9 DEF WaitReturns
  <2> QED
    BY <2>2, <2>3
<1>10. CASE Judge
  <2>0. verdict' \in Ended /\ (verdict' = "done" => child[current] = "ok")
    BY <1>10 DEF Judge, Outcome
  <2>1. up' \in BOOLEAN /\ held' \in BOOLEAN
    BY <1>10, Zenon DEF Judge, TypeOK
  <2>2. TypeOK'
    BY <1>10, <2>0, <2>1 DEF Judge, TypeOK
  <2>3. OnlyOne' /\ DispatcherInv' /\ ProcessInv' /\ DoneMeansSuccess'
    BY <1>10, <2>0 DEF Judge
  <2> QED
    BY <2>2, <2>3
<1>11. CASE Finalize
  <2>1. up' \in BOOLEAN /\ held' \in BOOLEAN
    BY <1>11, Zenon DEF Finalize, TypeOK
  <2>2. TypeOK'
    BY <1>11, <1>0, SetStatusTable, <2>1 DEF Finalize, TypeOK
  <2>3. OnlyOne'
    BY <1>11, <1>0, SetStatusTable DEF Finalize
  <2>4. DispatcherInv'
    BY <1>11, <1>0, SetStatusTable DEF Finalize
  <2>5. ProcessInv'
    BY <1>11, <1>0, SetStatusTable DEF Finalize
  <2>6. DoneMeansSuccess'
    BY <1>11, <1>0, SetStatusTable DEF Finalize
  <2> QED
    BY <2>2, <2>3, <2>4, <2>5, <2>6
<1>12. CASE BacklogChanged
  <2>1. up' \in BOOLEAN /\ held' \in BOOLEAN
    BY <1>12, Zenon DEF BacklogChanged, TypeOK
  <2>2. TypeOK'
    BY <1>12, <2>1 DEF BacklogChanged, TypeOK
  <2>3. OnlyOne' /\ DispatcherInv' /\ ProcessInv' /\ DoneMeansSuccess'
    BY <1>12 DEF BacklogChanged
  <2> QED
    BY <2>2, <2>3
<1>13. ASSUME NEW j \in Rows, Reap(j)
      PROVE  IInv'
  <2>1. up' \in BOOLEAN /\ held' \in BOOLEAN
    BY <1>13, Zenon DEF Reap, TypeOK
  <2>2. TypeOK'
    BY <1>13, <1>0, SetStatusTable, <2>1 DEF Reap, TypeOK
  <2>3. OnlyOne'
    <3>1. \A i \in Rows : jobs'[i].status = IF i = j THEN "cancelled" ELSE jobs[i].status
      BY <1>13, <1>0, SetStatusTable DEF Reap
    <3> QED
      BY <3>1 DEF OnlyOne
  <2>4. DispatcherInv'
    <3>1. /\ UNCHANGED <<child, up, at, current, verdict>>
          /\ at \notin {"claim", "spawn"} /\ jobs[j].status = "running"
      BY <1>13 DEF Reap, processes, dispatcher
    <3>2. \A i \in Rows : jobs'[i].status = IF i = j THEN "cancelled" ELSE jobs[i].status
      BY <1>13, <1>0, SetStatusTable DEF Reap
    <3>3. at = "insert" => FALSE
      BY <3>1
    <3> QED
      BY <3>1, <3>2, <3>3
  <2>5. ProcessInv'
    BY <1>13, <1>0, SetStatusTable DEF Reap
  <2>6. DoneMeansSuccess'
    BY <1>13, <1>0, SetStatusTable DEF Reap
  <2> QED
    BY <2>2, <2>3, <2>4, <2>5, <2>6
<1>14. ASSUME NEW j \in Rows, CancelRead(j)
      PROVE  IInv'
  <2>1. up' \in BOOLEAN /\ held' \in BOOLEAN
    BY <1>14, Zenon DEF CancelRead, TypeOK
  <2>2. TypeOK'
    BY <1>14, CancelReadTable, <2>1 DEF CancelRead, TypeOK
  <2>3. OnlyOne'
    BY <1>14, CancelReadTable DEF CancelRead
  <2>4. DispatcherInv'
    BY <1>14, CancelReadTable DEF CancelRead
  <2>5. ProcessInv'
    BY <1>14, CancelReadTable DEF CancelRead
  <2>6. DoneMeansSuccess'
    BY <1>14, CancelReadTable DEF CancelRead
  <2> QED
    BY <2>2, <2>3, <2>4, <2>5, <2>6
<1>15. ASSUME NEW j \in Rows, CancelSignal(j)
      PROVE  IInv'
  <2>0. cancel' \in [Rows -> {"none", "gone", "alive", "mark"}] /\ signalled' \in SUBSET Rows
    BY <1>15 DEF CancelSignal, TypeOK
  <2>1. up' \in BOOLEAN /\ held' \in BOOLEAN
    BY <1>15, Zenon DEF CancelSignal, TypeOK
  <2>2. TypeOK'
    BY <1>15, <2>0, <2>1 DEF CancelSignal, TypeOK
  <2>3. OnlyOne' /\ DispatcherInv' /\ ProcessInv' /\ DoneMeansSuccess'
    BY <1>15, <2>0 DEF CancelSignal
  <2> QED
    BY <2>2, <2>3
<1>16. ASSUME NEW j \in Rows, CancelClose(j)
      PROVE  IInv'
  <2>1. up' \in BOOLEAN /\ held' \in BOOLEAN
    BY <1>16, Zenon DEF CancelClose, TypeOK
  <2>2. TypeOK'
    BY <1>16, <1>0, CloseUpdate, <2>1 DEF CancelClose, TypeOK
  <2>3. OnlyOne'
    BY <1>16, <1>0, CloseUpdate DEF CancelClose
  <2>4. DispatcherInv'
    BY <1>16, <1>0, CloseUpdate DEF CancelClose
  <2>5. ProcessInv'
    BY <1>16, <1>0, CloseUpdate DEF CancelClose
  <2>6. DoneMeansSuccess'
    BY <1>16, <1>0, CloseUpdate DEF CancelClose
  <2> QED
    BY <2>2, <2>3, <2>4, <2>5, <2>6
<1>17. ASSUME NEW j \in Rows, CancelMark(j)
      PROVE  IInv'
  <2>1. up' \in BOOLEAN /\ held' \in BOOLEAN
    BY <1>17, Zenon DEF CancelMark, TypeOK
  <2>2. TypeOK'
    BY <1>17, <1>0, CancelMarkTable, <2>1 DEF CancelMark, TypeOK
  <2>3. OnlyOne' /\ DispatcherInv' /\ ProcessInv' /\ DoneMeansSuccess'
    BY <1>17, <1>0, CancelMarkTable DEF CancelMark
  <2> QED
    BY <2>2, <2>3
<1>18. ASSUME NEW j \in Rows, ChildStarts(j)
      PROVE  IInv'
  <2>1. up' \in BOOLEAN /\ held' \in BOOLEAN
    BY <1>18, Zenon DEF ChildStarts, TypeOK
  <2>2. TypeOK'
    BY <1>18, <1>0, <2>1 DEF ChildStarts, TypeOK
  <2>3. OnlyOne'
    BY <1>18, <1>0 DEF ChildStarts
  <2>4. DispatcherInv'
    BY <1>18, <1>0 DEF ChildStarts
  <2>5. ProcessInv'
    BY <1>18, <1>0 DEF ChildStarts
  <2>6. DoneMeansSuccess'
    BY <1>18, <1>0 DEF ChildStarts
  <2> QED
    BY <2>2, <2>3, <2>4, <2>5, <2>6
<1>19. ASSUME NEW j \in Rows, ChildMeetsHolder(j)
      PROVE  IInv'
  <2>1. up' \in BOOLEAN /\ held' \in BOOLEAN
    BY <1>19, Zenon DEF ChildMeetsHolder, TypeOK
  <2>2. TypeOK'
    BY <1>19, <1>0, <2>1 DEF ChildMeetsHolder, LockIsPreemptible, Running, TypeOK
  <2>3. OnlyOne'
    BY <1>19, <1>0 DEF ChildMeetsHolder, LockIsPreemptible, Running
  <2>4. DispatcherInv'
    BY <1>19, <1>0 DEF ChildMeetsHolder, LockIsPreemptible, Running
  <2>5. ProcessInv'
    BY <1>19, <1>0 DEF ChildMeetsHolder, LockIsPreemptible, Running
  <2>6. DoneMeansSuccess'
    BY <1>19, <1>0 DEF ChildMeetsHolder, LockIsPreemptible, Running
  <2> QED
    BY <2>2, <2>3, <2>4, <2>5, <2>6
<1>20. ASSUME NEW j \in Rows, ChildEnds(j)
      PROVE  IInv'
  <2>1. up' \in BOOLEAN /\ held' \in BOOLEAN
    BY <1>20, Zenon DEF ChildEnds, TypeOK
  <2>2. TypeOK'
    BY <1>20, <1>0, <2>1 DEF ChildEnds, TypeOK
  <2>3. OnlyOne'
    BY <1>20, <1>0 DEF ChildEnds
  <2>4. DispatcherInv'
    BY <1>20, <1>0 DEF ChildEnds
  <2>5. ProcessInv'
    BY <1>20, <1>0 DEF ChildEnds
  <2>6. DoneMeansSuccess'
    BY <1>20, <1>0 DEF ChildEnds
  <2> QED
    BY <2>2, <2>3, <2>4, <2>5, <2>6
<1>21. ASSUME NEW j \in Rows, BackgroundYields(j)
      PROVE  IInv'
  <2>1. up' \in BOOLEAN /\ held' \in BOOLEAN
    BY <1>21, Zenon DEF BackgroundYields, TypeOK
  <2>2. TypeOK'
    BY <1>21, <1>0, <2>1 DEF BackgroundYields, TypeOK
  <2>3. OnlyOne'
    BY <1>21, <1>0 DEF BackgroundYields
  <2>4. DispatcherInv'
    BY <1>21, <1>0 DEF BackgroundYields
  <2>5. ProcessInv'
    BY <1>21, <1>0 DEF BackgroundYields
  <2>6. DoneMeansSuccess'
    BY <1>21, <1>0 DEF BackgroundYields
  <2> QED
    BY <2>2, <2>3, <2>4, <2>5, <2>6
<1>22. ASSUME NEW j \in Rows, ChildKilled(j)
      PROVE  IInv'
  <2>1. up' \in BOOLEAN /\ held' \in BOOLEAN
    BY <1>22, Zenon DEF ChildKilled, TypeOK
  <2>2. TypeOK'
    BY <1>22, <1>0, <2>1 DEF ChildKilled, LockIsPreemptible, Running, TypeOK
  <2>3. OnlyOne'
    BY <1>22, <1>0 DEF ChildKilled, LockIsPreemptible, Running
  <2>4. DispatcherInv'
    BY <1>22, <1>0 DEF ChildKilled, LockIsPreemptible, Running
  <2>5. ProcessInv'
    BY <1>22, <1>0 DEF ChildKilled, LockIsPreemptible, Running
  <2>6. DoneMeansSuccess'
    BY <1>22, <1>0 DEF ChildKilled, LockIsPreemptible, Running
  <2> QED
    BY <2>2, <2>3, <2>4, <2>5, <2>6
<1>23. CASE TerminalTakes
  <2>0. lock' \in 0..MaxRows + 1 /\ signalled' \in SUBSET Rows /\ upsets' \in 0..MaxUpsets
    <3>1. lock \in 0..MaxRows + 1 /\ signalled \in SUBSET Rows /\ upsets \in 0..MaxUpsets
      BY DEF TypeOK
    <3>2. CASE lock = Free /\ lock' = Terminal /\ UNCHANGED signalled /\ Upset
      BY <3>1, <3>2
    <3>3. CASE LockIsPreemptible /\ signalled' = signalled \cup {lock} /\ UNCHANGED <<lock, upsets>>
      BY <3>1, <3>3 DEF LockIsPreemptible
    <3> QED
      BY <1>23, <3>2, <3>3 DEF TerminalTakes
  <2>1. up' \in BOOLEAN /\ held' \in BOOLEAN
    BY <1>23, Zenon DEF TerminalTakes, TypeOK
  <2>2. TypeOK'
    BY <1>23, <2>0, <2>1 DEF TerminalTakes, LockIsPreemptible, TypeOK
  <2>3. OnlyOne' /\ DispatcherInv' /\ ProcessInv' /\ DoneMeansSuccess'
    BY <1>23, <2>0 DEF TerminalTakes, LockIsPreemptible
  <2> QED
    BY <2>2, <2>3
<1>24. CASE TerminalEnds
  <2>1. up' \in BOOLEAN /\ held' \in BOOLEAN
    BY <1>24, Zenon DEF TerminalEnds, TypeOK
  <2>2. TypeOK'
    BY <1>24, <2>1 DEF TerminalEnds, TypeOK
  <2>3. OnlyOne' /\ DispatcherInv' /\ ProcessInv' /\ DoneMeansSuccess'
    BY <1>24 DEF TerminalEnds
  <2> QED
    BY <2>2, <2>3
<1>25. CASE ServerCrash
  <2>1. up' \in BOOLEAN /\ held' \in BOOLEAN
    BY <1>25, Zenon DEF ServerCrash, TypeOK
  <2>2. TypeOK'
    BY <1>25, <2>1 DEF ServerCrash, TypeOK
  <2>3. OnlyOne' /\ DispatcherInv' /\ ProcessInv' /\ DoneMeansSuccess'
    BY <1>25 DEF ServerCrash
  <2> QED
    BY <2>2, <2>3
<1>26. CASE RecoverOnStartup
  <2>1. up' \in BOOLEAN /\ held' \in BOOLEAN
    BY <1>26, Zenon DEF RecoverOnStartup, TypeOK
  <2>2. TypeOK'
    BY <1>26, RecoverTable, <2>1 DEF TypeOK
  <2>3. at = "look" /\ at' = at
    BY <1>26, RecoverTable
  <2>4. OnlyOne'
    BY <1>0, <2>3, <1>26, RecoverTable
  <2>5. DispatcherInv'
    BY <1>0, <2>3, <1>26, RecoverTable
  <2>6. ProcessInv'
    BY <1>0, <2>3, <1>26, RecoverTable
  <2>7. DoneMeansSuccess'
    BY <1>0, <2>3, <1>26, RecoverTable
  <2> QED
    BY <2>2, <2>3, <2>4, <2>5, <2>6, <2>7
<1>27. CASE UNCHANGED vars
  BY <1>27 DEF vars, TypeOK
<1> QED
  BY <1>1, <1>2, <1>3, <1>4, <1>5, <1>6, <1>7, <1>8, <1>9, <1>10, <1>11, <1>12, <1>13, <1>14, <1>15, <1>16, <1>17, <1>18, <1>19, <1>20, <1>21, <1>22, <1>23, <1>24, <1>25, <1>26, <1>27
  DEF Next, Dispatch, Cancel, Child

LEMMA Invariance == Spec => []IInv
  BY InitInv, NextInv, PTL DEF Spec

(* Every variable keeps its type. *)
THEOREM TypeCorrect == Spec => []TypeOK
<1>1. IInv => TypeOK
  BY DEF IInv
<1> QED
  BY Invariance, <1>1, PTL

(* However many cancels, reapings, restarts and late steps of the          *)
(* dispatcher there are, at most one row is running (the status that keeps *)
(* _next_queued from picking another job).                                 *)
THEOREM OneRowRuns == Spec => []OneRunningRow
<1>1. IInv => OneRunningRow
  <2> SUFFICES ASSUME OnlyOne
               PROVE  Cardinality(With("running")) <= 1
    BY DEF IInv, OneRunningRow
  <2>1. CASE With("running") = {}
    <3>1. Cardinality(With("running")) = 0
      BY <2>1, FS_EmptySet, Zenon
    <3> QED
      BY <3>1
  <2>2. CASE With("running") # {}
    <3>1. PICK j \in With("running") : TRUE
      BY <2>2
    <3>2. With("running") = {j}
      BY <3>1 DEF OnlyOne, With
    <3>3. Cardinality({j}) = 1
      BY FS_Singleton, Zenon
    <3> QED
      BY <3>2, <3>3
  <2> QED
    BY <2>1, <2>2
<1> QED
  BY Invariance, <1>1, PTL

(* A row recorded as done belongs to a process that ended with success.    *)
THEOREM DoneIsSuccess == Spec => []DoneMeansSuccess
<1>1. IInv => DoneMeansSuccess
  BY DEF IInv
<1> QED
  BY Invariance, <1>1, PTL

-----------------------------------------------------------------------------
(* What a step may do to a row that ended, and to the requests of a row    *)

EndedStep == \A j \in Rows : jobs[j].status \in Ended => jobs'[j].status \in Ended

AskedStep == \A j \in Rows : jobs'[j].asked # jobs[j].asked => child[j] = "none"

LEMMA StepKeepsEnded == IInv /\ [Next]_vars => EndedStep
<1> SUFFICES ASSUME IInv, [Next]_vars
             PROVE  EndedStep
  OBVIOUS
<1>0. /\ jobs \in [Rows -> Row] /\ current \in 0..MaxRows /\ verdict \in Ended
      /\ TypeOK /\ DispatcherInv
  BY DEF IInv, TypeOK
<1> USE DEF EndedStep, Ended
<1>1. ASSUME NEW r \in Requests, Submit(r)
      PROVE  EndedStep
  BY <1>0, <1>1, SubmitTable
<1>2. CASE InsertBackground
  BY <1>0, <1>2, InsertBackgroundTable
<1>3. CASE Claim
  BY <1>0, <1>3, ClaimTable DEF DispatcherInv, Claim
<1>4. CASE RecordPid
  BY <1>0, <1>4, PidUpdate DEF RecordPid, DispatcherInv
<1>5. CASE Finalize
  BY <1>0, <1>5, SetStatusTable DEF Finalize, DispatcherInv
<1>6. ASSUME NEW j \in Rows, Reap(j)
      PROVE  EndedStep
  BY <1>0, <1>6, SetStatusTable DEF Reap
<1>7. ASSUME NEW j \in Rows, CancelRead(j)
      PROVE  EndedStep
  BY <1>0, <1>7, CancelReadTable
<1>8. ASSUME NEW j \in Rows, CancelClose(j)
      PROVE  EndedStep
  BY <1>0, <1>8, CloseUpdate DEF CancelClose
<1>9. ASSUME NEW j \in Rows, CancelMark(j)
      PROVE  EndedStep
  BY <1>0, <1>9, CancelMarkTable
<1>10. CASE RecoverOnStartup
  BY <1>0, <1>10, RecoverTable
<1>11. ASSUME UNCHANGED jobs
       PROVE  EndedStep
  BY <1>11
<1> QED
  BY <1>1, <1>2, <1>3, <1>4, <1>5, <1>6, <1>7, <1>8, <1>9, <1>10, <1>11
  DEF Next, Dispatch, Cancel, Child, NextQueued, StartableBacklog, Spawn, PumpFails, WaitReturns,
      Judge, BacklogChanged, CancelSignal, ChildStarts, ChildMeetsHolder, ChildEnds,
      BackgroundYields, ChildKilled, TerminalTakes, TerminalEnds, ServerCrash, vars

(* A row that ended never waits or runs again.                             *)
THEOREM NoRowIsRevived == Spec => EndedStaysEnded
<1>1. IInv /\ [Next]_vars =>
        [\A j \in Rows : jobs[j].status \in Ended => jobs'[j].status \in Ended]_vars
  BY StepKeepsEnded DEF EndedStep
<1> QED
  BY Invariance, <1>1, PTL DEF Spec, EndedStaysEnded

LEMMA StepAsksOnlyWaiting == IInv /\ [Next]_vars => AskedStep
<1> SUFFICES ASSUME IInv, [Next]_vars
             PROVE  AskedStep
  OBVIOUS
<1>0. jobs \in [Rows -> Row] /\ current \in 0..MaxRows /\ TypeOK /\ DispatcherInv /\ ProcessInv
  BY DEF IInv, TypeOK
<1> USE DEF AskedStep
<1>1. ASSUME NEW r \in Requests, Submit(r)
      PROVE  AskedStep
  <2>1. CASE \E j \in Rows : Absorbs(j, r)
    <3> DEFINE k == Oldest({j \in Rows : Absorbs(j, r)})
    <3>1. k \in Rows /\ Absorbs(k, r)
      BY <2>1, OldestIsIn
    <3>2. jobs' = [jobs EXCEPT ![k].asked = @ \cup {r}]
      BY <1>1, <2>1 DEF Submit
    <3> HIDE DEF k
    <3>3. \A i \in Rows : i # k => jobs'[i] = jobs[i]
      BY <1>0, <3>1, <3>2, AskedUpdate
    <3>4. child[k] = "none"
      BY <1>0, <3>1 DEF Absorbs, ProcessInv
    <3> QED
      BY <3>3, <3>4
  <2>2. CASE ~ \E j \in Rows : Absorbs(j, r)
    <3>1. KeyOf[r] \in Commands /\ Insert(KeyOf[r], {r})
      BY <1>1, <2>2 DEF Submit
    <3> QED
      BY <1>0, <3>1, InsertEffect DEF ProcessInv
  <2> QED
    BY <2>1, <2>2
<1>2. CASE InsertBackground
  <2>1. CASE Insert(Background, {})
    <3>1. Background \in Commands \cup {Background} /\ {} \in SUBSET Requests
      OBVIOUS
    <3> QED
      BY <1>0, <2>1, <3>1, InsertEffect DEF ProcessInv
  <2>2. CASE UNCHANGED jobs
    BY <2>2
  <2> QED
    BY <1>2, <2>1, <2>2 DEF InsertBackground
<1>3. ASSUME NEW j \in Rows, NEW status \in Ended \cup {"running"}, SetStatus(j, status)
      PROVE  AskedStep
  <2>1. status \in Ended \cup {"none", "queued", "running"}
    OBVIOUS
  <2> QED
    BY <1>0, <1>3, <2>1, StatusUpdate DEF SetStatus
<1>4. CASE RecordPid
  BY <1>0, <1>4, PidUpdate DEF RecordPid, DispatcherInv
<1>5. ASSUME NEW j \in Rows, CancelClose(j)
      PROVE  AskedStep
  BY <1>0, <1>5, CloseUpdate DEF CancelClose
<1>6. ASSUME NEW j \in Rows, CancelMark(j)
      PROVE  AskedStep
  BY <1>0, <1>6, CancelMarkTable
<1>7. CASE RecoverOnStartup
  BY <1>0, <1>7, RecoverTable
<1>8. ASSUME UNCHANGED jobs
      PROVE  AskedStep
  BY <1>8
<1>9. CASE Claim \/ Finalize
  <2>1. current \in Rows /\ verdict \in Ended
    BY <1>0, <1>9 DEF TypeOK, DispatcherInv, Claim, Finalize
  <2> QED
    BY <1>3, <1>8, <1>9, <2>1 DEF Claim, Finalize
<1>10. ASSUME NEW j \in Rows, Reap(j) \/ CancelRead(j)
       PROVE  AskedStep
  BY <1>3, <1>8, <1>10 DEF Reap, CancelRead, Ended
<1> QED
  BY <1>1, <1>2, <1>4, <1>5, <1>6, <1>7, <1>8, <1>9, <1>10
  DEF Next, Dispatch, Cancel, Child, NextQueued, StartableBacklog, Spawn, PumpFails, WaitReturns,
      Judge, BacklogChanged, CancelSignal, ChildStarts, ChildMeetsHolder, ChildEnds,
      BackgroundYields, ChildKilled, TerminalTakes, TerminalEnds, ServerCrash, vars

(* A submission is attached only to a row whose process has not started,   *)
(* so its run reads its inputs after the request (ADR 0068).               *)
THEOREM RequestsComeBeforeTheRun == Spec => RequestsAreSeen
<1>1. IInv /\ [Next]_vars =>
        [\A j \in Rows : jobs'[j].asked # jobs[j].asked => child[j] = "none"]_vars
  BY StepAsksOnlyWaiting DEF AskedStep
<1> QED
  BY Invariance, <1>1, PTL DEF Spec, RequestsAreSeen

-----------------------------------------------------------------------------
(* The queue as its clients see it *)

(* What a step leaves of row i. *)
Kept(i) ==
  /\ jobs'[i].status = jobs[i].status /\ jobs'[i].asked = jobs[i].asked
  /\ jobs'[i].command = jobs[i].command

KeptBut(k) == \A i \in Rows \ {k} : Kept(i)

Moved(k, from, to) ==
  /\ jobs[k].status = from /\ jobs'[k].status = to
  /\ jobs'[k].asked = jobs[k].asked /\ jobs'[k].command = jobs[k].command
  /\ KeptBut(k)

Joined(k, r) ==
  /\ Absorbs(k, r)
  /\ jobs'[k].status = "queued" /\ jobs'[k].asked = jobs[k].asked \cup {r}
  /\ jobs'[k].command = jobs[k].command
  /\ KeptBut(k)

Added(k, command, asked) ==
  /\ jobs[k].status = "none" /\ \A i \in Rows : jobs[i].status = "none" => k <= i
  /\ jobs'[k].status = "queued" /\ jobs'[k].asked = asked /\ jobs'[k].command = command
  /\ KeptBut(k)

(* Some rows end that ran or nobody asked for, or keep to have ended.      *)
Closed ==
  \A i \in Rows :
    /\ jobs'[i].asked = jobs[i].asked /\ jobs'[i].command = jobs[i].command
    /\ \/ jobs'[i].status = jobs[i].status
       \/ /\ jobs'[i].status \in Ended
          /\ \/ jobs[i].status \in Ended \cup {"running"}
             \/ jobs[i].status = "queued" /\ IsBackground(i)

TableStep ==
  \/ \E r \in Requests, k \in Rows : (\A i \in Rows : r \notin jobs[i].asked) /\ Joined(k, r)
  \/ \E r \in Requests, k \in Rows :
       /\ \A i \in Rows : r \notin jobs[i].asked /\ ~Absorbs(i, r)
       /\ Added(k, KeyOf[r], {r})
  \/ \E k \in Rows : Added(k, Background, {}) /\ current' = k
  \/ /\ at = "claim" /\ at' = "spawn" /\ current \in Rows
     /\ Moved(current, "queued", "running")
  \/ \E k \in Rows : Moved(k, "queued", "cancelled")
  \/ Closed

(* A row answers requests for its own command; background tagging, and a   *)
(* row that is not used, answers none.                                     *)
AskedInv ==
  \A j \in Rows :
    /\ jobs[j].status = "none" => jobs[j].asked = {}
    /\ jobs[j].status # "none" => (jobs[j].asked = {} <=> IsBackground(j))
    /\ \A r \in jobs[j].asked : KeyOf[r] = jobs[j].command

(* Rows are used in their order. *)
UsedInv ==
  \A i, j \in Rows : jobs[i].status = "none" /\ jobs[j].status # "none" => j < i

(* The request the dispatcher is about to claim is the oldest that waits.  *)
TurnInv ==
  at = "claim" /\ ~IsBackground(current) => \A i \in Waiting : current <= i

(* A cancel that is under way read a row that ran. *)
CancelInv ==
  \A j \in Rows : cancel[j] # "none" => jobs[j].status \in Ended \cup {"running"}

OrderInv == AskedInv /\ UsedInv /\ TurnInv /\ CancelInv

LEMMA OldestIsFirst ==
  ASSUME NEW S \in SUBSET Rows, S # {}
  PROVE  Oldest(S) \in S /\ \A i \in S : Oldest(S) <= i
BY LeastRow DEF Oldest

LEMMA InsertAdds ==
  ASSUME jobs \in [Rows -> Row], NEW command, NEW asked, Insert(command, asked)
  PROVE  Oldest(Unused) \in Rows /\ Added(Oldest(Unused), command, asked)
<1> DEFINE k == Oldest(Unused)
           row == [NoRow EXCEPT !.command = command, !.status = "queued", !.asked = asked]
<1>1. k \in Unused /\ \A i \in Unused : k <= i
  BY OldestIsFirst DEF Insert, Unused, With
<1>2. jobs' = [jobs EXCEPT ![k] = row]
  BY DEF Insert
<1>3. row.status = "queued" /\ row.asked = asked /\ row.command = command
  BY DEF NoRow
<1> HIDE DEF k, row
<1>4. k \in Rows /\ jobs[k].status = "none" /\ \A i \in Rows : jobs[i].status = "none" => k <= i
  BY <1>1 DEF Unused, With
<1>5. jobs'[k] = row /\ \A i \in Rows \ {k} : jobs'[i] = jobs[i]
  BY <1>2, <1>4
<1>6. Added(k, command, asked)
  BY <1>3, <1>4, <1>5 DEF Added, KeptBut, Kept
<1> QED
  BY <1>4, <1>6 DEF k

LEMMA SubmitStep ==
  ASSUME jobs \in [Rows -> Row], NEW r \in Requests, Submit(r)
  PROVE  TableStep
<1>0. \A i \in Rows : r \notin jobs[i].asked
  BY DEF Submit
<1>1. CASE \E j \in Rows : Absorbs(j, r)
  <2> DEFINE k == Oldest({j \in Rows : Absorbs(j, r)})
  <2>1. k \in Rows /\ Absorbs(k, r)
    BY <1>1, OldestIsIn
  <2>2. jobs' = [jobs EXCEPT ![k].asked = @ \cup {r}]
    BY <1>1 DEF Submit
  <2> HIDE DEF k
  <2>3. jobs[k] \in Row
    BY <2>1
  <2>4. /\ jobs'[k].status = jobs[k].status /\ jobs'[k].command = jobs[k].command
        /\ jobs'[k].asked = jobs[k].asked \cup {r}
        /\ \A i \in Rows \ {k} : jobs'[i] = jobs[i]
    BY <2>1, <2>2, <2>3 DEF Row
  <2>5. Joined(k, r)
    BY <2>1, <2>4 DEF Joined, KeptBut, Kept, Absorbs
  <2> QED
    BY <1>0, <2>1, <2>5 DEF TableStep
<1>2. CASE ~ \E j \in Rows : Absorbs(j, r)
  <2>1. Insert(KeyOf[r], {r})
    BY <1>2 DEF Submit
  <2> QED
    BY <1>0, <1>2, <2>1, InsertAdds DEF TableStep
<1> QED
  BY <1>1, <1>2

(* A change of one status is what it says.                                 *)
LEMMA SetStatusMoves ==
  ASSUME jobs \in [Rows -> Row], NEW k \in Rows,
         NEW status \in Ended \cup {"none", "queued", "running"}, SetStatus(k, status)
  PROVE  Moved(k, jobs[k].status, status)
<1>1. /\ \A i \in Rows :
           /\ jobs'[i].status = IF i = k THEN status ELSE jobs[i].status
           /\ jobs'[i].asked = jobs[i].asked
           /\ jobs'[i].command = jobs[i].command
  BY StatusUpdate DEF SetStatus
<1> QED
  BY <1>1 DEF Moved, KeptBut, Kept

LEMMA MovedCloses ==
  ASSUME NEW k \in Rows, NEW from \in Ended \cup {"running"}, NEW to \in Ended, Moved(k, from, to)
  PROVE  Closed
BY DEF Moved, KeptBut, Kept, Closed

LEMMA KeptCloses == (\A i \in Rows : Kept(i)) => Closed
  BY DEF Kept, Closed

LEMMA RecoverCloses ==
  ASSUME TypeOK, RecoverOnStartup
  PROVE  Closed
<1> DEFINE leftBehind == With("running")
           Recovered(j) ==
             CASE j \in leftBehind /\ IsBackground(j) -> "yielded"
               [] j \in leftBehind /\ ~IsBackground(j) /\ Dead(j, jobs[j].pid) -> "failed"
               [] jobs[j].status = "queued" /\ IsBackground(j) -> "cancelled"
               [] OTHER -> jobs[j].status
           Updated(j) == [jobs[j] EXCEPT !.status = Recovered(j),
                                         !.mark = @ /\ Recovered(j) = jobs[j].status]
<1>1. jobs' = [j \in Rows |-> Updated(j)]
  BY DEF RecoverOnStartup
<1>2. \A j \in Rows :
        \/ Recovered(j) = jobs[j].status
        \/ /\ Recovered(j) \in Ended
           /\ jobs[j].status = "running" \/ (jobs[j].status = "queued" /\ IsBackground(j))
  BY DEF With, Ended
<1> HIDE DEF Recovered
<1>3. ASSUME NEW j \in Rows
      PROVE  /\ jobs'[j].status = Recovered(j) /\ jobs'[j].asked = jobs[j].asked
             /\ jobs'[j].command = jobs[j].command
  <2>1. jobs[j] \in Row
    BY DEF TypeOK
  <2>2. jobs'[j] = Updated(j)
    BY <1>1
  <2> QED
    BY <2>1, <2>2 DEF Row
<1> QED
  BY <1>2, <1>3 DEF Closed, Ended

(* Every step does one of these to the table.                              *)
LEMMA StepOfTable == IInv /\ CancelInv /\ [Next]_vars => TableStep
<1> SUFFICES ASSUME IInv, CancelInv, [Next]_vars
             PROVE  TableStep
  OBVIOUS
<1>0. jobs \in [Rows -> Row] /\ current \in 0..MaxRows /\ verdict \in Ended /\ TypeOK /\ DispatcherInv
  BY DEF IInv, TypeOK
<1>1. ASSUME NEW r \in Requests, Submit(r)
      PROVE  TableStep
  BY <1>0, <1>1, SubmitStep
<1>2. ASSUME UNCHANGED jobs
      PROVE  TableStep
  BY <1>2, KeptCloses DEF Kept, TableStep
<1>3. CASE InsertBackground
  <2>1. CASE Insert(Background, {}) /\ current' = Oldest(Unused)
    BY <1>0, <2>1, InsertAdds DEF TableStep
  <2> QED
    BY <1>2, <1>3, <2>1 DEF InsertBackground
<1>4. CASE Claim
  <2>1. current \in Rows /\ at = "claim"
    BY <1>0, <1>4 DEF Claim, DispatcherInv
  <2>2. CASE jobs[current].status = "queued" /\ SetStatus(current, "running") /\ at' = "spawn"
    BY <1>0, <2>1, <2>2, SetStatusMoves DEF TableStep
  <2> QED
    BY <1>2, <1>4, <2>2 DEF Claim
<1>5. CASE RecordPid
  <2>1. current \in Rows
    BY <1>0, <1>5 DEF RecordPid, DispatcherInv
  <2>2. \A i \in Rows : Kept(i)
    BY <1>0, <1>5, <2>1 DEF RecordPid, Row, Kept
  <2> QED
    BY <2>2, KeptCloses DEF TableStep
<1>6. CASE Finalize
  <2>1. current \in Rows /\ jobs[current].status \in Ended \cup {"running"}
    BY <1>0, <1>6 DEF Finalize, DispatcherInv, Engaged, Ended
  <2>2. Moved(current, jobs[current].status, verdict)
    BY <1>0, <1>6, <2>1, SetStatusMoves DEF Finalize
  <2> QED
    BY <1>0, <2>1, <2>2, MovedCloses DEF TableStep
<1>7. ASSUME NEW j \in Rows, Reap(j)
      PROVE  TableStep
  <2>1. "cancelled" \in Ended
    BY DEF Ended
  <2>2. Moved(j, "running", "cancelled")
    BY <1>0, <1>7, <2>1, SetStatusMoves DEF Reap
  <2> QED
    BY <2>1, <2>2, MovedCloses DEF TableStep
<1>8. ASSUME NEW j \in Rows, CancelRead(j)
      PROVE  TableStep
  <2>1. CASE jobs[j].status = "queued" /\ SetStatus(j, "cancelled")
    <3>1. "cancelled" \in Ended
      BY DEF Ended
    <3>2. Moved(j, "queued", "cancelled")
      BY <1>0, <2>1, <3>1, SetStatusMoves
    <3> QED
      BY <3>2 DEF TableStep
  <2> QED
    BY <1>2, <1>8, <2>1 DEF CancelRead
<1>9. ASSUME NEW j \in Rows, CancelClose(j)
      PROVE  TableStep
  <2>1. jobs[j].status \in Ended \cup {"running"} /\ "cancelled" \in Ended
    BY <1>9 DEF CancelClose, CancelInv, Ended
  <2>2. Moved(j, jobs[j].status, "cancelled")
    BY <1>0, <1>9 DEF CancelClose, Row, Moved, KeptBut, Kept
  <2> QED
    BY <2>1, <2>2, MovedCloses DEF TableStep
<1>10. ASSUME NEW j \in Rows, CancelMark(j)
       PROVE  TableStep
  <2>1. \A i \in Rows : Kept(i)
    BY <1>0, <1>10 DEF CancelMark, Row, Kept
  <2> QED
    BY <2>1, KeptCloses DEF TableStep
<1>11. CASE RecoverOnStartup
  BY <1>0, <1>11, RecoverCloses DEF TableStep
<1> QED
  BY <1>1, <1>2, <1>3, <1>4, <1>5, <1>6, <1>7, <1>8, <1>9, <1>10, <1>11
  DEF Next, Dispatch, Cancel, Child, NextQueued, StartableBacklog, Spawn, PumpFails, WaitReturns,
      Judge, BacklogChanged, CancelSignal, ChildStarts, ChildMeetsHolder, ChildEnds,
      BackgroundYields, ChildKilled, TerminalTakes, TerminalEnds, ServerCrash, vars

(* What brings the dispatcher to a claim, and a cancel to its second step. *)
LEMMA StepOfControl ==
  ASSUME TypeOK, [Next]_vars
  PROVE  /\ at' = "claim" => \/ at = "claim" /\ current' = current
                             \/ NextQueued
                             \/ InsertBackground
         /\ \A j \in Rows : cancel'[j] # "none" => cancel[j] # "none" \/ jobs[j].status = "running"
<1> USE DEF processes, dispatcher
<1>1. \/ at' = "claim" => at = "claim" /\ current' = current
      \/ NextQueued
      \/ InsertBackground
  BY DEF Next, Dispatch, Cancel, Child, Submit, StartableBacklog, Claim, Spawn, RecordPid, PumpFails,
         WaitReturns, Judge, Finalize, BacklogChanged, Reap, CancelRead, CancelSignal, CancelClose,
         CancelMark, ChildStarts, ChildMeetsHolder, ChildEnds, BackgroundYields, ChildKilled,
         TerminalTakes, TerminalEnds, ServerCrash, RecoverOnStartup, vars
<1>2. \/ cancel' = cancel
      \/ cancel' = [j \in Rows |-> "none"]
      \/ \E j \in Rows : CancelRead(j) \/ Cancel(j)
  BY DEF Next, Dispatch, Child, Submit, NextQueued, StartableBacklog, InsertBackground, Claim,
         Spawn, RecordPid, PumpFails, WaitReturns, Judge, Finalize, BacklogChanged, Reap,
         ChildStarts, ChildMeetsHolder, ChildEnds, BackgroundYields, ChildKilled, TerminalTakes,
         TerminalEnds, ServerCrash, RecoverOnStartup, vars
<1>3. cancel \in [Rows -> {"none", "gone", "alive", "mark"}]
  BY DEF TypeOK
<1>4. ASSUME NEW k \in Rows, CancelRead(k) \/ Cancel(k), NEW j \in Rows, cancel'[j] # "none"
      PROVE  cancel[j] # "none" \/ jobs[j].status = "running"
  BY <1>3, <1>4 DEF CancelRead, Cancel, CancelSignal, CancelClose, CancelMark
<1> QED
  BY <1>1, <1>2, <1>4

LEMMA InitOrder == Init => OrderInv
  BY DEF Init, OrderInv, AskedInv, UsedInv, TurnInv, CancelInv, NoRow

LEMMA NextOrder == IInv /\ OrderInv /\ [Next]_vars => OrderInv'
<1> SUFFICES ASSUME IInv, OrderInv, [Next]_vars
             PROVE  OrderInv'
  OBVIOUS
<1>0. /\ jobs \in [Rows -> Row] /\ TypeOK /\ DispatcherInv
      /\ AskedInv /\ UsedInv /\ TurnInv /\ CancelInv /\ TableStep
      /\ \A r \in Requests : KeyOf[r] # Background
  BY StepOfTable DEF IInv, TypeOK, OrderInv, Background
<1> USE DEF KeptBut, Kept
<1>1. AskedInv'
  <2>1. ASSUME NEW r \in Requests, NEW k \in Rows, Joined(k, r)
        PROVE  AskedInv'
    BY <1>0, <2>1 DEF Joined, Absorbs, AskedInv, IsBackground
  <2>2. ASSUME NEW r \in Requests, NEW k \in Rows, Added(k, KeyOf[r], {r})
        PROVE  AskedInv'
    BY <1>0, <2>2 DEF Added, AskedInv, IsBackground
  <2>3. ASSUME NEW k \in Rows, Added(k, Background, {})
        PROVE  AskedInv'
    BY <1>0, <2>3 DEF Added, AskedInv, IsBackground
  <2>4. ASSUME NEW k \in Rows, NEW to \in {"running", "cancelled"}, Moved(k, "queued", to)
        PROVE  AskedInv'
    BY <1>0, <2>4 DEF Moved, AskedInv, IsBackground
  <2>5. CASE Closed
    BY <1>0, <2>5 DEF Closed, AskedInv, IsBackground, Ended
  <2> QED
    BY <1>0, <2>1, <2>2, <2>3, <2>4, <2>5 DEF TableStep
<1>2. UsedInv'
  <2>1. ASSUME NEW r \in Requests, NEW k \in Rows, Joined(k, r)
        PROVE  UsedInv'
    BY <1>0, <2>1 DEF Joined, Absorbs, UsedInv
  <2>2. ASSUME NEW k \in Rows, NEW command, NEW asked, Added(k, command, asked)
        PROVE  UsedInv'
    BY <1>0, <2>2 DEF Added, UsedInv, Rows
  <2>3. ASSUME NEW k \in Rows, NEW to \in {"running", "cancelled"}, Moved(k, "queued", to)
        PROVE  UsedInv'
    BY <1>0, <2>3 DEF Moved, UsedInv
  <2>4. CASE Closed
    BY <1>0, <2>4 DEF Closed, UsedInv, Ended
  <2> QED
    BY <1>0, <2>1, <2>2, <2>3, <2>4 DEF TableStep
<1>3. TurnInv'
  <2> SUFFICES ASSUME at' = "claim", jobs'[current'].command # Background
               PROVE  \A i \in Rows : jobs'[i].status = "queued" /\ jobs'[i].command # Background
                                        => current' <= i
    BY DEF TurnInv, IsBackground, Waiting, With
  <2>1. CASE NextQueued
    <3>1. Waiting \in SUBSET Rows /\ Waiting # {} /\ current' = Oldest(Waiting) /\ jobs' = jobs
      BY <2>1 DEF NextQueued, Waiting, With
    <3>2. \A i \in Waiting : current' <= i
      BY <3>1, OldestIsFirst
    <3> QED
      BY <3>1, <3>2 DEF Waiting, With, IsBackground
  <2>2. CASE InsertBackground
    <3>1. Insert(Background, {}) /\ current' = Oldest(Unused)
      BY <2>2 DEF InsertBackground
    <3>2. jobs'[current'].command = Background
      BY <1>0, <3>1, InsertAdds DEF Added
    <3> QED
      BY <3>2
  <2>3. CASE at = "claim" /\ current' = current
    <3>1. current \in Rows /\ jobs[current].status # "none"
      BY <1>0, <2>3 DEF DispatcherInv
    <3>2. CASE jobs[current].command # Background
      <4>1. \A i \in Rows : jobs[i].status = "queued" /\ jobs[i].command # Background => current <= i
        BY <1>0, <2>3, <3>2 DEF TurnInv, Waiting, With, IsBackground
      <4>2. \A i \in Rows : jobs[i].status = "none" => current <= i
        BY <1>0, <3>1 DEF UsedInv, Rows
      <4>3. \A i \in Rows : \/ jobs'[i].status # "queued"
                            \/ jobs[i].status = "none"
                            \/ jobs[i].status = "queued" /\ jobs'[i].command = jobs[i].command
        BY <1>0 DEF TableStep, Joined, Absorbs, Added, Moved, Closed, Ended
      <4> QED
        BY <2>3, <4>1, <4>2, <4>3
    <3>3. CASE jobs[current].command = Background
      <4>1. jobs'[current].command = jobs[current].command
        BY <1>0, <3>1 DEF TableStep, Joined, Added, Moved, Closed
      <4> QED
        BY <2>3, <3>3, <4>1
    <3> QED
      BY <3>2, <3>3
  <2> QED
    BY <1>0, <2>1, <2>2, <2>3, StepOfControl
<1>4. CancelInv'
  <2> SUFFICES ASSUME NEW j \in Rows, cancel'[j] # "none"
               PROVE  jobs'[j].status \in Ended \cup {"running"}
    BY DEF CancelInv
  <2>1. jobs[j].status \in Ended \cup {"running"}
    BY <1>0, StepOfControl DEF CancelInv
  <2> QED
    BY <1>0, <2>1 DEF TableStep, Joined, Absorbs, Added, Moved, Closed, Ended
<1> QED
  BY <1>1, <1>2, <1>3, <1>4 DEF OrderInv

LEMMA OrderInvariance == Spec => [](IInv /\ OrderInv)
<1>1. IInv /\ OrderInv /\ [Next]_vars => (IInv /\ OrderInv)'
  BY NextInv, NextOrder
<1> QED
  BY <1>1, InitInv, InitOrder, PTL DEF Spec

-----------------------------------------------------------------------------
(* The same step, seen as one of the lifecycle. *)
LEMMA StepImplementsLifecycle ==
  IInv /\ OrderInv /\ IInv' /\ [Next]_vars => [Lifecycle!Next]_(Lifecycle!vars)
<1> SUFFICES ASSUME IInv, OrderInv, IInv', [Next]_vars
             PROVE  [Lifecycle!Next]_(Lifecycle!vars)
  OBVIOUS
<1> DEFINE phase == [j \in Rows |-> Phase(j)]
           answers == [j \in Rows |-> jobs[j].asked]
<1>0. /\ TableStep /\ AskedInv /\ TurnInv /\ DispatcherInv
      /\ \A i \in Rows : jobs[i].asked \subseteq Requests
      /\ \A r \in Requests : KeyOf[r] # Background
      /\ Rows \subseteq Nat
  BY StepOfTable DEF IInv, TypeOK, Row, OrderInv, Rows, Background
<1>1. \A i \in Rows :
        /\ phase[i] = "new" <=> jobs[i].status = "none"
        /\ phase[i] = "waiting" <=> jobs[i].status = "queued"
        /\ phase[i] = "running" <=> jobs[i].status = "running"
        /\ phase[i] = "ended" <=> jobs[i].status \in Ended
  BY DEF IInv, TypeOK, Row, Phase, Ended
<1>2. \A i \in Rows :
        /\ jobs'[i].status = "queued" => phase'[i] = "waiting"
        /\ jobs'[i].status = "running" => phase'[i] = "running"
        /\ jobs'[i].status \in Ended => phase'[i] = "ended"
        /\ jobs'[i].status = jobs[i].status => phase'[i] = phase[i]
  BY DEF Phase, Ended
<1>3. \A i \in Rows : answers[i] = jobs[i].asked /\ answers'[i] = jobs'[i].asked
  OBVIOUS
<1>4. /\ phase = [j \in Rows |-> phase[j]] /\ phase' = [j \in Rows |-> phase'[j]]
      /\ answers = [j \in Rows |-> answers[j]] /\ answers' = [j \in Rows |-> answers'[j]]
  OBVIOUS
<1>5. /\ Lifecycle!vars = <<phase, answers>>
      /\ \A p : Lifecycle!In(p) = {j \in Rows : phase[j] = p}
      /\ Lifecycle!Requested = {j \in Rows : jobs[j].asked # {}}
  BY DEF Lifecycle!vars, Lifecycle!In, Lifecycle!Requested
<1>6. ASSUME NEW r
      PROVE  Lifecycle!Shared(r) = {j \in Rows : /\ jobs[j].status = "queued"
                                                 /\ \E q \in jobs[j].asked : KeyOf[q] = KeyOf[r]}
  BY <1>1, <1>5 DEF Lifecycle!Shared
(* A waiting row that answers the same command is one that absorbs.        *)
<1>7. ASSUME NEW r \in Requests, NEW j \in Rows
      PROVE  j \in Lifecycle!Shared(r) <=> Absorbs(j, r)
  BY <1>0, <1>6 DEF AskedInv, Absorbs, IsBackground
<1>8. ASSUME NEW k \in Rows, KeptBut(k), NEW to, phase'[k] = to
      PROVE  phase' = [phase EXCEPT ![k] = to]
  BY <1>2, <1>4, <1>8 DEF KeptBut, Kept
<1>9. ASSUME NEW k \in Rows, KeptBut(k)
      PROVE  answers' = [answers EXCEPT ![k] = jobs'[k].asked]
  BY <1>3, <1>4, <1>9 DEF KeptBut, Kept
<1>10. ASSUME NEW k \in Rows, \A i \in Rows : jobs[i].status = "none" => k <= i, jobs[k].status = "none"
       PROVE  Lifecycle!First(k, Lifecycle!In("new"))
  BY <1>1, <1>5, <1>10 DEF Lifecycle!First
<1> HIDE DEF phase, answers
<1>11. ASSUME NEW r \in Requests, NEW k \in Rows, \A i \in Rows : r \notin jobs[i].asked, Joined(k, r)
       PROVE  Lifecycle!Next
  <2>1. k \in Lifecycle!Shared(r) /\ Lifecycle!Shared(r) # {}
    BY <1>7, <1>11 DEF Joined
  <2>2. phase' = [phase EXCEPT ![k] = "waiting"]
    BY <1>2, <1>8, <1>11 DEF Joined
  <2>3. answers' = [answers EXCEPT ![k] = @ \cup {r}]
    BY <1>3, <1>9, <1>11 DEF Joined
  <2>4. \A i \in Rows : r \notin answers[i]
    BY <1>3, <1>11
  <2>5. Lifecycle!Ask(r)
    BY <2>1, <2>2, <2>3, <2>4 DEF Lifecycle!Ask, phase, answers
  <2> QED
    BY <2>5 DEF Lifecycle!Next
<1>12. ASSUME NEW r \in Requests, NEW k \in Rows,
              \A i \in Rows : r \notin jobs[i].asked /\ ~Absorbs(i, r), Added(k, KeyOf[r], {r})
       PROVE  Lifecycle!Next
  <2>1. Lifecycle!Shared(r) = {}
    BY <1>6, <1>7, <1>12
  <2>2. Lifecycle!First(k, Lifecycle!In("new"))
    BY <1>10, <1>12 DEF Added
  <2>3. phase' = [phase EXCEPT ![k] = "waiting"]
    BY <1>2, <1>8, <1>12 DEF Added
  <2>4. answers[k] = {} /\ answers' = [answers EXCEPT ![k] = {r}]
    BY <1>0, <1>3, <1>9, <1>12 DEF Added, AskedInv
  <2>5. answers' = [answers EXCEPT ![k] = @ \cup {r}]
    BY <2>4
  <2>6. \A i \in Rows : r \notin answers[i]
    BY <1>3, <1>12
  <2>7. Lifecycle!Ask(r)
    BY <2>1, <2>2, <2>3, <2>5, <2>6 DEF Lifecycle!Ask, phase, answers
  <2> QED
    BY <2>7 DEF Lifecycle!Next
<1>13. ASSUME NEW k \in Rows, Added(k, Background, {})
       PROVE  Lifecycle!Next
  <2>1. Lifecycle!First(k, Lifecycle!In("new"))
    BY <1>10, <1>13 DEF Added
  <2>2. phase' = [phase EXCEPT ![k] = "waiting"]
    BY <1>2, <1>8, <1>13 DEF Added
  <2>3. jobs[k].asked = {} /\ jobs'[k].asked = {}
    BY <1>0, <1>13 DEF Added, AskedInv
  <2>4. answers' = answers
    <3>1. \A i \in Rows : answers'[i] = answers[i]
      BY <1>3, <1>13, <2>3 DEF Added, KeptBut, Kept
    <3> QED
      BY <1>4, <3>1
  <2>5. Lifecycle!AddOwn(k)
    BY <2>1, <2>2, <2>4 DEF Lifecycle!AddOwn, phase, answers
  <2> QED
    BY <2>5 DEF Lifecycle!Next
<1>14. ASSUME NEW k \in Rows, NEW to \in {"running", "cancelled"}, Moved(k, "queued", to)
       PROVE  /\ k \in Lifecycle!In("waiting") /\ answers' = answers
              /\ phase' = [phase EXCEPT ![k] = IF to = "running" THEN "running" ELSE "ended"]
  <2>1. phase'[k] = IF to = "running" THEN "running" ELSE "ended"
    BY <1>2, <1>14 DEF Moved, Ended
  <2>2. answers' = answers
    BY <1>3, <1>4, <1>14 DEF Moved, KeptBut, Kept
  <2>3. phase[k] = "waiting"
    BY <1>1, <1>14 DEF Moved
  <2> QED
    BY <1>5, <1>8, <1>14, <2>1, <2>2, <2>3 DEF Moved
<1>15. ASSUME at = "claim", current \in Rows, Moved(current, "queued", "running")
       PROVE  Lifecycle!Next
  <2>1. Lifecycle!In("running") = {}
    BY <1>0, <1>1, <1>5, <1>15 DEF DispatcherInv
  <2>2. ASSUME current \in Lifecycle!Requested
        PROVE  Lifecycle!First(current, Lifecycle!In("waiting") \cap Lifecycle!Requested)
    <3>1. ~IsBackground(current)
      BY <1>0, <1>5, <1>15, <2>2 DEF AskedInv, Moved
    <3>2. \A i \in Waiting : current <= i
      BY <1>0, <1>15, <3>1 DEF TurnInv
    <3>3. \A i \in Lifecycle!In("waiting") \cap Lifecycle!Requested : i \in Waiting
      BY <1>0, <1>1, <1>5 DEF Waiting, With, AskedInv
    <3> QED
      BY <1>14, <1>15, <2>2, <3>2, <3>3 DEF Lifecycle!First
  <2>3. Lifecycle!Begin(current)
    BY <1>14, <1>15, <2>1, <2>2 DEF Lifecycle!Begin, phase, answers
  <2> QED
    BY <1>15, <2>3 DEF Lifecycle!Next
<1>16. ASSUME NEW k \in Rows, Moved(k, "queued", "cancelled")
       PROVE  Lifecycle!Next
  <2>1. Lifecycle!Withdraw(k)
    BY <1>14, <1>16 DEF Lifecycle!Withdraw, phase, answers
  <2> QED
    BY <2>1 DEF Lifecycle!Next
<1>17. CASE Closed
  <2> DEFINE S == {i \in Rows : phase'[i] # phase[i]}
  <2>1. ASSUME NEW i \in S
        PROVE  /\ phase'[i] = "ended"
               /\ i \in Lifecycle!In("running") \/ (i \in Lifecycle!In("waiting") /\ i \notin Lifecycle!Requested)
    <3>1. jobs'[i].status \in Ended /\ jobs[i].status \notin Ended
      BY <1>1, <1>2, <1>17 DEF Closed
    <3>2. jobs[i].status = "running" \/ (jobs[i].status = "queued" /\ IsBackground(i))
      BY <1>17, <3>1, <1>2 DEF Closed
    <3> QED
      BY <1>0, <1>1, <1>2, <1>5, <3>1, <3>2 DEF AskedInv
  <2>2. answers' = answers
    BY <1>3, <1>4, <1>17 DEF Closed
  <2>3. phase' = [j \in Rows |-> IF j \in S THEN "ended" ELSE phase[j]]
    BY <1>4, <2>1
  <2>4. S \in SUBSET Rows
    OBVIOUS
  <2> HIDE DEF S
  <2>5. Lifecycle!Settle(S)
    BY <2>1, <2>2, <2>3 DEF Lifecycle!Settle, phase, answers
  <2> QED
    BY <2>4, <2>5 DEF Lifecycle!Next
<1> QED
  BY <1>0, <1>11, <1>12, <1>13, <1>15, <1>16, <1>17 DEF TableStep

(* The queue is a single-slot FIFO that merges what waits for the same     *)
(* command, whatever cancels, reapings, lost processes, terminals and      *)
(* restarts come between.                                                  *)
THEOREM QueueIsFifo == Spec => ImplementsLifecycle
<1>1. Init => Lifecycle!Init
  BY DEF Init, Lifecycle!Init, Phase, NoRow
<1>2. QED
  BY <1>1, OrderInvariance, StepImplementsLifecycle, PTL DEF Spec, ImplementsLifecycle, Lifecycle!Spec

=============================================================================
