---------------------------- MODULE JobLifecycle ----------------------------
(***************************************************************************)
(* What the command queue promises whoever submits a command: a request is *)
(* answered by one job, which it shares with the other requests for the    *)
(* same command that came before it began; requested jobs begin in the     *)
(* order in which they came, one at a time, unless they are withdrawn; and *)
(* what ended stays so. Besides, the queue has jobs of its own that answer *)
(* nobody: when they begin and end is its affair.                          *)
(***************************************************************************)
EXTENDS Naturals

CONSTANTS
  Jobs,      \* numbers, in the order in which the jobs come
  Requests,
  KeyOf      \* the command each request asks for

VARIABLES
  phase,     \* job -> "new", "waiting", "running" or "ended"
  answers    \* job -> the requests it answers

vars == <<phase, answers>>

Init ==
  /\ phase = [j \in Jobs |-> "new"]
  /\ answers = [j \in Jobs |-> {}]

In(p) == {j \in Jobs : phase[j] = p}

Requested == {j \in Jobs : answers[j] # {}}

First(j, S) == j \in S /\ \A i \in S : j <= i

(* The jobs that wait to run the command r asks for. *)
Shared(r) == {j \in In("waiting") : \E q \in answers[j] : KeyOf[q] = KeyOf[r]}

Ask(r) ==
  /\ \A j \in Jobs : r \notin answers[j]
  /\ \E j \in Jobs :
       /\ IF Shared(r) = {} THEN First(j, In("new")) ELSE j \in Shared(r)
       /\ phase' = [phase EXCEPT ![j] = "waiting"]
       /\ answers' = [answers EXCEPT ![j] = @ \cup {r}]

AddOwn(j) ==
  /\ First(j, In("new"))
  /\ phase' = [phase EXCEPT ![j] = "waiting"]
  /\ UNCHANGED answers

Begin(j) ==
  /\ In("running") = {} /\ j \in In("waiting")
  /\ j \in Requested => First(j, In("waiting") \cap Requested)
  /\ phase' = [phase EXCEPT ![j] = "running"]
  /\ UNCHANGED answers

Withdraw(j) ==
  /\ j \in In("waiting")
  /\ phase' = [phase EXCEPT ![j] = "ended"]
  /\ UNCHANGED answers

(* A run ends, or several at once are found to have ended; no requested    *)
(* job is lost that did not run.                                           *)
Settle(S) ==
  /\ S \subseteq In("running") \cup (In("waiting") \ Requested)
  /\ phase' = [j \in Jobs |-> IF j \in S THEN "ended" ELSE phase[j]]
  /\ UNCHANGED answers

Next ==
  \/ \E r \in Requests : Ask(r)
  \/ \E j \in Jobs : AddOwn(j) \/ Begin(j) \/ Withdraw(j)
  \/ \E S \in SUBSET Jobs : Settle(S)

Spec == Init /\ [][Next]_vars

=============================================================================
