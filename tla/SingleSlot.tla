----------------------------- MODULE SingleSlot -----------------------------
(***************************************************************************)
(* What the queue lock promises to everyone who uses it or reads it: one   *)
(* slot that at most one process occupies, and a sign on it that a reader  *)
(* finds blank or naming the occupant, never somebody else.                *)
(***************************************************************************)
CONSTANTS Procs, Nobody

VARIABLES
  occupant,  \* the process in the slot
  shown      \* the process a reader of the sign is told of

vars == <<occupant, shown>>

Init == occupant = Nobody /\ shown = Nobody

Enter(p) ==
  /\ occupant = Nobody
  /\ occupant' = p
  /\ UNCHANGED shown

Announce(p) ==
  /\ occupant = p
  /\ shown' = p
  /\ UNCHANGED occupant

(* Before it leaves, the occupant takes its name down. *)
Conceal(p) ==
  /\ occupant = p
  /\ shown' = Nobody
  /\ UNCHANGED occupant

(* It leaves, or dies where it is; nobody is named from then on. *)
Leave(p) ==
  /\ occupant = p
  /\ occupant' = Nobody
  /\ shown' = Nobody

Next == \E p \in Procs : Enter(p) \/ Announce(p) \/ Conceal(p) \/ Leave(p)

Spec == Init /\ [][Next]_vars

=============================================================================
