-------------------------------- MODULE Wire --------------------------------
(***************************************************************************)
(* What the relay promises the devices that connect to it: a connection is *)
(* joined to at most one other, and receives what that one sends, from its *)
(* first frame on, in order and without a gap. It promises no more: any    *)
(* connection may end at any point.                                        *)
(***************************************************************************)
EXTENDS Naturals, Sequences

CONSTANTS Conns, Alone

VARIABLES
  partner,   \* the connection each is joined to
  accepted,  \* the number of frames taken from each
  received   \* connection -> the frames written to it, each <<sender, number>>

vars == <<partner, accepted, received>>

Init ==
  /\ partner = [c \in Conns |-> Alone]
  /\ accepted = [c \in Conns |-> 0]
  /\ received = [c \in Conns |-> <<>>]

Meet(a, b) ==
  /\ a # b /\ partner[a] = Alone /\ partner[b] = Alone
  /\ partner' = [partner EXCEPT ![a] = b, ![b] = a]
  /\ UNCHANGED <<accepted, received>>

Send(a) ==
  /\ accepted' = [accepted EXCEPT ![a] = @ + 1]
  /\ UNCHANGED <<partner, received>>

Arrive(b) ==
  LET a == partner[b]
      n == Len(received[b]) + 1
  IN  /\ a # Alone /\ n <= accepted[a]
      /\ received' = [received EXCEPT ![b] = Append(@, <<a, n>>)]
      /\ UNCHANGED <<partner, accepted>>

Next == \E a \in Conns : Send(a) \/ Arrive(a) \/ \E b \in Conns : Meet(a, b)

Spec == Init /\ [][Next]_vars

=============================================================================
