------------------------------- MODULE Relay --------------------------------
(***************************************************************************)
(* The relay (cmd/relay.go) for one room id: connections of both roles     *)
(* that come and go, one goroutine each, and the rooms they meet in, one   *)
(* after another under the same id. Room objects are numbered as they are  *)
(* created; a goroutine keeps the room it joined although the table may    *)
(* hold another by then. Frames cross outside the locks.                   *)
(*                                                                         *)
(* A frame is its sender and its number. Closing a connection is one step; *)
(* a write to, or a read from, a closed connection fails.                  *)
(***************************************************************************)
EXTENDS Naturals, Sequences, FiniteSets

CONSTANTS
  MaxConns,   \* connections that may come
  MaxFrames,  \* frames the clients send, in all
  HeldLimit   \* relayHeldLimit, in frames

ASSUME RelayAssumption == {MaxConns, MaxFrames, HeldLimit} \subseteq Nat

VARIABLES
  role,    \* the role each connection asks for
  pc,      \* where each connection's goroutine is
  listed,  \* the room in the table under the id, 0 when there is none
  made,    \* rooms created so far
  joined,  \* the room a connection joined
  slot,    \* room -> role -> the connection in it
  ready,   \* room -> role -> whether frames are forwarded to it
  held,    \* room -> frames held for a peer that is not ready
  batch,   \* frames a goroutine took to deliver to its own connection
  peer,    \* the connection a goroutine forwards to or is about to close
  read,    \* the number of frames read from each connection
  got,     \* connection -> the frames written to it
  closed,  \* connections closed, by either end
  partner  \* history: the connection each met in its room

vars == <<role, pc, listed, made, joined, slot, ready, held, batch, peer, read, got, closed, partner>>

(* Connections, in the order in which they join. *)
Conns == 1..MaxConns

Nobody == 0

Roles == {"provider", "consumer"}

Opposite(ro) == IF ro = "provider" THEN "consumer" ELSE "provider"

Rooms == 1..MaxConns  \* a connection creates at most one

Frames == Conns \X (1..MaxFrames)

TypeOK ==
  /\ role \in [Conns -> Roles]
  /\ pc \in [Conns -> {"connect", "take", "deliver", "read", "forward", "clean", "close", "end"}]
  /\ {listed, made} \subseteq Rooms \cup {0}
  /\ joined \in [Conns -> Rooms \cup {0}]
  /\ slot \in [Rooms -> [Roles -> Conns \cup {Nobody}]]
  /\ ready \in [Rooms -> [Roles -> BOOLEAN]]
  /\ held \in [Rooms -> Seq(Frames)] /\ \A r \in Rooms : Len(held[r]) <= HeldLimit + 1
  /\ batch \in [Conns -> Seq(Frames)]
  /\ {peer, partner} \subseteq [Conns -> Conns \cup {Nobody}]
  /\ read \in [Conns -> 0..MaxFrames]
  /\ got \in [Conns -> Seq(Frames)]
  /\ closed \in SUBSET Conns

Init ==
  /\ role \in [Conns -> Roles]
  /\ pc = [c \in Conns |-> "connect"]
  /\ listed = 0 /\ made = 0
  /\ joined = [c \in Conns |-> 0]
  /\ slot = [r \in Rooms |-> [ro \in Roles |-> Nobody]]
  /\ ready = [r \in Rooms |-> [ro \in Roles |-> FALSE]]
  /\ held = [r \in Rooms |-> <<>>]
  /\ batch = [c \in Conns |-> <<>>]
  /\ peer = [c \in Conns |-> Nobody]
  /\ read = [c \in Conns |-> 0]
  /\ got = [c \in Conns |-> <<>>]
  /\ closed = {}
  /\ partner = [c \in Conns |-> Nobody]

-----------------------------------------------------------------------------
Goto(c, to) == pc' = [pc EXCEPT ![c] = to]

Write(to, frame) == got' = [got EXCEPT ![to] = Append(@, frame)]

-----------------------------------------------------------------------------
(* Slips a change to the code could make, each the mutant of a definition  *)
(* below; no action uses them.                                             *)

(* Frames would be forwarded as soon as the held ones are taken. *)
ReadyTooSoon(c) ==
  LET r == joined[c] IN
  /\ pc[c] = "take"
  /\ batch' = [batch EXCEPT ![c] = held[r]]
  /\ held' = [held EXCEPT ![r] = <<>>]
  /\ ready' = [ready EXCEPT ![r][role[c]] = TRUE]
  /\ Goto(c, IF held[r] = <<>> THEN "read" ELSE "deliver")
  /\ UNCHANGED <<role, listed, made, joined, slot, peer, read, got, closed, partner>>

(* A joining connection would forget what was held before it came, as the  *)
(* relay did before it held frames.                                        *)
DropHeld(c) ==
  LET r == joined[c] IN
  /\ pc[c] = "take"
  /\ held' = [held EXCEPT ![r] = <<>>]
  /\ ready' = [ready EXCEPT ![r][role[c]] = TRUE]
  /\ Goto(c, "read")
  /\ UNCHANGED <<role, listed, made, joined, slot, batch, peer, read, got, closed, partner>>

(* The cleanup would not close the other connection. *)
CloseOnlyOwn(c) ==
  /\ pc[c] = "close"
  /\ closed' = closed \cup {c}
  /\ Goto(c, "end")
  /\ UNCHANGED <<role, listed, made, joined, slot, ready, held, batch, peer, read, got, partner>>

(* Whatever a connection sends to a peer that is not there would be held. *)
HoldWithoutLimit(c) ==
  LET r == joined[c]
      to == Opposite(role[c])
  IN  /\ pc[c] = "read" /\ c \notin closed
      /\ Cardinality({f \in Frames : f[2] <= read[f[1]]}) < MaxFrames
      /\ read' = [read EXCEPT ![c] = @ + 1]
      /\ \/ /\ ready[r][to] /\ slot[r][to] # Nobody
            /\ peer' = [peer EXCEPT ![c] = slot[r][to]]
            /\ Goto(c, "forward") /\ UNCHANGED held
         \/ /\ ~(ready[r][to] /\ slot[r][to] # Nobody)
            /\ held' = [held EXCEPT ![r] = Append(@, <<c, read'[c]>>)]
            /\ UNCHANGED <<pc, peer>>
  /\ UNCHANGED <<role, listed, made, joined, slot, ready, batch, got, closed, partner>>

-----------------------------------------------------------------------------
(* relayPeer, joining: the room under the id, or a new one. A connection   *)
(* whose role is taken is refused and closed.                              *)
Join(c) ==
  LET r == IF listed = 0 THEN made + 1 ELSE listed
      other == slot[r][Opposite(role[c])]
  IN  /\ pc[c] = "connect" /\ \A d \in 1..c - 1 : pc[d] # "connect"
      /\ listed' = r
      /\ made' = IF listed = 0 THEN r ELSE made
      /\ joined' = [joined EXCEPT ![c] = r]
      /\ \/ /\ slot[r][role[c]] = Nobody
            /\ slot' = [slot EXCEPT ![r][role[c]] = c]
            /\ partner' = IF other = Nobody THEN partner
                          ELSE [partner EXCEPT ![c] = other, ![other] = c]
            /\ Goto(c, "take") /\ UNCHANGED closed
         \/ /\ slot[r][role[c]] # Nobody
            /\ closed' = closed \cup {c}
            /\ Goto(c, "end") /\ UNCHANGED <<slot, partner>>
  /\ UNCHANGED <<role, ready, held, batch, peer, read, got>>

(* What was sent before this connection joined is taken from the room;     *)
(* once there is no more, frames are forwarded to it.                      *)
TakeHeld(c) ==
  LET r == joined[c] IN
  /\ pc[c] = "take"
  /\ batch' = [batch EXCEPT ![c] = held[r]]
  /\ held' = [held EXCEPT ![r] = <<>>]
  /\ ready' = [ready EXCEPT ![r][role[c]] = @ \/ held[r] = <<>>]
  /\ Goto(c, IF held[r] = <<>> THEN "read" ELSE "deliver")
  /\ UNCHANGED <<role, listed, made, joined, slot, peer, read, got, closed, partner>>

Deliver(c) ==
  /\ pc[c] = "deliver"
  /\ \/ /\ c \notin closed
        /\ Write(c, Head(batch[c]))
        /\ batch' = [batch EXCEPT ![c] = Tail(@)]
        /\ Goto(c, IF Len(batch[c]) = 1 THEN "take" ELSE "deliver")
     \/ c \in closed /\ Goto(c, "clean") /\ UNCHANGED <<got, batch>>
  /\ UNCHANGED <<role, listed, made, joined, slot, ready, held, peer, read, closed, partner>>

(* A frame is read, and the room says where it goes: to the peer when that *)
(* one is ready, else among the held frames. A sender of more than the     *)
(* relay holds is closed; the last frame stays held.                       *)
ReadFrame(c) ==
  LET r == joined[c]
      to == Opposite(role[c])
      direct == ready[r][to] /\ slot[r][to] # Nobody
  IN  /\ pc[c] = "read" /\ c \notin closed
      /\ Cardinality({f \in Frames : f[2] <= read[f[1]]}) < MaxFrames
      /\ read' = [read EXCEPT ![c] = @ + 1]
      /\ \/ /\ direct
            /\ peer' = [peer EXCEPT ![c] = slot[r][to]]
            /\ Goto(c, "forward") /\ UNCHANGED <<held, closed>>
         \/ /\ ~direct
            /\ held' = [held EXCEPT ![r] = Append(@, <<c, read'[c]>>)]
            /\ \/ Len(held'[r]) <= HeldLimit /\ UNCHANGED <<pc, closed>>
               \/ /\ Len(held'[r]) > HeldLimit
                  /\ closed' = closed \cup {c}
                  /\ Goto(c, "clean")
            /\ UNCHANGED peer
  /\ UNCHANGED <<role, listed, made, joined, slot, ready, batch, got, partner>>

(* The write to the peer, outside the locks. *)
Forward(c) ==
  /\ pc[c] = "forward"
  /\ peer' = [peer EXCEPT ![c] = Nobody]
  /\ \/ /\ peer[c] \notin closed
        /\ Write(peer[c], <<c, read[c]>>)
        /\ Goto(c, "read")
     \/ peer[c] \in closed /\ Goto(c, "clean") /\ UNCHANGED got
  /\ UNCHANGED <<role, listed, made, joined, slot, ready, held, batch, read, closed, partner>>

(* The read fails: the connection was closed. *)
ReadFails(c) ==
  /\ pc[c] = "read" /\ c \in closed
  /\ Goto(c, "clean")
  /\ UNCHANGED <<role, listed, made, joined, slot, ready, held, batch, peer, read, got, closed, partner>>

(* Cleanup, under the locks: a connection that still has its slot empties  *)
(* both and remembers the other to close it; an empty room takes whatever  *)
(* room is in the table out of it.                                         *)
CleanUp(c) ==
  LET r == joined[c]
      mine == slot[r][role[c]] = c
      after == IF mine THEN [ro \in Roles |-> Nobody] ELSE slot[r]
  IN  /\ pc[c] = "clean"
      /\ peer' = [peer EXCEPT ![c] = IF mine THEN slot[r][Opposite(role[c])] ELSE Nobody]
      /\ slot' = [slot EXCEPT ![r] = after]
      /\ ready' = IF mine THEN [ready EXCEPT ![r] = [ro \in Roles |-> FALSE]] ELSE ready
      /\ held' = [held EXCEPT ![r] = <<>>]
      /\ listed' = IF \A ro \in Roles : after[ro] = Nobody THEN 0 ELSE listed
      /\ Goto(c, "close")
  /\ UNCHANGED <<role, made, joined, batch, read, got, closed, partner>>

(* After the locks: the connection is closed, and its peer. *)
CloseBoth(c) ==
  /\ pc[c] = "close"
  /\ closed' = closed \cup ({c, peer[c]} \ {Nobody})
  /\ Goto(c, "end")
  /\ UNCHANGED <<role, listed, made, joined, slot, ready, held, batch, peer, read, got, partner>>

(* The goroutine that expires rooms: the listed room is old and has not    *)
(* paired. Its slots stay as they are.                                     *)
Expire ==
  /\ listed # 0
  /\ \E ro \in Roles : slot[listed][ro] = Nobody
  /\ closed' = closed \cup ({slot[listed][ro] : ro \in Roles} \ {Nobody})
  /\ listed' = 0
  /\ UNCHANGED <<role, pc, made, joined, slot, ready, held, batch, peer, read, got, partner>>

(* A client closes its connection, or it is lost. *)
ClientLeaves(c) ==
  /\ pc[c] \in {"take", "deliver", "read", "forward"} /\ c \notin closed
  /\ closed' = closed \cup {c}
  /\ UNCHANGED <<role, pc, listed, made, joined, slot, ready, held, batch, peer, read, got, partner>>

-----------------------------------------------------------------------------
(* A goroutine's own steps; reading waits for the client. *)
Step(c) ==
  \/  TakeHeld(c) \/ Deliver(c) \/ Forward(c) \/ ReadFails(c)
  \/ CleanUp(c) \/ CloseBoth(c)

Next ==
  \/ \E c \in Conns : Join(c) \/ Step(c) \/ ReadFrame(c) \/ ClientLeaves(c)
  \/ Expire

Spec == Init /\ [][Next]_vars

(* Goroutines run. Clients owe nothing: none need connect, send or leave.  *)
Fairness == \A c \in Conns : WF_vars(Step(c))

FairSpec == Spec /\ Fairness

-----------------------------------------------------------------------------
(* Frames are delivered from several goroutines, outside the locks, while  *)
(* rooms are emptied, expired and replaced under the same id: still each   *)
(* connection gets its partner's frames, and only those, in order and      *)
(* without a gap ("so they arrive first and in order", relay.go 29).       *)
W == INSTANCE Wire WITH Alone <- Nobody, accepted <- read, received <- got

WireSpec == W!Spec

(* The frames a connection sent reach its partner, also those sent before  *)
(* the partner joined or while it takes what was held ("dropping that      *)
(* frame left both sides waiting for each other"), unless either is        *)
(* closed.                                                                 *)
Undelivered(a) ==
  \E b \in Conns : partner[a] = b /\ Len(got[b]) < read[a] /\ {a, b} \cap closed = {}

FramesArrive == \A a \in Conns : Undelivered(a) ~> ~Undelivered(a)

(* A connection whose partner is gone is closed, wherever both are: it     *)
(* never waits in an abandoned room ("Close the peer too so the other side *)
(* fails fast").                                                           *)
PartnerIsClosed ==
  \A a \in Conns : a \in closed /\ partner[a] # Nobody ~> partner[a] \in closed

=============================================================================
