---------------------------- MODULE RelayProofs -----------------------------
(***************************************************************************)
(* Proofs about Relay: the types, and that whatever connections come and   *)
(* go, the relay is the wire the devices count on. The invariant says      *)
(* where each frame is between its sender and its receiver: delivered, in  *)
(* the receiver's hands, held by the room, or in the sender's.             *)
(***************************************************************************)
EXTENDS Relay, FiniteSetTheorems, SequenceTheorems, TLAPS

-----------------------------------------------------------------------------
(* A run of frames: those of a connection that follow its first m.         *)
IsRun(q, a, m) == \A i \in 1..Len(q) : q[i] = <<a, m + i>>

(* Connections that have joined a room and have not ended.                 *)
Member(c) == pc[c] \notin {"connect", "end"}

(* The room still has the connection in its slot.                          *)
Here(c) == slot[joined[c]][role[c]] = c

(* Rooms are numbered as they are made, no more of them than connections   *)
(* came, and the listed one is not empty.                                  *)
RoomInv ==
  /\ listed <= made
  /\ \A c \in Conns : pc[c] = "connect" => made < c /\ joined[c] = 0
  /\ \A c \in Conns : pc[c] # "connect" => joined[c] # 0
  /\ \A c \in Conns : joined[c] <= made
  /\ listed # 0 => \E ro \in Roles : slot[listed][ro] # Nobody

(* A slot holds a connection that joined this room in this role, and has   *)
(* not cleaned up.                                                         *)
SlotInv ==
  \A r \in Rooms : \A ro \in Roles :
    slot[r][ro] # Nobody =>
      /\ pc[slot[r][ro]] \notin {"connect", "close", "end"}
      /\ joined[slot[r][ro]] = r
      /\ role[slot[r][ro]] = ro

(* Whoever joined the listed room is in its slot.                          *)
ListedInv == \A c \in Conns : Member(c) /\ joined[c] = listed => Here(c)

(* A room that is not made is empty; in the listed one frames are not      *)
(* forwarded to an empty slot.                                             *)
FreshInv ==
  /\ \A r \in Rooms : r > made => held[r] = <<>> /\ \A ro \in Roles : ~ready[r][ro]
  /\ listed # 0 => \A ro \in Roles : slot[listed][ro] = Nobody => ~ready[listed][ro]

(* Partners are the two members of one room, in opposite roles.            *)
PairInv ==
  /\ \A c \in Conns : partner[c] # Nobody =>
       /\ partner[c] # c
       /\ partner[partner[c]] = c
       /\ joined[partner[c]] = joined[c]
       /\ role[partner[c]] = Opposite(role[c])
       /\ pc[c] # "connect"
  /\ \A c, d \in Conns :
       c # d /\ Member(c) /\ Member(d) /\ joined[c] = joined[d] => partner[c] = d

(* The slots of a pair empty together, and only its two can empty them.    *)
LeftInv ==
  /\ \A c \in Conns : Member(c) /\ Here(c) /\ partner[c] # Nobody => Here(partner[c])
  /\ \A c \in Conns : Member(c) /\ ~Here(c) /\ pc[c] # "close" =>
       partner[c] # Nobody /\ pc[partner[c]] \in {"close", "end"}

(* Before it reads, a connection has sent nothing; it forwards what it has *)
(* read. It is ready when it reads, and not before.                        *)
StageInv ==
  \A c \in Conns :
    /\ pc[c] \in {"connect", "take", "deliver"} => read[c] = 0
    /\ pc[c] = "forward" => read[c] # 0
    /\ pc[c] \in {"connect", "take"} => batch[c] = <<>>
    /\ pc[c] = "deliver" => batch[c] # <<>>
    /\ Member(c) /\ Here(c) /\ pc[c] \in {"read", "forward"} => ready[joined[c]][role[c]]
    /\ Member(c) /\ Here(c) /\ pc[c] \in {"take", "deliver"} => ~ready[joined[c]][role[c]]

(* What a room holds for a connection alone in it is all that it sent.     *)
AloneInv ==
  \A c \in Conns : partner[c] = Nobody =>
    /\ got[c] = <<>> /\ batch[c] = <<>>
    /\ pc[c] # "forward"
    /\ Member(c) /\ Here(c) => IsRun(held[joined[c]], c, 0) /\ Len(held[joined[c]]) = read[c]

(* What was delivered, what is about to be, and what is held for a         *)
(* connection follow one another.                                          *)
HeldFor(a, b) ==
  pc[b] \in {"take", "deliver"} =>
    /\ IsRun(batch[b], a, Len(got[b]))
    /\ Len(got[b]) + Len(batch[b]) <= read[a]
    /\ Here(b) => /\ IsRun(held[joined[b]], a, Len(got[b]) + Len(batch[b]))
                  /\ Len(got[b]) + Len(batch[b]) + Len(held[joined[b]]) = read[a]
    /\ ~Here(b) => held[joined[b]] = <<>>

(* Frames are forwarded from where what was held ends.                     *)
InHand(a, b) ==
  pc[a] = "forward" =>
    /\ peer[a] = b
    /\ Len(got[b]) + 1 = read[a]
    /\ pc[b] \notin {"connect", "take", "deliver"}

CaughtUp(a, b) ==
  pc[a] = "read" /\ Here(b) /\ ready[joined[b]][role[b]] => Len(got[b]) = read[a]

StreamInv ==
  \A a, b \in Conns : partner[b] = a =>
    /\ Len(got[b]) <= read[a]
    /\ HeldFor(a, b)
    /\ InHand(a, b)
    /\ CaughtUp(a, b)

(* Whoever may send finds room among the held frames.                      *)
HeldInv ==
  \A c \in Conns : pc[c] \in {"read", "forward"} => Len(held[joined[c]]) <= HeldLimit

IInv ==
  /\ TypeOK /\ RoomInv /\ SlotInv /\ ListedInv /\ FreshInv /\ PairInv
  /\ LeftInv /\ StageInv /\ AloneInv /\ StreamInv /\ HeldInv

-----------------------------------------------------------------------------
(* While fewer than MaxFrames frames are read, each connection may send    *)
(* one more within its type.                                               *)
LEMMA MoreToRead ==
  ASSUME read \in [Conns -> 0..MaxFrames], NEW c \in Conns,
         Cardinality({f \in Frames : f[2] <= read[f[1]]}) < MaxFrames
  PROVE  read[c] + 1 \in 1..MaxFrames
<1> DEFINE S == {f \in Frames : f[2] <= read[f[1]]}
           T == {c} \X (1..MaxFrames)
<1>0. MaxFrames \in Nat /\ MaxConns \in Nat
  BY RelayAssumption
<1>1. SUFFICES ASSUME read[c] = MaxFrames PROVE FALSE
  BY <1>0
<1>2. IsFiniteSet(1..MaxFrames) /\ Cardinality(1..MaxFrames) = MaxFrames
  BY <1>0, FS_Interval
<1>3. IsFiniteSet({c}) /\ Cardinality({c}) = 1
  BY FS_Singleton
<1>4. Cardinality(T) = MaxFrames
  <2>1. Cardinality(T) = Cardinality({c}) * Cardinality(1..MaxFrames)
    BY <1>2, <1>3, FS_Product
  <2> QED  BY <2>1, <1>0, <1>2, <1>3
<1>5. IsFiniteSet(S)
  <2>1. IsFiniteSet(Conns)
    BY <1>0, FS_Interval DEF Conns
  <2>2. IsFiniteSet(Frames)
    BY <2>1, <1>2, FS_Product DEF Frames
  <2> QED  BY <2>2, FS_Subset
<1>6. T \subseteq S
  BY <1>0, <1>1 DEF Frames
<1>7. Cardinality(T) <= Cardinality(S) /\ Cardinality(S) \in Nat /\ Cardinality(T) \in Nat
  BY <1>5, <1>6, FS_Subset, FS_CardinalityType
<1> QED  BY <1>0, <1>4, <1>7

(* The types, one variable at a time.                                      *)
Stages == {"connect", "take", "deliver", "read", "forward", "clean", "close", "end"}

Types ==
  /\ role \in [Conns -> Roles]
  /\ pc \in [Conns -> Stages]
  /\ listed \in Rooms \cup {0}
  /\ made \in Rooms \cup {0}
  /\ joined \in [Conns -> Rooms \cup {0}]
  /\ slot \in [Rooms -> [Roles -> Conns \cup {Nobody}]]
  /\ ready \in [Rooms -> [Roles -> BOOLEAN]]
  /\ held \in [Rooms -> Seq(Frames)]
  /\ \A r \in Rooms : Len(held[r]) <= HeldLimit + 1
  /\ batch \in [Conns -> Seq(Frames)]
  /\ peer \in [Conns -> Conns \cup {Nobody}]
  /\ partner \in [Conns -> Conns \cup {Nobody}]
  /\ read \in [Conns -> 0..MaxFrames]
  /\ got \in [Conns -> Seq(Frames)]
  /\ closed \subseteq Conns

LEMMA TypesOK == (TypeOK <=> Types) /\ (TypeOK' <=> Types')
  BY DEF TypeOK, Types, Stages

(* What a connection that can still act has, and where.                    *)
LEMMA Names ==
  /\ Conns \subseteq Nat \ {0} /\ Rooms \subseteq Nat \ {0}
  /\ Nobody = 0 /\ Nobody \notin Conns
  /\ \A ro \in Roles : Opposite(ro) \in Roles /\ Opposite(ro) # ro /\ Opposite(Opposite(ro)) = ro
  /\ \A ro, so \in Roles : ro # so => so = Opposite(ro)
  /\ MaxConns \in Nat /\ MaxFrames \in Nat /\ HeldLimit \in Nat
  BY RelayAssumption DEF Conns, Rooms, Nobody, Roles, Opposite

(* Appending to a run, taking from it, and joining two.                    *)
LEMMA RunAppend ==
  ASSUME NEW q \in Seq(Frames), NEW a, NEW m \in Nat, NEW n, IsRun(q, a, m), n = m + Len(q) + 1
  PROVE  IsRun(Append(q, <<a, n>>), a, m) /\ Len(Append(q, <<a, n>>)) = Len(q) + 1
<1> DEFINE f == <<a, n>>
           t == Append(q, f)
<1>1. Len(t) = Len(q) + 1 /\ Len(q) \in Nat
  OBVIOUS
<1>2. \A i \in 1..Len(q) : t[i] = q[i]
  OBVIOUS
<1>3. t[Len(q) + 1] = f
  OBVIOUS
<1>4. ASSUME NEW i \in 1..Len(t) PROVE t[i] = <<a, m + i>>
  <2>1. i \in 1..Len(q) \/ i = Len(q) + 1
    BY <1>1
  <2>2. CASE i \in 1..Len(q)
    BY <2>2, <1>2 DEF IsRun
  <2>3. CASE i = Len(q) + 1
    <3>1. m + i = n
      BY <2>3, <1>1
    <3> QED  BY <2>3, <3>1, <1>3
  <2> QED  BY <2>1, <2>2, <2>3
<1> QED  BY <1>1, <1>4 DEF IsRun

LEMMA RunTail ==
  ASSUME NEW q \in Seq(Frames), NEW a, NEW m \in Nat, IsRun(q, a, m), q # <<>>
  PROVE  /\ Head(q) = <<a, m + 1>>
         /\ IsRun(Tail(q), a, m + 1)
         /\ Len(Tail(q)) = Len(q) - 1
         /\ Len(q) \in Nat /\ Len(q) > 0
  BY DEF IsRun

LEMMA RunEmpty ==
  ASSUME NEW a, NEW m \in Nat
  PROVE  IsRun(<<>>, a, m) /\ Len(<<>>) = 0
  BY DEF IsRun

-----------------------------------------------------------------------------
(* The types. The room a connection joins is there to be made: no more     *)
(* rooms than connections before it. A frame is held only by one that may  *)
(* send, and the list had room.                                            *)
LEMMA InitInv == Init => IInv
<1> SUFFICES ASSUME Init PROVE IInv
  OBVIOUS
<1> USE Names
<1>1. TypeOK
  BY DEF Init, TypeOK
<1>2. RoomInv /\ SlotInv /\ ListedInv /\ FreshInv /\ PairInv /\ LeftInv
  BY DEF Init, RoomInv, SlotInv, ListedInv, FreshInv, PairInv, LeftInv, Member
<1>3. StageInv
  BY DEF Init, StageInv, Member
<1>4. AloneInv
  BY DEF Init, AloneInv, Member
<1>5. StreamInv /\ HeldInv
  BY DEF Init, StreamInv, HeldInv
<1> QED  BY <1>1, <1>2, <1>3, <1>4, <1>5 DEF IInv

LEMMA TypeNext ==
  TypeOK /\ RoomInv /\ StageInv /\ LeftInv /\ PairInv /\ HeldInv /\ [Next]_vars => TypeOK'
<1> SUFFICES ASSUME TypeOK, RoomInv, StageInv, LeftInv, PairInv, HeldInv, [Next]_vars
             PROVE  Types'
  BY TypesOK
<1>0. Types
  BY TypesOK
<1>1. ASSUME NEW c \in Conns, Join(c) PROVE Types'
  <2> DEFINE r == IF listed = 0 THEN made + 1 ELSE listed
  <2>1. r \in Rooms /\ made' \in Rooms \cup {0}
    <3>1. made < c /\ made' = IF listed = 0 THEN r ELSE made
      BY <1>1 DEF Join, RoomInv
    <3>2. listed \in Rooms \cup {0} /\ made \in Rooms \cup {0}
      BY <1>0 DEF Types
    <3>3. made + 1 \in Rooms
      BY <3>1, <3>2, Names DEF Conns, Rooms
    <3> QED  BY <3>1, <3>2, <3>3
  <2>2. pc' \in [Conns -> Stages]
    BY <1>1, <1>0 DEF Join, Types, Goto, Stages
  <2>3. role[c] \in Roles /\ slot[r][Opposite(role[c])] \in Conns \cup {Nobody}
    <3>1. role[c] \in Roles
      BY <1>0 DEF Types
    <3>2. Opposite(role[c]) \in Roles
      BY <3>1, Names
    <3> QED  BY <2>1, <3>1, <3>2, <1>0 DEF Types
  <2>4. slot' \in [Rooms -> [Roles -> Conns \cup {Nobody}]]
    <3>1. slot' = slot \/ slot' = [slot EXCEPT ![r][role[c]] = c]
      BY <1>1 DEF Join
    <3> HIDE DEF r
    <3>2. slot[r] \in [Roles -> Conns \cup {Nobody}]
      BY <2>1, <1>0 DEF Types
    <3>3. [slot[r] EXCEPT ![role[c]] = c] \in [Roles -> Conns \cup {Nobody}]
      BY <3>2, <2>3
    <3> QED  BY <3>1, <3>3, <2>1, <1>0 DEF Types
  <2>5. partner' \in [Conns -> Conns \cup {Nobody}]
    BY <1>1, <2>1, <2>3, <1>0 DEF Join, Types
  <2>6. joined' \in [Conns -> Rooms \cup {0}] /\ listed' \in Rooms
    BY <1>1, <2>1, <1>0 DEF Join, Types
  <2>7. closed' \subseteq Conns
    BY <1>1, <1>0 DEF Join, Types
  <2>8. UNCHANGED <<role, ready, held, batch, peer, read, got>>
    BY <1>1 DEF Join
  <2> QED  BY <2>1, <2>2, <2>4, <2>5, <2>6, <2>7, <2>8, <1>0 DEF Types
<1>2. ASSUME NEW c \in Conns, TakeHeld(c) PROVE Types'
  <2>1. joined[c] \in Rooms /\ role[c] \in Roles
    BY <1>2, <1>0 DEF TakeHeld, Types, RoomInv
  <2>2. held' \in [Rooms -> Seq(Frames)] /\ batch' \in [Conns -> Seq(Frames)]
    <3>1. held' = [held EXCEPT ![joined[c]] = <<>>] /\ batch' = [batch EXCEPT ![c] = held[joined[c]]]
      BY <1>2 DEF TakeHeld
    <3>2. <<>> \in Seq(Frames)
      OBVIOUS
    <3> QED  BY <3>1, <3>2, <2>1, <1>0, Zenon DEF Types
  <2>3. \A r \in Rooms : Len(held'[r]) <= HeldLimit + 1
    <3>1. held' = [held EXCEPT ![joined[c]] = <<>>]
      BY <1>2 DEF TakeHeld
    <3> QED  BY <3>1, RunEmpty, <2>1, <1>0, Names DEF Types
  <2>4. ready' \in [Rooms -> [Roles -> BOOLEAN]]
    <3> DEFINE x == ready[joined[c]][role[c]] \/ held[joined[c]] = <<>>
    <3>1. x \in BOOLEAN
      OBVIOUS
    <3>2. ready' = [ready EXCEPT ![joined[c]][role[c]] = x]
      BY <1>2, <2>1, <1>0 DEF TakeHeld, Types
    <3> HIDE DEF x
    <3> QED  BY <3>1, <3>2, <2>1, <1>0 DEF Types
  <2>5. pc' \in [Conns -> Stages]
    BY <1>2, <1>0 DEF TakeHeld, Types, Goto, Stages
  <2>6. UNCHANGED <<role, listed, made, joined, slot, peer, read, got, closed, partner>>
    BY <1>2 DEF TakeHeld
  <2> QED  BY <2>2, <2>3, <2>4, <2>5, <2>6, <1>0 DEF Types
<1>3. ASSUME NEW c \in Conns, Deliver(c) PROVE Types'
  <2>1. batch[c] \in Seq(Frames) /\ batch[c] # <<>> /\ got[c] \in Seq(Frames)
    BY <1>3, <1>0 DEF Deliver, Types, StageInv
  <2>2. Head(batch[c]) \in Frames /\ Tail(batch[c]) \in Seq(Frames)
    BY <2>1
  <2>3. got' \in [Conns -> Seq(Frames)] /\ batch' \in [Conns -> Seq(Frames)]
    <3>1. Append(got[c], Head(batch[c])) \in Seq(Frames)
      BY <2>1, <2>2
    <3>2. \/ UNCHANGED <<got, batch>>
          \/ /\ got' = [got EXCEPT ![c] = Append(got[c], Head(batch[c]))]
             /\ batch' = [batch EXCEPT ![c] = Tail(batch[c])]
      BY <1>3, <1>0 DEF Deliver, Write, Types
    <3> DEFINE more == Append(got[c], Head(batch[c]))
               rest == Tail(batch[c])
    <3>3. more \in Seq(Frames) /\ rest \in Seq(Frames)
      BY <3>1, <2>2
    <3>4. got' = got \/ got' = [got EXCEPT ![c] = more]
      BY <3>2
    <3>5. batch' = batch \/ batch' = [batch EXCEPT ![c] = rest]
      BY <3>2
    <3> HIDE DEF more, rest
    <3>6. got \in [Conns -> Seq(Frames)] /\ batch \in [Conns -> Seq(Frames)]
      BY <1>0 DEF Types
    <3>7. got' \in [Conns -> Seq(Frames)]
      BY <3>3, <3>4, <3>6
    <3>8. batch' \in [Conns -> Seq(Frames)]
      BY <3>3, <3>5, <3>6
    <3> QED  BY <3>7, <3>8
  <2>4. pc' \in [Conns -> Stages]
    BY <1>3, <1>0 DEF Deliver, Types, Goto, Stages
  <2>5. UNCHANGED <<role, listed, made, joined, slot, ready, held, peer, read, closed, partner>>
    BY <1>3 DEF Deliver
  <2> QED  BY <2>3, <2>4, <2>5, <1>0 DEF Types
<1>4. ASSUME NEW c \in Conns, ReadFrame(c) PROVE Types'
  <2> DEFINE r == joined[c]
             to == Opposite(role[c])
  <2>1. r \in Rooms /\ role[c] \in Roles /\ to \in Roles /\ pc[c] = "read"
    BY <1>4, <1>0, Names DEF ReadFrame, Types, RoomInv
  <2>2. read[c] + 1 \in 1..MaxFrames
    BY <1>4, MoreToRead, <1>0 DEF ReadFrame, Types
  <2>3. read' \in [Conns -> 0..MaxFrames] /\ read'[c] = read[c] + 1
    BY <1>4, <2>2, <1>0 DEF ReadFrame, Types
  <2>4. <<c, read'[c]>> \in Frames
    BY <2>2, <2>3 DEF Frames
  <2>5. held[r] \in Seq(Frames) /\ Len(held[r]) <= HeldLimit
    BY <2>1, <1>0 DEF Types, HeldInv
  <2>6. Append(held[r], <<c, read'[c]>>) \in Seq(Frames)
    BY <2>4, <2>5
  <2>7. Len(Append(held[r], <<c, read'[c]>>)) <= HeldLimit + 1
    BY <2>4, <2>5, Names
  <2>8. held' \in [Rooms -> Seq(Frames)] /\ \A s \in Rooms : Len(held'[s]) <= HeldLimit + 1
    <3>1. held' = held \/ held' = [held EXCEPT ![r] = Append(held[r], <<c, read'[c]>>)]
      BY <1>4, <1>0 DEF ReadFrame, Types
    <3> HIDE DEF r, to
    <3> QED  BY <3>1, <2>1, <2>6, <2>7, <1>0 DEF Types
  <2>9. slot[r][to] \in Conns \cup {Nobody}
    BY <2>1, <1>0 DEF Types
  <2>10. peer' \in [Conns -> Conns \cup {Nobody}]
    BY <1>4, <2>9, <1>0 DEF ReadFrame, Types
  <2>11. pc' \in [Conns -> Stages]
    BY <1>4, <1>0 DEF ReadFrame, Types, Goto, Stages
  <2>12. closed' \subseteq Conns
    BY <1>4, <1>0 DEF ReadFrame, Types
  <2>13. UNCHANGED <<role, listed, made, joined, slot, ready, batch, got, partner>>
    BY <1>4 DEF ReadFrame
  <2> QED  BY <2>3, <2>8, <2>10, <2>11, <2>12, <2>13, <1>0 DEF Types
<1>5. ASSUME NEW c \in Conns, Forward(c) PROVE Types'
  <2>1. peer' \in [Conns -> Conns \cup {Nobody}]
    BY <1>5, <1>0 DEF Forward, Types
  <2>2. <<c, read[c]>> \in Frames
    <3>1. read[c] \in 0..MaxFrames /\ read[c] # 0
      BY <1>5, <1>0 DEF Types, Forward, StageInv
    <3>2. read[c] \in 1..MaxFrames
      BY <3>1, Names
    <3> QED  BY <3>2 DEF Frames
  <2>3. got' \in [Conns -> Seq(Frames)]
    <3>1. got' = got \/ got' = [got EXCEPT ![peer[c]] = Append(@, <<c, read[c]>>)]
      BY <1>5 DEF Forward, Write
    <3>2. ASSUME peer[c] \in Conns PROVE Append(got[peer[c]], <<c, read[c]>>) \in Seq(Frames)
      <4>1. got[peer[c]] \in Seq(Frames)
        BY <3>2, <1>0 DEF Types
      <4> QED  BY <4>1, <2>2
    <3> QED  BY <3>1, <3>2, <1>0 DEF Types
  <2> QED  BY <1>5, <2>1, <2>3, <1>0 DEF Forward, Types, Goto, Stages
<1>6. ASSUME NEW c \in Conns, ReadFails(c) \/ ClientLeaves(c) PROVE Types'
  BY <1>6, <1>0 DEF ReadFails, ClientLeaves, Types, Goto, Stages
<1>7. ASSUME NEW c \in Conns, CleanUp(c) PROVE Types'
  <2>1. joined[c] \in Rooms /\ role[c] \in Roles
    BY <1>7, <1>0 DEF CleanUp, Types, RoomInv
  <2>2. peer' \in [Conns -> Conns \cup {Nobody}]
    <3>1. Opposite(role[c]) \in Roles
      BY <2>1, Names
    <3> QED  BY <1>7, <2>1, <3>1, <1>0 DEF CleanUp, Types
  <2>3. slot' \in [Rooms -> [Roles -> Conns \cup {Nobody}]]
    BY <1>7, <2>1, <1>0 DEF CleanUp, Types
  <2>4. ready' \in [Rooms -> [Roles -> BOOLEAN]]
    BY <1>7, <2>1, <1>0 DEF CleanUp, Types
  <2>5. held' \in [Rooms -> Seq(Frames)] /\ \A r \in Rooms : Len(held'[r]) <= HeldLimit + 1
    <3>1. held' = [held EXCEPT ![joined[c]] = <<>>]
      BY <1>7 DEF CleanUp
    <3>2. <<>> \in Seq(Frames) /\ Len(<<>>) = 0
      OBVIOUS
    <3>3. held' \in [Rooms -> Seq(Frames)]
      BY <3>1, <3>2, <2>1, <1>0, Zenon DEF Types
    <3>4. ASSUME NEW r \in Rooms PROVE Len(held'[r]) <= HeldLimit + 1
      BY <3>1, <3>2, <2>1, <1>0, Names DEF Types
    <3> QED  BY <3>3, <3>4
  <2>6. listed' \in Rooms \cup {0}
    BY <1>7, <1>0 DEF CleanUp, Types
  <2>7. pc' \in [Conns -> Stages]
    BY <1>7, <1>0 DEF CleanUp, Types, Goto, Stages
  <2>8. UNCHANGED <<role, made, joined, batch, read, got, closed, partner>>
    BY <1>7 DEF CleanUp
  <2> QED  BY <2>2, <2>3, <2>4, <2>5, <2>6, <2>7, <2>8, <1>0 DEF Types
<1>8. ASSUME NEW c \in Conns, CloseBoth(c) PROVE Types'
  BY <1>8, <1>0 DEF CloseBoth, Types, Goto, Stages
<1>9. CASE Expire
  BY <1>9, <1>0 DEF Expire, Types
<1>10. CASE UNCHANGED vars
  BY <1>10, <1>0 DEF vars, Types
<1> QED  BY <1>1, <1>2, <1>3, <1>4, <1>5, <1>6, <1>7, <1>8, <1>9, <1>10 DEF Next, Step

-----------------------------------------------------------------------------
(* Rooms, slots and partners. Most steps leave them alone and keep the     *)
(* connection between joining and closing.                                 *)
Working == {"take", "deliver", "read", "forward", "clean"}

Works(c) ==
  /\ pc[c] \in Working
  /\ pc' = pc \/ \E x \in Working : pc' = [pc EXCEPT ![c] = x]
  /\ UNCHANGED <<role, listed, made, joined, slot, partner>>

LEMMA NextCases ==
  [Next]_vars =>
    \/ \E c \in Conns : Join(c) \/ CleanUp(c) \/ CloseBoth(c) \/ Works(c)
    \/ Expire
    \/ UNCHANGED vars
<1> SUFFICES ASSUME NEW c \in Conns,
                    TakeHeld(c) \/ Deliver(c) \/ ReadFrame(c) \/ Forward(c) \/ ReadFails(c) \/ ClientLeaves(c)
             PROVE  Works(c)
  BY DEF Next, Step
<1>1. CASE TakeHeld(c)
  BY <1>1 DEF TakeHeld, Works, Working, Goto
<1>2. CASE Deliver(c)
  BY <1>2 DEF Deliver, Works, Working, Goto
<1>3. CASE ReadFrame(c)
  BY <1>3 DEF ReadFrame, Works, Working, Goto
<1>4. CASE Forward(c)
  BY <1>4 DEF Forward, Works, Working, Goto
<1>5. CASE ReadFails(c) \/ ClientLeaves(c)
  BY <1>5 DEF ReadFails, ClientLeaves, Works, Working, Goto
<1> QED  BY <1>1, <1>2, <1>3, <1>4, <1>5

(* A slot is empty or holds its connection.                                *)
LEMMA Slots ==
  ASSUME Types, NEW r \in Rooms, NEW ro \in Roles
  PROVE  slot[r][ro] \in Conns \cup {Nobody}
  BY DEF Types

LEMMA Working1 ==
  ASSUME Types, NEW c \in Conns, Works(c)
  PROVE  /\ \A d \in Conns : d # c => pc'[d] = pc[d]
         /\ pc[c] \in Working /\ pc'[c] \in Working
         /\ \A d \in Conns : Member(d)' <=> Member(d)
         /\ \A d \in Conns : Here(d)' <=> Here(d)
         /\ UNCHANGED <<role, listed, made, joined, slot, partner>>
  BY DEF Works, Types, Member, Here, Working

(* How a connection that joins finds the room, and leaves it.              *)
LEMMA Joining ==
  ASSUME Types, RoomInv, NEW c \in Conns, Join(c)
  PROVE  /\ pc[c] = "connect" /\ pc'[c] \in {"take", "end"}
         /\ \A d \in Conns : d # c => pc'[d] = pc[d] /\ joined'[d] = joined[d]
         /\ \A d \in Conns : pc'[d] = "connect" => d > c
         /\ joined'[c] = listed' /\ listed' \in Rooms
         /\ \/ listed = 0 /\ made' = made + 1 /\ listed' = made'
            \/ listed # 0 /\ made' = made /\ listed' = listed
         /\ role' = role /\ role[c] \in Roles /\ Opposite(role[c]) \in Roles
  <1>0. c \in Nat /\ \A d \in Conns : d \in Nat /\ d # 0 /\ (d < c => d \in 1..c - 1)
    BY Names
  <1>1. pc[c] = "connect" /\ \A d \in Conns : d # c => pc'[d] = pc[d] /\ joined'[d] = joined[d]
    BY DEF Join, Goto, Types
  <1>2. pc'[c] \in {"take", "end"} /\ joined'[c] = listed'
    BY DEF Join, Goto, Types
  <1>3. ASSUME NEW d \in Conns, pc'[d] = "connect" PROVE d > c
    <2>1. d # c /\ pc[d] = "connect"
      BY <1>1, <1>2, <1>3
    <2>2. ~(d < c)
      BY <2>1, <1>0 DEF Join
    <2> QED  BY <2>1, <2>2, <1>0
  <1>4. listed' \in Rooms
    BY Names DEF Join, Types, RoomInv, Rooms, Conns
  <1>5. /\ role' = role /\ role[c] \in Roles /\ Opposite(role[c]) \in Roles
        /\ \/ listed = 0 /\ made' = made + 1 /\ listed' = made'
           \/ listed # 0 /\ made' = made /\ listed' = listed
    BY Names DEF Join, Types
  <1> QED  BY <1>1, <1>2, <1>3, <1>4, <1>5

(* How a connection that cleans up leaves its room.                        *)
LEMMA Cleaning ==
  ASSUME Types, RoomInv, NEW c \in Conns, CleanUp(c)
  PROVE  /\ pc[c] = "clean" /\ pc'[c] = "close"
         /\ \A d \in Conns : d # c => pc'[d] = pc[d]
         /\ UNCHANGED <<role, made, joined, partner>>
         /\ joined[c] \in Rooms
         /\ \A s \in Rooms : s # joined[c] => slot'[s] = slot[s]
         /\ listed' \in {0, listed}
         /\ listed' = 0 \/ \E ro \in Roles : slot'[joined[c]][ro] # Nobody
         /\ \/ Here(c) /\ \A ro \in Roles : slot'[joined[c]][ro] = Nobody
            \/ ~Here(c) /\ slot' = slot
<1> DEFINE r == joined[c]
           after == IF Here(c) THEN [ro \in Roles |-> Nobody] ELSE slot[r]
<1>1. /\ pc[c] = "clean" /\ pc'[c] = "close"
      /\ \A d \in Conns : d # c => pc'[d] = pc[d]
      /\ UNCHANGED <<role, made, joined, partner>>
  BY DEF CleanUp, Types, Goto
<1>2. r \in Rooms
  BY <1>1 DEF Types, RoomInv
<1>3. /\ slot' = [slot EXCEPT ![r] = after]
      /\ listed' = IF \A ro \in Roles : after[ro] = Nobody THEN 0 ELSE listed
  BY DEF CleanUp, Here
<1>4. slot'[r] = after /\ \A s \in Rooms : s # r => slot'[s] = slot[s]
  BY <1>2, <1>3 DEF Types
<1>5. ~Here(c) => slot' = slot
  BY <1>2, <1>3 DEF Types
<1> QED  BY <1>1, <1>2, <1>3, <1>4, <1>5

LEMMA RoomNext ==
  Types /\ RoomInv /\ [Next]_vars => RoomInv'
<1> SUFFICES ASSUME Types, RoomInv, [Next]_vars PROVE RoomInv'
  OBVIOUS
<1>0. listed \in Nat /\ made \in Nat /\ \A c \in Conns : joined[c] \in Nat /\ c \in Nat
  <2>1. Rooms \cup {0} \subseteq Nat /\ Conns \subseteq Nat
    BY Names
  <2> QED  BY <2>1 DEF Types
<1>1. ASSUME NEW c \in Conns, Join(c) PROVE RoomInv'
  <2>1. made' \in Nat /\ made <= made' /\ listed' <= made'
    BY <1>0, <1>1, Joining DEF RoomInv
  <2>2. ASSUME NEW d \in Conns, pc'[d] = "connect" PROVE made' < d /\ joined'[d] = 0
    <3>1. d > c /\ d # c /\ pc[d] = "connect"
      BY <2>2, <1>1, <1>0, Joining
    <3>2. made < c
      BY <1>1, Joining DEF RoomInv
    <3>3. made' <= made + 1
      BY <1>0, <1>1, Joining
    <3> QED  BY <3>1, <3>2, <3>3, <1>0, <1>1, <2>1, Joining DEF RoomInv
  <2>3. ASSUME NEW d \in Conns PROVE joined'[d] <= made' /\ (pc'[d] # "connect" => joined'[d] # 0)
    <3>1. CASE d = c
      BY <3>1, <1>1, <2>1, Joining, Names
    <3>2. CASE d # c
      <4>1. joined'[d] = joined[d] /\ pc'[d] = pc[d]
        BY <3>2, <1>1, Joining
      <4> QED  BY <4>1, <1>0, <2>1 DEF RoomInv
    <3> QED  BY <3>1, <3>2
  <2>4. \E ro \in Roles : slot'[listed'][ro] # Nobody
    <3>0. listed' \in Rooms /\ role[c] \in Roles
      BY <1>1, Joining
    <3>1. CASE slot'[listed'][role[c]] = c
      BY <3>0, <3>1, Names
    <3>2. CASE slot' = slot /\ slot[listed'][role[c]] # Nobody
      BY <3>0, <3>2
    <3>3. \/ slot' = [slot EXCEPT ![listed'][role[c]] = c]
          \/ slot' = slot /\ slot[listed'][role[c]] # Nobody
      BY <1>1 DEF Join
    <3>4. slot' = [slot EXCEPT ![listed'][role[c]] = c] => slot'[listed'][role[c]] = c
      BY <3>0 DEF Types
    <3> QED  BY <3>1, <3>2, <3>3, <3>4
  <2> QED  BY <2>1, <2>2, <2>3, <2>4 DEF RoomInv
<1>2. ASSUME NEW c \in Conns, CleanUp(c) PROVE RoomInv'
  <2> DEFINE r == joined[c]
  <2>1. \A d \in Conns : pc'[d] = "connect" <=> pc[d] = "connect"
    BY <1>2, Cleaning
  <2>2. UNCHANGED <<made, joined>> /\ listed' \in {0, listed}
    BY <1>2, Cleaning
  <2>3. listed' # 0 => \E ro \in Roles : slot'[listed'][ro] # Nobody
    <3>1. CASE listed = r
      BY <3>1, <1>2, Cleaning
    <3>2. listed # r /\ listed # 0 => slot'[listed] = slot[listed]
      BY <1>2, Cleaning DEF Types
    <3> QED  BY <3>1, <3>2, <2>2 DEF RoomInv
  <2> QED  BY <2>1, <2>2, <2>3, <1>0 DEF RoomInv
<1>3. ASSUME NEW c \in Conns, CloseBoth(c) PROVE RoomInv'
  <2>1. \A d \in Conns : pc'[d] = "connect" <=> pc[d] = "connect"
    BY <1>3 DEF CloseBoth, Goto, Types
  <2> QED  BY <1>3, <2>1 DEF CloseBoth, RoomInv
<1>4. ASSUME NEW c \in Conns, Works(c) PROVE RoomInv'
  <2>1. \A d \in Conns : pc'[d] = "connect" <=> pc[d] = "connect"
    BY <1>4 DEF Works, Working, Types
  <2> QED  BY <1>4, <2>1 DEF Works, RoomInv
<1>5. CASE Expire
  BY <1>5, <1>0 DEF Expire, RoomInv
<1>6. CASE UNCHANGED vars
  BY <1>6 DEF vars, RoomInv
<1> QED  BY <1>1, <1>2, <1>3, <1>4, <1>5, <1>6, NextCases

(* A connection that joins takes an empty slot, and no other changes.      *)
LEMMA JoinSlot ==
  ASSUME Types, RoomInv, NEW c \in Conns, Join(c)
  PROVE  /\ \A s \in Rooms, so \in Roles :
              ~(s = listed' /\ so = role[c]) => slot'[s][so] = slot[s][so]
         /\ \/ /\ pc'[c] = "take"
               /\ slot[listed'][role[c]] = Nobody /\ slot'[listed'][role[c]] = c
            \/ /\ pc'[c] = "end" /\ partner' = partner /\ slot' = slot
               /\ slot[listed'][role[c]] # Nobody
<1>0. listed' \in Rooms /\ role[c] \in Roles /\ slot[listed'] \in [Roles -> Conns \cup {Nobody}]
  BY Joining DEF Types
<1>1. CASE /\ slot[listed'][role[c]] = Nobody /\ pc'[c] = "take"
           /\ slot' = [slot EXCEPT ![listed'][role[c]] = c]
  <2>1. slot'[listed'] = [slot[listed'] EXCEPT ![role[c]] = c]
    BY <1>0, <1>1 DEF Types
  <2>2. \A s \in Rooms : s # listed' => slot'[s] = slot[s]
    BY <1>0, <1>1 DEF Types
  <2> QED  BY <1>0, <1>1, <2>1, <2>2
<1>2. CASE /\ slot[listed'][role[c]] # Nobody /\ pc'[c] = "end"
           /\ slot' = slot /\ partner' = partner
  BY <1>2
<1> QED  BY <1>1, <1>2 DEF Join, Goto, Types

LEMMA SlotNext ==
  Types /\ RoomInv /\ SlotInv /\ [Next]_vars => SlotInv'
<1> SUFFICES ASSUME Types, RoomInv, SlotInv, [Next]_vars,
                    NEW s \in Rooms, NEW so \in Roles, slot'[s][so] # Nobody
             PROVE  /\ pc'[slot'[s][so]] \notin {"connect", "close", "end"}
                    /\ joined'[slot'[s][so]] = s
                    /\ role'[slot'[s][so]] = so
  BY DEF SlotInv
<1> DEFINE d == slot[s][so]
<1>0. d # Nobody => /\ d \in Conns /\ pc[d] \notin {"connect", "close", "end"}
                    /\ joined[d] = s /\ role[d] = so
  BY Slots DEF SlotInv
<1>1. ASSUME NEW c \in Conns, Join(c)
      PROVE  /\ pc'[slot'[s][so]] \notin {"connect", "close", "end"}
             /\ joined'[slot'[s][so]] = s
             /\ role'[slot'[s][so]] = so
  <2>1. \/ slot'[s][so] = d
        \/ slot'[s][so] = c /\ pc'[c] = "take" /\ s = listed' /\ so = role[c]
    <3>1. CASE s = listed' /\ so = role[c]
      <4>1. slot' = slot \/ (slot'[s][so] = c /\ pc'[c] = "take")
        BY <3>1, <1>1, JoinSlot
      <4> QED  BY <3>1, <4>1
    <3>2. CASE ~(s = listed' /\ so = role[c])
      BY <3>2, <1>1, JoinSlot
    <3> QED  BY <3>1, <3>2
  <2>2. CASE slot'[s][so] = d
    <3>1. d # c
      BY <2>2, <1>0, <1>1, Joining
    <3> QED  BY <3>1, <2>2, <1>0, <1>1, Joining
  <2>3. CASE slot'[s][so] = c /\ pc'[c] = "take" /\ s = listed' /\ so = role[c]
    BY <2>3, <1>1, Joining
  <2> QED  BY <2>1, <2>2, <2>3
<1>2. ASSUME NEW c \in Conns, CleanUp(c)
      PROVE  /\ pc'[slot'[s][so]] \notin {"connect", "close", "end"}
             /\ joined'[slot'[s][so]] = s
             /\ role'[slot'[s][so]] = so
  <2>1. slot'[s][so] = d
    BY <1>2, Cleaning
  <2>2. d # c
    BY <2>1, <1>0, <1>2, Cleaning DEF Here
  <2> QED  BY <2>1, <2>2, <1>0, <1>2, Cleaning
<1>3. ASSUME NEW c \in Conns, CloseBoth(c)
      PROVE  /\ pc'[slot'[s][so]] \notin {"connect", "close", "end"}
             /\ joined'[slot'[s][so]] = s
             /\ role'[slot'[s][so]] = so
  BY <1>0, <1>3 DEF CloseBoth, Types, Goto
<1>4. ASSUME NEW c \in Conns, Works(c)
      PROVE  /\ pc'[slot'[s][so]] \notin {"connect", "close", "end"}
             /\ joined'[slot'[s][so]] = s
             /\ role'[slot'[s][so]] = so
  BY <1>0, <1>4, Working1 DEF Working
<1>5. CASE Expire
  BY <1>0, <1>5 DEF Expire
<1>6. CASE UNCHANGED vars
  BY <1>0, <1>6 DEF vars
<1> QED  BY <1>1, <1>2, <1>3, <1>4, <1>5, <1>6, NextCases

LEMMA ListedNext ==
  Types /\ RoomInv /\ SlotInv /\ ListedInv /\ [Next]_vars => ListedInv'
<1> SUFFICES ASSUME Types, RoomInv, SlotInv, ListedInv, [Next]_vars,
                    NEW d \in Conns, Member(d)', joined'[d] = listed'
             PROVE  slot'[joined'[d]][role'[d]] = d
  BY DEF ListedInv, Here
<1>0. role[d] \in Roles /\ d # Nobody /\ (Member(d) => joined[d] \in Rooms)
  BY Names DEF Types, RoomInv, Member
<1>1. ASSUME NEW c \in Conns, Join(c) PROVE slot'[joined'[d]][role'[d]] = d
  <2>1. CASE d = c
    BY <2>1, <1>1, Joining, JoinSlot DEF Member
  <2>2. CASE d # c
    <3>1. Member(d) /\ joined[d] = listed' /\ joined'[d] = joined[d] /\ role' = role
      BY <2>2, <1>1, Joining DEF Member
    <3>2. listed' = listed
      <4>1. joined[d] <= made /\ made \in Nat
        BY Names DEF RoomInv, Types
      <4> QED  BY <4>1, <3>1, <1>1, Joining
    <3>3. slot[joined[d]][role[d]] = d
      BY <3>1, <3>2 DEF ListedInv, Here
    <3> QED  BY <3>1, <3>3, <1>0, <1>1, JoinSlot
  <2> QED  BY <2>1, <2>2
<1>2. ASSUME NEW c \in Conns, CleanUp(c) PROVE slot'[joined'[d]][role'[d]] = d
  <2>1. Member(d) /\ joined'[d] = joined[d] /\ role' = role
    BY <1>2, Cleaning DEF Member
  <2>2. joined[d] = listed /\ listed' = listed
    BY <2>1, <1>0, <1>2, Cleaning, Names
  <2>3. slot[joined[d]][role[d]] = d
    BY <2>1, <2>2 DEF ListedInv, Here
  <2>4. slot'[joined[d]] = slot[joined[d]]
    <3>1. CASE joined[c] = listed
      <4>1. Here(c)
        BY <3>1, <1>2, Cleaning DEF ListedInv, Member
      <4> QED  BY <4>1, <3>1, <2>2, <1>2, <1>0, <2>1, Cleaning, Names
    <3>2. CASE joined[c] # listed
      BY <3>2, <2>1, <2>2, <1>0, <1>2, Cleaning
    <3> QED  BY <3>1, <3>2
  <2> QED  BY <2>1, <2>3, <2>4
<1>3. ASSUME NEW c \in Conns, CloseBoth(c) PROVE slot'[joined'[d]][role'[d]] = d
  BY <1>3 DEF CloseBoth, Types, Goto, Member, ListedInv, Here
<1>4. ASSUME NEW c \in Conns, Works(c) PROVE slot'[joined'[d]][role'[d]] = d
  BY <1>4, Working1 DEF ListedInv, Here
<1>5. CASE Expire
  <2>1. Member(d) /\ joined[d] = 0
    BY <1>5 DEF Expire, Member
  <2> QED  BY <2>1, <1>0, Names
<1>6. CASE UNCHANGED vars
  BY <1>6 DEF vars, ListedInv, Here, Member
<1> QED  BY <1>1, <1>2, <1>3, <1>4, <1>5, <1>6, NextCases

(* Two members of one room, and whom a member finds in the opposite slot.  *)
LEMMA Opposed ==
  ASSUME Types, RoomInv, SlotInv, PairInv, LeftInv, NEW c \in Conns, Member(c),
         slot[joined[c]][Opposite(role[c])] # Nobody
  PROVE  /\ joined[c] \in Rooms
         /\ slot[joined[c]][Opposite(role[c])] = partner[c]
         /\ partner[c] \in Conns /\ partner[partner[c]] = c /\ partner[c] # c
         /\ Member(partner[c]) /\ pc[partner[c]] # "close"
         /\ joined[partner[c]] = joined[c]
         /\ role[partner[c]] = Opposite(role[c])
         /\ Here(partner[c]) /\ Here(c)
<1> DEFINE d == slot[joined[c]][Opposite(role[c])]
<1>1. joined[c] \in Rooms /\ role[c] \in Roles /\ Opposite(role[c]) \in Roles /\ Opposite(role[c]) # role[c]
  <2>1. role[c] \in Roles /\ joined[c] \in Rooms
    BY DEF Types, RoomInv, Member
  <2> QED  BY <2>1, Names
<1>2. d \in Conns
  BY <1>1, Slots
<1>3. Member(d) /\ pc[d] # "close" /\ joined[d] = joined[c] /\ role[d] = Opposite(role[c])
  BY <1>1, <1>2 DEF SlotInv, Member
<1>4. partner[c] = d /\ partner[d] = c /\ c # d
  BY <1>1, <1>2, <1>3 DEF PairInv
<1>5. Here(d)
  BY <1>3 DEF Here
<1>6. Here(c)
  BY <1>2, <1>3, <1>4, <1>5, Names DEF LeftInv
<1> QED  BY <1>1, <1>2, <1>3, <1>4, <1>5, <1>6

(* Whom a connection that joins meets: one that is alone in the room.      *)
LEMMA Meeting ==
  ASSUME Types, RoomInv, SlotInv, ListedInv, PairInv, LeftInv,
         NEW c \in Conns, Join(c), pc'[c] = "take",
         NEW other, other = slot[listed'][Opposite(role[c])]
  PROVE  /\ partner[c] = Nobody
         /\ \A d \in Conns : partner[d] # c
         /\ other = Nobody => partner' = partner
         /\ other # Nobody =>
              /\ other \in Conns /\ other # c
              /\ Member(other) /\ joined[other] = listed' /\ role[other] = Opposite(role[c])
              /\ Here(other) /\ pc[other] # "close"
              /\ partner[other] = Nobody
              /\ \A d \in Conns : partner[d] # other
              /\ partner' = [partner EXCEPT ![c] = other, ![other] = c]
         /\ \A d \in Conns : Member(d) /\ joined[d] = listed' => d = other
<1>0. /\ pc[c] = "connect" /\ listed' \in Rooms /\ role[c] \in Roles
      /\ Opposite(role[c]) \in Roles /\ Opposite(role[c]) # role[c]
      /\ slot[listed'][role[c]] = Nobody /\ c # Nobody
  BY Joining, JoinSlot, Names
<1>1. partner[c] = Nobody /\ \A d \in Conns : partner[d] # c
  <2>1. partner[c] = Nobody
    BY <1>0 DEF PairInv
  <2>2. ASSUME NEW d \in Conns, partner[d] = c PROVE FALSE
    BY <2>1, <2>2, <1>0, Names DEF PairInv
  <2> QED  BY <2>1, <2>2
<1>2. /\ other = Nobody => partner' = partner
      /\ other # Nobody => partner' = [partner EXCEPT ![c] = other, ![other] = c]
  BY <1>0 DEF Join
<1>3. ASSUME other # Nobody
      PROVE  /\ other \in Conns /\ other # c
             /\ Member(other) /\ joined[other] = listed' /\ role[other] = Opposite(role[c])
             /\ Here(other) /\ pc[other] # "close"
             /\ partner[other] = Nobody
             /\ \A d \in Conns : partner[d] # other
  <2>1. other \in Conns
    BY <1>0, <1>3, Slots
  <2>2. /\ Member(other) /\ joined[other] = listed' /\ role[other] = Opposite(role[c])
        /\ pc[other] # "close"
    BY <1>0, <1>3 DEF SlotInv, Member
  <2>3. Here(other) /\ other # c
    BY <2>2, <1>0 DEF Here, Member
  <2>4. ASSUME partner[other] # Nobody PROVE FALSE
    <3>1. partner[other] \in Conns
      BY <2>1, <2>4 DEF Types
    <3>2. Here(partner[other]) /\ joined[partner[other]] = listed' /\ role[partner[other]] = role[c]
      BY <2>1, <2>2, <2>3, <2>4, <1>0, Names DEF LeftInv, PairInv
    <3> QED  BY <3>1, <3>2, <1>0, Names DEF Here
  <2>5. ASSUME NEW d \in Conns, partner[d] = other PROVE FALSE
    BY <2>1, <2>4, <2>5, <1>3, Names DEF PairInv
  <2> QED  BY <2>1, <2>2, <2>3, <2>4, <2>5
<1>4. ASSUME NEW d \in Conns, Member(d), joined[d] = listed' PROVE d = other
  <2>1. listed' = listed
    <3>1. joined[d] <= made /\ made \in Nat
      BY Names DEF RoomInv, Types
    <3> QED  BY <3>1, <1>4, Joining
  <2>2. slot[listed'][role[d]] = d /\ role[d] \in Roles /\ d # Nobody
    BY <2>1, <1>4, Names DEF ListedInv, Here, Types
  <2>3. role[d] = Opposite(role[c])
    BY <2>2, <1>0, Names
  <2> QED  BY <2>2, <2>3
<1> QED  BY <1>1, <1>2, <1>3, <1>4

(* Whoever has its slot is a member.                                       *)
LEMMA HereMember ==
  ASSUME Types, SlotInv, RoomInv, PairInv, NEW d \in Conns, Member(d), Here(d), partner[d] # Nobody,
         Here(partner[d])
  PROVE  Member(partner[d])
<1>1. partner[d] \in Conns /\ joined[partner[d]] = joined[d] /\ joined[d] \in Rooms
  BY DEF Types, PairInv, RoomInv, Member
<1>2. role[partner[d]] \in Roles /\ partner[d] # Nobody
  BY <1>1 DEF Types
<1> QED  BY <1>1, <1>2 DEF Here, SlotInv, Member

LEMMA PairNext ==
  Types /\ RoomInv /\ SlotInv /\ ListedInv /\ PairInv /\ LeftInv /\ [Next]_vars => PairInv'
<1> SUFFICES ASSUME Types, RoomInv, SlotInv, ListedInv, PairInv, LeftInv, [Next]_vars
             PROVE  PairInv'
  OBVIOUS
<1>0. \A d \in Conns : partner[d] \in Conns \cup {Nobody} /\ d # Nobody
  BY Names DEF Types
<1>1. ASSUME NEW c \in Conns, Join(c) PROVE PairInv'
  <2>1. CASE pc'[c] = "end"
    <3>1. partner' = partner /\ role' = role /\ pc[c] = "connect"
      BY <2>1, <1>1, Joining, JoinSlot
    <3>2. \A d \in Conns : partner[d] # c
      BY <1>0, <3>1 DEF PairInv
    <3>3. \A d \in Conns : partner[d] # Nobody => d # c /\ partner[d] \in Conns
      BY <1>0, <3>1 DEF PairInv
    <3>4. \A d \in Conns : Member(d)' => d # c /\ Member(d)
      BY <2>1, <1>1, Joining DEF Member
    <3> QED  BY <3>1, <3>2, <3>3, <3>4, <1>1, Joining DEF PairInv
  <2>2. CASE pc'[c] = "take"
    <3> DEFINE other == slot[listed'][Opposite(role[c])]
    <3>0. /\ \A d \in Conns : d # c => pc'[d] = pc[d] /\ joined'[d] = joined[d]
          /\ joined'[c] = listed' /\ role' = role /\ pc[c] = "connect"
          /\ role[c] \in Roles
      BY <1>1, Joining
    <3>1. /\ partner[c] = Nobody /\ \A d \in Conns : partner[d] # c
          /\ \A d \in Conns : Member(d) /\ joined[d] = listed' => d = other
      BY <1>1, <2>2, Meeting
    <3>2. CASE other = Nobody
      <4>1. partner' = partner
        BY <1>1, <2>2, <3>2, Meeting
      <4>2. \A d \in Conns : Member(d)' /\ d # c => Member(d) /\ joined[d] # listed'
        BY <3>0, <3>1, <3>2, <1>0 DEF Member
      <4> QED  BY <3>0, <3>1, <4>1, <4>2, <1>0 DEF PairInv
    <3>3. CASE other # Nobody
      <4>1. /\ other \in Conns /\ other # c
            /\ Member(other) /\ joined[other] = listed' /\ role[other] = Opposite(role[c])
            /\ partner[other] = Nobody /\ \A d \in Conns : partner[d] # other
            /\ partner' = [partner EXCEPT ![c] = other, ![other] = c]
        BY <1>1, <2>2, <3>3, Meeting
      <4>2. /\ partner'[c] = other /\ partner'[other] = c
            /\ \A d \in Conns : d \notin {c, other} => partner'[d] = partner[d]
        BY <4>1 DEF Types
      <4>3. role[c] = Opposite(role[other])
        BY <4>1, <3>0, Names
      <4> HIDE DEF other
      <4>4. ASSUME NEW d \in Conns, partner'[d] # Nobody
            PROVE  /\ partner'[d] # d
                   /\ partner'[partner'[d]] = d
                   /\ joined'[partner'[d]] = joined'[d]
                   /\ role'[partner'[d]] = Opposite(role'[d])
                   /\ pc'[d] # "connect"
        <5>1. CASE d = c
          BY <5>1, <4>1, <4>2, <3>0, <2>2
        <5>3. CASE d = other
          <6>1. pc'[other] = pc[other] /\ pc[other] # "connect" /\ joined'[other] = listed'
            BY <4>1, <3>0 DEF Member
          <6> QED  BY <5>3, <6>1, <4>1, <4>2, <4>3, <3>0
        <5>2. CASE d \notin {c, other}
          <6>1. /\ partner'[d] = partner[d] /\ partner[d] \in Conns
                /\ partner[d] \notin {c, other}
            BY <5>2, <4>1, <4>2, <4>4, <3>1, <1>0
          <6> QED  BY <6>1, <5>2, <4>2, <4>4, <3>0 DEF PairInv
        <5> QED  BY <5>1, <5>2, <5>3
      <4>5. ASSUME NEW d \in Conns, NEW e \in Conns, d # e, Member(d)', Member(e)', joined'[d] = joined'[e]
            PROVE  partner'[d] = e
        <5>1. CASE d = c
          BY <5>1, <4>5, <4>2, <3>0, <3>1 DEF Member
        <5>2. CASE e = c
          BY <5>2, <4>5, <4>2, <3>0, <3>1 DEF Member
        <5>3. CASE d # c /\ e # c
          <6>1. partner[d] = e /\ partner[e] = d
            BY <5>3, <4>5, <3>0 DEF PairInv, Member
          <6> QED  BY <6>1, <5>3, <4>1, <4>2, <1>0
        <5> QED  BY <5>1, <5>2, <5>3
      <4> QED  BY <4>4, <4>5 DEF PairInv
    <3> QED  BY <3>2, <3>3
  <2> QED  BY <2>1, <2>2, <1>1, Joining
<1>2. ASSUME NEW c \in Conns, CleanUp(c) PROVE PairInv'
  <2>1. /\ UNCHANGED <<role, joined, partner>>
        /\ \A d \in Conns : (Member(d)' <=> Member(d)) /\ (pc'[d] = "connect" <=> pc[d] = "connect")
    BY <1>2, Cleaning DEF Member
  <2> QED  BY <2>1 DEF PairInv
<1>3. ASSUME NEW c \in Conns, CloseBoth(c) PROVE PairInv'
  <2>1. /\ UNCHANGED <<role, joined, partner>>
        /\ \A d \in Conns : (Member(d)' => Member(d)) /\ (pc'[d] = "connect" <=> pc[d] = "connect")
    BY <1>3 DEF CloseBoth, Goto, Types, Member
  <2> QED  BY <2>1 DEF PairInv
<1>4. ASSUME NEW c \in Conns, Works(c) PROVE PairInv'
  <2>1. /\ UNCHANGED <<role, joined, partner>>
        /\ \A d \in Conns : (Member(d)' <=> Member(d)) /\ (pc'[d] = "connect" <=> pc[d] = "connect")
    BY <1>4, Working1 DEF Working
  <2> QED  BY <2>1 DEF PairInv
<1>5. CASE Expire
  BY <1>5 DEF Expire, PairInv, Member
<1>6. CASE UNCHANGED vars
  BY <1>6 DEF vars, PairInv, Member
<1> QED  BY <1>1, <1>2, <1>3, <1>4, <1>5, <1>6, NextCases

(* The room a step leaves has the connection in its slot.                  *)
HereNext(c) == slot'[joined'[c]][role'[c]] = c

LEMMA LeftNext ==
  Types /\ RoomInv /\ SlotInv /\ ListedInv /\ PairInv /\ LeftInv /\ [Next]_vars => LeftInv'
<1> SUFFICES ASSUME Types, RoomInv, SlotInv, ListedInv, PairInv, LeftInv, [Next]_vars,
                    NEW d \in Conns, Member(d)'
             PROVE  /\ HereNext(d) /\ partner'[d] # Nobody => HereNext(partner'[d])
                    /\ ~HereNext(d) /\ pc'[d] # "close" =>
                         partner'[d] # Nobody /\ pc'[partner'[d]] \in {"close", "end"}
  BY DEF LeftInv, Here, HereNext
<1>0. \A e \in Conns : partner[e] \in Conns \cup {Nobody} /\ e # Nobody /\ role[e] \in Roles
  BY Names DEF Types
<1>1. ASSUME NEW c \in Conns, Join(c)
      PROVE  /\ HereNext(d) /\ partner'[d] # Nobody => HereNext(partner'[d])
             /\ ~HereNext(d) /\ pc'[d] # "close" =>
                  partner'[d] # Nobody /\ pc'[partner'[d]] \in {"close", "end"}
  <2>0. /\ \A e \in Conns : e # c => pc'[e] = pc[e] /\ joined'[e] = joined[e]
        /\ joined'[c] = listed' /\ role' = role /\ pc[c] = "connect" /\ pc'[c] \in {"take", "end"}
        /\ listed' \in Rooms
    BY <1>1, Joining
  <2>1. \A e \in Conns : Member(e) => joined[e] \in Rooms
    BY DEF Member, RoomInv, Types
  <2>2. ASSUME NEW e \in Conns, e # c, Member(e) PROVE Here(e) <=> HereNext(e)
    <3>1. joined'[e] = joined[e] /\ joined[e] \in Rooms /\ role' = role /\ role[e] \in Roles
      BY <2>0, <2>1, <2>2, <1>0
    <3>2. CASE joined[e] = listed' /\ role[e] = role[c]
      <4>1. slot'[joined[e]][role[e]] = c \/ slot' = slot
        BY <3>2, <1>1, JoinSlot
      <4>2. slot[joined[e]][role[e]] = Nobody \/ slot' = slot
        BY <3>2, <1>1, JoinSlot
      <4> QED  BY <4>1, <4>2, <3>1, <2>2, <1>0 DEF Here, HereNext
    <3>3. CASE ~(joined[e] = listed' /\ role[e] = role[c])
      BY <3>1, <3>3, <1>1, JoinSlot DEF Here, HereNext
    <3> QED  BY <3>2, <3>3
  <2>3. d # c => Member(d) /\ pc'[d] = pc[d]
    BY <2>0 DEF Member
  <2>4. CASE pc'[c] = "end"
    <3>1. partner' = partner /\ d # c
      BY <2>4, <1>1, JoinSlot DEF Member
    <3>2. partner[d] # Nobody => partner[d] \in Conns /\ partner[d] # c /\ pc[partner[d]] # "connect"
      BY <1>0, <2>0 DEF PairInv
    <3>3. Here(d) /\ partner[d] # Nobody => Here(partner[d]) /\ Member(partner[d])
      <4>1. Here(d) /\ partner[d] # Nobody => Here(partner[d])
        BY <2>3, <3>1 DEF LeftInv
      <4>2. Here(d) /\ partner[d] # Nobody => Member(partner[d])
        BY <4>1, <3>1, <3>2, <2>1, <2>3, <1>0, HereMember
      <4> QED  BY <4>1, <4>2
    <3> QED  BY <3>1, <3>2, <3>3, <2>0, <2>2, <2>3 DEF LeftInv
  <2>5. CASE pc'[c] = "take"
    <3> DEFINE other == slot[listed'][Opposite(role[c])]
    <3>1. /\ partner[c] = Nobody /\ \A e \in Conns : partner[e] # c
          /\ other = Nobody => partner' = partner
          /\ other # Nobody =>
               /\ other \in Conns /\ other # c /\ Member(other) /\ Here(other)
               /\ partner' = [partner EXCEPT ![c] = other, ![other] = c]
      BY <1>1, <2>5, Meeting
    <3>2. HereNext(c)
      BY <1>1, <2>0, <2>5, JoinSlot DEF Here, HereNext
    <3> HIDE DEF other
    <3>3. CASE d = c
      <4>1. partner'[c] # Nobody => other # Nobody /\ partner'[c] = other
        BY <3>1 DEF Types
      <4>2. partner'[c] # Nobody => HereNext(partner'[c])
        BY <4>1, <3>1, <2>2
      <4> QED  BY <3>3, <3>2, <4>2
    <3>4. CASE d # c /\ d = other
      <4>1. partner'[d] = c
        BY <3>4, <3>1, <1>0 DEF Types
      <4>2. HereNext(d)
        BY <3>4, <3>1, <2>2, <1>0
      <4> QED  BY <4>1, <4>2, <3>2
    <3>5. CASE d # c /\ d # other
      <4>1. partner'[d] = partner[d] /\ (HereNext(d) <=> Here(d)) /\ Member(d) /\ pc'[d] = pc[d]
        BY <3>5, <3>1, <2>2, <2>3 DEF Types
      <4>2. partner[d] # Nobody => partner[d] \in Conns /\ partner[d] # c
        BY <1>0, <3>1
      <4>3. Here(d) /\ partner[d] # Nobody => HereNext(partner[d])
        <5>1. Here(d) /\ partner[d] # Nobody => Here(partner[d])
          BY <4>1 DEF LeftInv
        <5>2. Here(d) /\ partner[d] # Nobody => Member(partner[d])
          BY <5>1, <4>1, <4>2, HereMember
        <5> QED  BY <5>1, <5>2, <4>2, <2>2
      <4>4. ~Here(d) /\ pc[d] # "close" => partner[d] # Nobody /\ pc'[partner[d]] \in {"close", "end"}
        BY <4>1, <4>2, <2>0 DEF LeftInv
      <4> QED  BY <4>1, <4>3, <4>4
    <3> QED  BY <3>3, <3>4, <3>5
  <2> QED  BY <2>0, <2>4, <2>5
<1>2. ASSUME NEW c \in Conns, CleanUp(c)
      PROVE  /\ HereNext(d) /\ partner'[d] # Nobody => HereNext(partner'[d])
             /\ ~HereNext(d) /\ pc'[d] # "close" =>
                  partner'[d] # Nobody /\ pc'[partner'[d]] \in {"close", "end"}
  <2>0. /\ pc[c] = "clean" /\ pc'[c] = "close" /\ \A e \in Conns : e # c => pc'[e] = pc[e]
        /\ UNCHANGED <<role, joined, partner>>
        /\ \/ Here(c) /\ \A ro \in Roles : slot'[joined[c]][ro] = Nobody
           \/ ~Here(c) /\ slot' = slot
        /\ \A s \in Rooms : s # joined[c] => slot'[s] = slot[s]
    BY <1>2, Cleaning
  <2>1. Member(d) /\ joined[d] \in Rooms
    BY <2>0 DEF Member, RoomInv, Types
  <2>2. CASE ~Here(c) /\ slot' = slot
    <3>1. \A e \in Conns : HereNext(e) <=> Here(e)
      BY <2>0, <2>2 DEF Here, HereNext
    <3>2. ~Here(d) /\ pc'[d] # "close" =>
            partner[d] # Nobody /\ pc'[partner[d]] \in {"close", "end"}
      BY <2>0, <2>1, <1>0 DEF LeftInv
    <3> QED  BY <3>1, <3>2, <2>0, <2>1, <1>0 DEF LeftInv
  <2>3. CASE Here(c) /\ \A ro \in Roles : slot'[joined[c]][ro] = Nobody
    <3>1. CASE joined[d] = joined[c]
      <4>1. ~HereNext(d)
        BY <3>1, <2>0, <2>3, <1>0 DEF Here, HereNext
      <4>2. d # c => partner[d] = c
        BY <3>1, <2>0, <2>1 DEF PairInv, Member
      <4> QED  BY <4>1, <4>2, <2>0, <1>0
    <3>2. CASE joined[d] # joined[c]
      <4>1. HereNext(d) <=> Here(d)
        BY <3>2, <2>0, <2>1 DEF Here, HereNext
      <4>2. partner[d] # Nobody => joined[partner[d]] = joined[d] /\ partner[d] \in Conns
        BY <1>0 DEF PairInv
      <4>3. partner[d] # Nobody => (HereNext(partner[d]) <=> Here(partner[d]))
        BY <4>2, <3>2, <2>0, <2>1 DEF Here, HereNext
      <4>4. d # c /\ partner[d] # c
        BY <3>2, <4>2, <1>0
      <4>5. ~Here(d) /\ pc'[d] # "close" =>
              partner[d] # Nobody /\ pc'[partner[d]] \in {"close", "end"}
        BY <4>4, <4>2, <2>0, <2>1 DEF LeftInv
      <4>6. Here(d) /\ partner[d] # Nobody => Here(partner[d])
        BY <2>1 DEF LeftInv
      <4> QED  BY <4>1, <4>3, <4>5, <4>6, <2>0
    <3> QED  BY <3>1, <3>2
  <2> QED  BY <2>0, <2>2, <2>3
<1>3. ASSUME NEW c \in Conns, CloseBoth(c)
      PROVE  /\ HereNext(d) /\ partner'[d] # Nobody => HereNext(partner'[d])
             /\ ~HereNext(d) /\ pc'[d] # "close" =>
                  partner'[d] # Nobody /\ pc'[partner'[d]] \in {"close", "end"}
  <2>1. /\ UNCHANGED <<slot, role, joined, partner>> /\ pc[c] = "close" /\ pc'[c] = "end"
        /\ \A e \in Conns : e # c => pc'[e] = pc[e]
    BY <1>3 DEF CloseBoth, Goto, Types
  <2>2. Member(d) /\ d # c /\ \A e \in Conns : HereNext(e) <=> Here(e)
    BY <2>1 DEF Member, Here, HereNext
  <2>3. \A e \in Conns : pc[e] \in {"close", "end"} => pc'[e] \in {"close", "end"}
    BY <2>1
  <2> QED  BY <2>1, <2>2, <2>3, <1>0 DEF LeftInv
<1>4. ASSUME NEW c \in Conns, Works(c)
      PROVE  /\ HereNext(d) /\ partner'[d] # Nobody => HereNext(partner'[d])
             /\ ~HereNext(d) /\ pc'[d] # "close" =>
                  partner'[d] # Nobody /\ pc'[partner'[d]] \in {"close", "end"}
  <2>1. /\ \A e \in Conns : HereNext(e) <=> Here(e)
        /\ Member(d) /\ partner' = partner
        /\ \A e \in Conns : pc[e] \in {"close", "end"} <=> pc'[e] \in {"close", "end"}
    BY <1>4, Working1 DEF Working, Here, HereNext
  <2>2. pc'[d] # "close" => pc[d] # "close"
    BY <1>4, Working1 DEF Working, Here, HereNext
  <2> QED  BY <2>1, <2>2, <1>0 DEF LeftInv
<1>5. CASE UNCHANGED <<slot, role, joined, partner, pc>>
  BY <1>5 DEF LeftInv, Here, HereNext, Member
<1> QED  BY <1>1, <1>2, <1>3, <1>4, <1>5, NextCases DEF vars, Expire

-----------------------------------------------------------------------------
(* What the other steps do, in the terms of the invariant.                 *)
LEMMA Taking ==
  ASSUME Types, RoomInv, NEW c \in Conns, TakeHeld(c)
  PROVE  /\ pc[c] = "take" /\ \A d \in Conns : d # c => pc'[d] = pc[d] /\ batch'[d] = batch[d]
         /\ joined[c] \in Rooms /\ role[c] \in Roles
         /\ held'[joined[c]] = <<>> /\ \A s \in Rooms : s # joined[c] => held'[s] = held[s]
         /\ batch'[c] = held[joined[c]]
         /\ \/ /\ held[joined[c]] = <<>> /\ pc'[c] = "read"
               /\ ready'[joined[c]][role[c]]
            \/ /\ held[joined[c]] # <<>> /\ pc'[c] = "deliver"
               /\ ready'[joined[c]][role[c]] = ready[joined[c]][role[c]]
         /\ \A s \in Rooms, so \in Roles :
              ~(s = joined[c] /\ so = role[c]) => ready'[s][so] = ready[s][so]
         /\ UNCHANGED <<role, listed, made, joined, slot, peer, read, got, closed, partner>>
<1> DEFINE r == joined[c]
           x == ready[r][role[c]] \/ held[r] = <<>>
<1>1. pc[c] = "take" /\ r \in Rooms /\ role[c] \in Roles
  BY DEF TakeHeld, Types, RoomInv
<1>2. \A d \in Conns : d # c => pc'[d] = pc[d] /\ batch'[d] = batch[d]
  BY DEF TakeHeld, Types, Goto
<1>3. held'[r] = <<>> /\ \A s \in Rooms : s # r => held'[s] = held[s]
  BY <1>1 DEF TakeHeld, Types
<1>4. batch'[c] = held[r]
  BY DEF TakeHeld, Types
<1>5. \/ held[r] = <<>> /\ pc'[c] = "read"
      \/ held[r] # <<>> /\ pc'[c] = "deliver"
  BY DEF TakeHeld, Types, Goto
<1>6. ready[r] \in [Roles -> BOOLEAN] /\ ready[r][role[c]] \in BOOLEAN
  BY <1>1 DEF Types
<1>7. ready' = [ready EXCEPT ![r] = [ready[r] EXCEPT ![role[c]] = x]]
  BY DEF TakeHeld
<1>8. ready'[r] = [ready[r] EXCEPT ![role[c]] = x] /\ \A s \in Rooms : s # r => ready'[s] = ready[s]
  BY <1>1, <1>7 DEF Types
<1>9. ready'[r][role[c]] = x /\ \A so \in Roles : so # role[c] => ready'[r][so] = ready[r][so]
  BY <1>1, <1>6, <1>8
<1>10. UNCHANGED <<role, listed, made, joined, slot, peer, read, got, closed, partner>>
  BY DEF TakeHeld
<1>11. \/ held[r] = <<>> /\ x
       \/ held[r] # <<>> /\ x = ready[r][role[c]]
  BY <1>6
<1> QED  BY <1>1, <1>2, <1>3, <1>4, <1>5, <1>8, <1>9, <1>10, <1>11

LEMMA Delivering ==
  ASSUME Types, StageInv, NEW c \in Conns, Deliver(c)
  PROVE  /\ pc[c] = "deliver" /\ batch[c] \in Seq(Frames) /\ batch[c] # <<>>
         /\ \A d \in Conns : d # c => pc'[d] = pc[d] /\ batch'[d] = batch[d] /\ got'[d] = got[d]
         /\ \/ /\ got'[c] = Append(got[c], Head(batch[c]))
               /\ got' = [got EXCEPT ![c] = Append(@, Head(batch[c]))]
               /\ batch'[c] = Tail(batch[c])
               /\ \/ pc'[c] = "take" /\ Tail(batch[c]) = <<>>
                  \/ pc'[c] = "deliver" /\ Tail(batch[c]) # <<>>
            \/ pc'[c] = "clean" /\ got' = got /\ batch' = batch
         /\ UNCHANGED <<role, listed, made, joined, slot, ready, held, peer, read, closed, partner>>
<1>1. pc[c] = "deliver" /\ batch[c] \in Seq(Frames) /\ batch[c] # <<>>
  BY DEF Deliver, Types, StageInv
<1>2. Len(batch[c]) = 1 <=> Tail(batch[c]) = <<>>
  <2>1. Tail(batch[c]) \in Seq(Frames) /\ Len(Tail(batch[c])) = Len(batch[c]) - 1
    BY <1>1
  <2>2. Len(batch[c]) \in Nat
    BY <1>1
  <2>3. Tail(batch[c]) = <<>> <=> Len(Tail(batch[c])) = 0
    BY <2>1, EmptySeq
  <2> QED  BY <2>1, <2>2, <2>3
<1>3. UNCHANGED <<role, listed, made, joined, slot, ready, held, peer, read, closed, partner>>
  BY DEF Deliver
<1>4. \A d \in Conns : d # c => pc'[d] = pc[d] /\ batch'[d] = batch[d] /\ got'[d] = got[d]
  BY DEF Deliver, Types, Goto, Write
<1>5. CASE c \notin closed
  <2>1. got' = [got EXCEPT ![c] = Append(@, Head(batch[c]))] /\ batch' = [batch EXCEPT ![c] = Tail(@)]
        /\ pc' = [pc EXCEPT ![c] = IF Len(batch[c]) = 1 THEN "take" ELSE "deliver"]
    BY <1>5 DEF Deliver, Goto, Write
  <2>2. got'[c] = Append(got[c], Head(batch[c])) /\ batch'[c] = Tail(batch[c])
        /\ pc'[c] = IF Len(batch[c]) = 1 THEN "take" ELSE "deliver"
    BY <2>1 DEF Types
  <2> QED  BY <2>1, <2>2, <1>1, <1>2, <1>3, <1>4
<1>6. CASE c \in closed
  <2>1. pc'[c] = "clean" /\ got' = got /\ batch' = batch
    BY <1>6 DEF Deliver, Goto, Types
  <2> QED  BY <2>1, <1>1, <1>3, <1>4
<1> QED  BY <1>5, <1>6

LEMMA Reading ==
  ASSUME Types, RoomInv, NEW c \in Conns, ReadFrame(c)
  PROVE  /\ pc[c] = "read" /\ joined[c] \in Rooms /\ role[c] \in Roles /\ Opposite(role[c]) \in Roles
         /\ \A d \in Conns : d # c => pc'[d] = pc[d] /\ read'[d] = read[d] /\ peer'[d] = peer[d]
         /\ read'[c] = read[c] + 1 /\ read[c] \in Nat /\ <<c, read[c] + 1>> \in Frames
         /\ \A s \in Rooms : s # joined[c] => held'[s] = held[s]
         /\ \/ /\ ready[joined[c]][Opposite(role[c])] /\ slot[joined[c]][Opposite(role[c])] # Nobody
               /\ peer'[c] = slot[joined[c]][Opposite(role[c])]
               /\ pc'[c] = "forward" /\ held' = held
            \/ /\ ~(ready[joined[c]][Opposite(role[c])] /\ slot[joined[c]][Opposite(role[c])] # Nobody)
               /\ held'[joined[c]] = Append(held[joined[c]], <<c, read[c] + 1>>)
               /\ \/ pc'[c] = "read" /\ Len(held'[joined[c]]) <= HeldLimit
                  \/ pc'[c] = "clean"
         /\ UNCHANGED <<role, listed, made, joined, slot, ready, batch, got, partner>>
<1> DEFINE r == joined[c]
           to == Opposite(role[c])
           direct == ready[r][to] /\ slot[r][to] # Nobody
<1>1. pc[c] = "read" /\ r \in Rooms /\ role[c] \in Roles /\ to \in Roles
  BY Names DEF ReadFrame, Types, RoomInv
<1>2. read[c] \in Nat /\ read[c] + 1 \in 1..MaxFrames
  BY MoreToRead, Names DEF ReadFrame, Types
<1>3. read' = [read EXCEPT ![c] = @ + 1]
  BY DEF ReadFrame
<1>4. read'[c] = read[c] + 1 /\ \A d \in Conns : d # c => read'[d] = read[d]
  BY <1>3 DEF Types
<1>5. <<c, read[c] + 1>> \in Frames
  BY <1>2 DEF Frames
<1>6. UNCHANGED <<role, listed, made, joined, slot, ready, batch, got, partner>>
  BY DEF ReadFrame
<1>7. \A d \in Conns : d # c => pc'[d] = pc[d] /\ peer'[d] = peer[d]
  BY DEF ReadFrame, Goto, Types
<1>8. CASE direct
  <2>1. peer' = [peer EXCEPT ![c] = slot[r][to]] /\ pc' = [pc EXCEPT ![c] = "forward"] /\ held' = held
    BY <1>8 DEF ReadFrame, Goto
  <2>2. peer'[c] = slot[r][to] /\ pc'[c] = "forward"
    BY <2>1 DEF Types
  <2> QED  BY <2>1, <2>2, <1>1, <1>2, <1>4, <1>5, <1>6, <1>7, <1>8
<1>9. CASE ~direct
  <2>1. held' = [held EXCEPT ![r] = Append(@, <<c, read'[c]>>)]
    BY <1>9 DEF ReadFrame
  <2>2. held'[r] = Append(held[r], <<c, read[c] + 1>>) /\ \A s \in Rooms : s # r => held'[s] = held[s]
    BY <2>1, <1>1, <1>4 DEF Types
  <2>3. \/ pc'[c] = "read" /\ Len(held'[r]) <= HeldLimit
        \/ pc'[c] = "clean"
    BY <1>1, <1>9 DEF ReadFrame, Goto, Types
  <2> QED  BY <2>2, <2>3, <1>1, <1>2, <1>4, <1>5, <1>6, <1>7, <1>9
<1> QED  BY <1>8, <1>9

LEMMA Forwarding ==
  ASSUME Types, NEW c \in Conns, Forward(c)
  PROVE  /\ pc[c] = "forward"
         /\ \A d \in Conns : d # c => pc'[d] = pc[d] /\ peer'[d] = peer[d]
         /\ \A d \in Conns : d # peer[c] => got'[d] = got[d]
         /\ \/ /\ pc'[c] = "read"
               /\ got' = [got EXCEPT ![peer[c]] = Append(@, <<c, read[c]>>)]
            \/ pc'[c] = "clean" /\ got' = got
         /\ UNCHANGED <<role, listed, made, joined, slot, ready, held, batch, read, closed, partner>>
<1>1. /\ pc[c] = "forward"
      /\ UNCHANGED <<role, listed, made, joined, slot, ready, held, batch, read, closed, partner>>
  BY DEF Forward
<1>2. \A d \in Conns : d # c => pc'[d] = pc[d] /\ peer'[d] = peer[d]
  BY DEF Forward, Goto, Types
<1>3. \A d \in Conns : d # peer[c] => got'[d] = got[d]
  BY DEF Forward, Write, Types
<1>4. \/ pc'[c] = "read" /\ got' = [got EXCEPT ![peer[c]] = Append(@, <<c, read[c]>>)]
      \/ pc'[c] = "clean" /\ got' = got
  BY DEF Forward, Write, Goto, Types
<1> QED  BY <1>1, <1>2, <1>3, <1>4

LEMMA CleaningRoom ==
  ASSUME Types, RoomInv, NEW c \in Conns, CleanUp(c)
  PROVE  /\ held'[joined[c]] = <<>> /\ \A s \in Rooms : s # joined[c] => held'[s] = held[s]
         /\ \A s \in Rooms : s # joined[c] => ready'[s] = ready[s]
         /\ ready' = ready \/ \A ro \in Roles : ~ready'[joined[c]][ro]
         /\ ~Here(c) => ready' = ready
         /\ \A d \in Conns : d # c => peer'[d] = peer[d]
         /\ UNCHANGED <<batch, read, got>>
<1>1. joined[c] \in Rooms
  BY Cleaning
<1>2. held'[joined[c]] = <<>> /\ \A s \in Rooms : s # joined[c] => held'[s] = held[s]
  BY <1>1 DEF CleanUp, Types
<1>3. \A d \in Conns : d # c => peer'[d] = peer[d]
  BY DEF CleanUp, Types
<1>4. UNCHANGED <<batch, read, got>>
  BY DEF CleanUp
<1>5. /\ Here(c) => ready' = [ready EXCEPT ![joined[c]] = [ro \in Roles |-> FALSE]]
      /\ ~Here(c) => ready' = ready
  BY DEF CleanUp, Here
<1>6. Here(c) => \A ro \in Roles : ~ready'[joined[c]][ro]
  BY <1>1, <1>5 DEF Types
<1>7. \A s \in Rooms : s # joined[c] => ready'[s] = ready[s]
  BY <1>1, <1>5 DEF Types
<1> QED  BY <1>1, <1>2, <1>3, <1>4, <1>5, <1>6, <1>7

-----------------------------------------------------------------------------
(* Rooms not made yet, and stages.                                         *)
LEMMA FreshNext ==
  Types /\ RoomInv /\ StageInv /\ ListedInv /\ FreshInv /\ [Next]_vars => FreshInv'
<1> SUFFICES ASSUME Types, RoomInv, StageInv, ListedInv, FreshInv, [Next]_vars PROVE FreshInv'
  OBVIOUS
<1>0. /\ made \in Nat /\ \A r \in Rooms : r \in Nat /\ r # 0
      /\ \A c \in Conns : pc[c] # "connect" => joined[c] \in Rooms /\ joined[c] <= made
      /\ listed # 0 => listed \in Rooms
  BY Names DEF Types, RoomInv
<1>1. ASSUME NEW c \in Conns, Join(c) PROVE FreshInv'
  <2>1. UNCHANGED <<held, ready>>
    BY <1>1 DEF Join
  <2>2. made' \in Nat /\ made <= made'
    BY <1>0, <1>1, Joining
  <2>3. ASSUME NEW r \in Rooms, r > made'
        PROVE  held[r] = <<>> /\ \A ro \in Roles : ~ready[r][ro]
    BY <2>2, <2>3, <1>0 DEF FreshInv
  <2>4. ASSUME NEW ro \in Roles, slot'[listed'][ro] = Nobody PROVE ~ready[listed'][ro]
    <3>1. listed' \in Rooms /\ (listed' = listed \/ listed' > made)
      BY <1>0, <1>1, Joining
    <3>2. slot[listed'][ro] = Nobody
      BY <2>4, <3>1, <1>1, JoinSlot, Names
    <3> QED  BY <3>1, <3>2, <1>0 DEF FreshInv
  <2> QED  BY <2>1, <2>3, <2>4 DEF FreshInv
<1>2. ASSUME NEW c \in Conns, TakeHeld(c) PROVE FreshInv'
  <2>1. joined[c] \in Rooms /\ joined[c] <= made /\ Member(c) /\ made' = made /\ role[c] \in Roles
    BY <1>0, <1>2, Taking DEF Member
  <2>2. ASSUME NEW r \in Rooms, r > made'
        PROVE  held'[r] = <<>> /\ \A ro \in Roles : ~ready'[r][ro]
    <3>1. r # joined[c]
      BY <2>1, <2>2, <1>0
    <3> QED  BY <3>1, <2>1, <2>2, <1>2, Taking DEF FreshInv
  <2>3. ASSUME listed' # 0, NEW ro \in Roles, slot'[listed'][ro] = Nobody PROVE ~ready'[listed'][ro]
    <3>1. listed' = listed /\ slot' = slot /\ listed \in Rooms
      BY <2>3, <1>0, <1>2, Taking
    <3>2. ~(listed = joined[c] /\ ro = role[c])
      BY <2>1, <2>3, <3>1, Names DEF ListedInv, Here
    <3> QED  BY <3>1, <3>2, <2>3, <1>2, Taking DEF FreshInv
  <2> QED  BY <2>2, <2>3 DEF FreshInv
<1>3. ASSUME NEW c \in Conns, Deliver(c) PROVE FreshInv'
  BY <1>3, Delivering DEF FreshInv
<1>4. ASSUME NEW c \in Conns, ReadFrame(c) PROVE FreshInv'
  <2>1. joined[c] \in Rooms /\ joined[c] <= made /\ UNCHANGED <<made, listed, slot, ready>>
    BY <1>0, <1>4, Reading
  <2>2. ASSUME NEW r \in Rooms, r > made' PROVE held'[r] = held[r]
    <3>1. r # joined[c]
      BY <2>1, <2>2, <1>0
    <3> QED  BY <3>1, <1>4, Reading
  <2> QED  BY <2>1, <2>2 DEF FreshInv
<1>5. ASSUME NEW c \in Conns, Forward(c) PROVE FreshInv'
  BY <1>5, Forwarding DEF FreshInv
<1>6. ASSUME NEW c \in Conns, CleanUp(c) PROVE FreshInv'
  <2>1. joined[c] \in Rooms /\ joined[c] <= made /\ made' = made /\ Member(c)
    BY <1>0, <1>6, Cleaning DEF Member
  <2>2. ASSUME NEW r \in Rooms, r > made'
        PROVE  held'[r] = <<>> /\ \A ro \in Roles : ~ready'[r][ro]
    <3>1. r # joined[c]
      BY <2>1, <2>2, <1>0
    <3> QED  BY <3>1, <2>1, <2>2, <1>6, CleaningRoom DEF FreshInv
  <2>3. ASSUME listed' # 0, NEW ro \in Roles, slot'[listed'][ro] = Nobody PROVE ~ready'[listed'][ro]
    <3>1. listed' = listed /\ listed \in Rooms
      BY <2>3, <1>0, <1>6, Cleaning
    <3>2. CASE listed = joined[c]
      <4>1. Here(c)
        BY <2>1, <3>2 DEF ListedInv
      <4> QED  BY <4>1, <3>1, <3>2, <2>3, <1>6, Cleaning
    <3>3. CASE listed # joined[c]
      BY <3>1, <3>3, <2>3, <1>6, Cleaning, CleaningRoom DEF FreshInv
    <3> QED  BY <3>2, <3>3
  <2> QED  BY <2>2, <2>3 DEF FreshInv
<1>7. ASSUME NEW c \in Conns, ReadFails(c) \/ ClientLeaves(c) \/ CloseBoth(c) PROVE FreshInv'
  BY <1>7 DEF ReadFails, ClientLeaves, CloseBoth, FreshInv
<1>8. CASE Expire
  BY <1>8 DEF Expire, FreshInv
<1>9. CASE UNCHANGED vars
  BY <1>9 DEF vars, FreshInv
<1> QED  BY <1>1, <1>2, <1>3, <1>4, <1>5, <1>6, <1>7, <1>8, <1>9 DEF Next, Step

(* Two members do not share a place in a room.                             *)
LEMMA OwnPlace ==
  ASSUME Types, PairInv, NEW c \in Conns, NEW d \in Conns, c # d, Member(c), Member(d),
         joined[c] = joined[d]
  PROVE  partner[c] = d /\ partner[d] = c /\ role[d] # role[c] /\ role[d] = Opposite(role[c])
<1>1. partner[c] = d /\ partner[d] = c /\ d # Nobody
  BY Names DEF PairInv
<1>2. role[d] = Opposite(role[c]) /\ role[c] \in Roles
  BY <1>1 DEF PairInv, Types
<1> QED  BY <1>1, <1>2, Names

LEMMA StageNext ==
  Types /\ RoomInv /\ SlotInv /\ FreshInv /\ PairInv /\ StageInv /\ [Next]_vars => StageInv'
<1> SUFFICES ASSUME Types, RoomInv, SlotInv, FreshInv, PairInv, StageInv, [Next]_vars,
                    NEW d \in Conns
             PROVE  /\ pc'[d] \in {"connect", "take", "deliver"} => read'[d] = 0
                    /\ pc'[d] = "forward" => read'[d] # 0
                    /\ pc'[d] \in {"connect", "take"} => batch'[d] = <<>>
                    /\ pc'[d] = "deliver" => batch'[d] # <<>>
                    /\ Member(d)' /\ Here(d)' /\ pc'[d] \in {"read", "forward"} =>
                         ready'[joined'[d]][role'[d]]
                    /\ Member(d)' /\ Here(d)' /\ pc'[d] \in {"take", "deliver"} =>
                         ~ready'[joined'[d]][role'[d]]
  BY DEF StageInv
<1> DEFINE Goal ==
      /\ pc'[d] \in {"connect", "take", "deliver"} => read'[d] = 0
      /\ pc'[d] = "forward" => read'[d] # 0
      /\ pc'[d] \in {"connect", "take"} => batch'[d] = <<>>
      /\ pc'[d] = "deliver" => batch'[d] # <<>>
      /\ Member(d)' /\ Here(d)' /\ pc'[d] \in {"read", "forward"} => ready'[joined'[d]][role'[d]]
      /\ Member(d)' /\ Here(d)' /\ pc'[d] \in {"take", "deliver"} => ~ready'[joined'[d]][role'[d]]
<1>0. /\ pc[d] \in {"connect", "take", "deliver"} => read[d] = 0
      /\ pc[d] = "forward" => read[d] # 0
      /\ pc[d] \in {"connect", "take"} => batch[d] = <<>>
      /\ pc[d] = "deliver" => batch[d] # <<>>
      /\ Member(d) /\ Here(d) /\ pc[d] \in {"read", "forward"} => ready[joined[d]][role[d]]
      /\ Member(d) /\ Here(d) /\ pc[d] \in {"take", "deliver"} => ~ready[joined[d]][role[d]]
      /\ role[d] \in Roles /\ (Member(d) => joined[d] \in Rooms) /\ d # Nobody
  BY Names DEF StageInv, Types, RoomInv, Member
<1>1. ASSUME NEW c \in Conns, Join(c) PROVE Goal
  <2>0. UNCHANGED <<read, batch, ready, role>>
    BY <1>1 DEF Join
  <2>1. CASE d = c
    <3>1. pc[d] = "connect" /\ pc'[d] \in {"take", "end"} /\ joined'[d] = listed'
      BY <2>1, <1>1, Joining
    <3>2. pc'[d] = "take" => ~ready[listed'][role[d]]
      <4>1. listed' \in Rooms /\ (listed = 0 => listed' > made)
        <5>1. made \in Nat
          BY Names DEF Types
        <5> QED  BY <5>1, <1>1, Joining
      <4>2. pc'[d] = "take" => slot[listed'][role[d]] = Nobody
        BY <2>1, <1>1, JoinSlot
      <4>3. listed # 0 => listed' = listed
        BY <1>1, Joining
      <4> QED  BY <4>1, <4>2, <4>3, <1>0 DEF FreshInv
    <3> QED  BY <3>1, <3>2, <2>0, <1>0
  <2>2. CASE d # c
    <3>1. pc'[d] = pc[d] /\ joined'[d] = joined[d] /\ (Member(d)' <=> Member(d))
      BY <2>2, <1>1, Joining DEF Member
    <3>2. Member(d) /\ Here(d)' => Here(d)
      <4>1. CASE joined[d] = listed' /\ role[d] = role[c]
        <5>1. slot'[joined[d]][role[d]] = c \/ slot' = slot
          BY <4>1, <1>1, JoinSlot
        <5> QED  BY <5>1, <3>1, <2>0, <2>2 DEF Here
      <4>2. CASE ~(joined[d] = listed' /\ role[d] = role[c])
        BY <4>2, <3>1, <2>0, <1>0, <1>1, JoinSlot DEF Here
      <4> QED  BY <4>1, <4>2
    <3> QED  BY <3>1, <3>2, <2>0, <1>0
  <2> QED  BY <2>1, <2>2
<1>2. ASSUME NEW c \in Conns, TakeHeld(c) PROVE Goal
  <2>0. UNCHANGED <<role, joined, slot, read>> /\ (Here(d)' <=> Here(d)) /\ (Member(d)' <=> Member(d))
    BY <1>2, Taking DEF Here, Member
  <2>1. CASE d = c
    <3>1. pc[d] = "take" /\ pc'[d] \in {"read", "deliver"} /\ Member(d)
      BY <2>1, <1>2, Taking DEF Member
    <3>2. pc'[d] = "deliver" => batch'[d] # <<>> /\ ready'[joined[d]][role[d]] = ready[joined[d]][role[d]]
      BY <2>1, <1>2, Taking
    <3>3. pc'[d] = "read" => ready'[joined[d]][role[d]]
      BY <2>1, <1>2, Taking
    <3> QED  BY <3>1, <3>2, <3>3, <2>0, <1>0
  <2>2. CASE d # c
    <3>1. pc'[d] = pc[d] /\ batch'[d] = batch[d]
      BY <2>2, <1>2, Taking
    <3>2. Member(d) => ready'[joined[d]][role[d]] = ready[joined[d]][role[d]]
      <4>1. Member(d) => ~(joined[d] = joined[c] /\ role[d] = role[c])
        BY <2>2, <1>2, Taking, OwnPlace DEF Member
      <4> QED  BY <4>1, <1>0, <1>2, Taking
    <3> QED  BY <3>1, <3>2, <2>0, <1>0
  <2> QED  BY <2>1, <2>2
<1>3. ASSUME NEW c \in Conns, Deliver(c) PROVE Goal
  <2>0. UNCHANGED <<role, joined, slot, read, ready>> /\ (Here(d)' <=> Here(d)) /\ (Member(d)' <=> Member(d))
    BY <1>3, Delivering DEF Here, Member
  <2>1. CASE d = c
    BY <2>0, <2>1, <1>0, <1>3, Delivering
  <2>2. CASE d # c
    BY <2>0, <2>2, <1>0, <1>3, Delivering
  <2> QED  BY <2>1, <2>2
<1>4. ASSUME NEW c \in Conns, ReadFrame(c) PROVE Goal
  <2>0. UNCHANGED <<role, joined, slot, batch, ready>> /\ (Here(d)' <=> Here(d)) /\ (Member(d)' <=> Member(d))
    BY <1>4, Reading DEF Here, Member
  <2>1. CASE d = c
    <3>1. pc[d] = "read" /\ pc'[d] \in {"read", "forward", "clean"} /\ read'[d] # 0
      <4>1. read'[d] = read[d] + 1 /\ read[d] \in Nat
        BY <2>1, <1>4, Reading
      <4>2. read'[d] # 0
        BY <4>1
      <4> QED  BY <4>2, <2>1, <1>4, Reading
    <3> QED  BY <3>1, <2>0, <1>0
  <2>2. CASE d # c
    BY <2>0, <2>2, <1>0, <1>4, Reading
  <2> QED  BY <2>1, <2>2
<1>5. ASSUME NEW c \in Conns, Forward(c) PROVE Goal
  <2>0. UNCHANGED <<role, joined, slot, batch, read, ready>> /\ (Here(d)' <=> Here(d)) /\ (Member(d)' <=> Member(d))
    BY <1>5, Forwarding DEF Here, Member
  <2>1. CASE d = c
    BY <2>0, <2>1, <1>0, <1>5, Forwarding
  <2>2. CASE d # c
    BY <2>0, <2>2, <1>0, <1>5, Forwarding
  <2> QED  BY <2>1, <2>2
<1>6. ASSUME NEW c \in Conns, CleanUp(c) PROVE Goal
  <2>0. UNCHANGED <<role, joined, read, batch>> /\ (Member(d)' <=> Member(d))
    BY <1>6, Cleaning, CleaningRoom DEF Member
  <2>1. CASE d = c
    BY <2>0, <2>1, <1>0, <1>6, Cleaning
  <2>2. CASE d # c
    <3>1. pc'[d] = pc[d]
      BY <2>2, <1>6, Cleaning
    <3>2. Member(d) /\ Here(d)' => Here(d) /\ ready'[joined[d]] = ready[joined[d]]
      <4>1. CASE Here(c) /\ \A ro \in Roles : slot'[joined[c]][ro] = Nobody
        <5>1. Member(d) /\ Here(d)' => joined[d] # joined[c]
          BY <4>1, <2>0, <1>0 DEF Here
        <5> QED  BY <5>1, <2>0, <1>0, <1>6, Cleaning, CleaningRoom DEF Here
      <4>2. CASE ~Here(c) /\ slot' = slot
        BY <4>2, <2>0, <1>6, CleaningRoom DEF Here
      <4> QED  BY <4>1, <4>2, <1>6, Cleaning
    <3> QED  BY <3>1, <3>2, <2>0, <1>0
  <2> QED  BY <2>1, <2>2
<1>7. ASSUME NEW c \in Conns, ReadFails(c) \/ ClientLeaves(c) \/ CloseBoth(c) PROVE Goal
  <2>0. UNCHANGED <<role, joined, slot, batch, read, ready>> /\ (Here(d)' <=> Here(d))
    BY <1>7 DEF ReadFails, ClientLeaves, CloseBoth, Here
  <2>1. pc'[d] = pc[d] \/ pc'[d] \in {"clean", "end"}
    BY <1>7 DEF ReadFails, ClientLeaves, CloseBoth, Goto, Types
  <2> QED  BY <2>0, <2>1, <1>0 DEF Member
<1>8. CASE Expire
  BY <1>0, <1>8 DEF Expire, Here, Member
<1>9. CASE UNCHANGED vars
  BY <1>0, <1>9 DEF vars, Here, Member
<1> QED  BY <1>1, <1>2, <1>3, <1>4, <1>5, <1>6, <1>7, <1>8, <1>9 DEF Next, Step

-----------------------------------------------------------------------------
(* Where the frames are.                                                   *)
LEMMA AloneNext ==
  /\ Types /\ RoomInv /\ SlotInv /\ ListedInv /\ FreshInv /\ PairInv /\ LeftInv
  /\ StageInv /\ AloneInv /\ StreamInv /\ [Next]_vars
  => AloneInv'
<1> SUFFICES ASSUME Types, RoomInv, SlotInv, ListedInv, FreshInv, PairInv, LeftInv,
                    StageInv, AloneInv, StreamInv, [Next]_vars,
                    NEW d \in Conns, partner'[d] = Nobody
             PROVE  /\ got'[d] = <<>> /\ batch'[d] = <<>>
                    /\ pc'[d] # "forward"
                    /\ Member(d)' /\ Here(d)' =>
                         IsRun(held'[joined'[d]], d, 0) /\ Len(held'[joined'[d]]) = read'[d]
  BY DEF AloneInv, IsRun
<1> DEFINE Goal == /\ got'[d] = <<>> /\ batch'[d] = <<>>
                   /\ pc'[d] # "forward"
                   /\ Member(d)' /\ Here(d)' =>
                        IsRun(held'[joined'[d]], d, 0) /\ Len(held'[joined'[d]]) = read'[d]
<1>0. /\ partner[d] = Nobody =>
           /\ got[d] = <<>> /\ batch[d] = <<>> /\ pc[d] # "forward"
           /\ Member(d) /\ Here(d) => IsRun(held[joined[d]], d, 0) /\ Len(held[joined[d]]) = read[d]
      /\ role[d] \in Roles /\ (Member(d) => joined[d] \in Rooms) /\ d # Nobody
      /\ IsRun(<<>>, d, 0) /\ Len(<<>>) = 0
  BY Names, RunEmpty DEF AloneInv, Types, RoomInv, Member
<1>a. ASSUME NEW c \in Conns, c # d, Member(c), Member(d), partner[d] = Nobody
      PROVE  joined[d] # joined[c]
  BY <1>a, OwnPlace, Names
<1>1. ASSUME NEW c \in Conns, Join(c) PROVE Goal
  <2>0. UNCHANGED <<read, batch, held, role, got>>
    BY <1>1 DEF Join
  <2>1. CASE d = c
    <3>1. pc[d] = "connect" /\ pc'[d] \in {"take", "end"} /\ joined'[d] = listed' /\ listed' \in Rooms
      BY <2>1, <1>1, Joining
    <3>2. partner[d] = Nobody
      BY <3>1 DEF PairInv
    <3>3. pc'[d] = "take" => held[listed'] = <<>>
      <4> DEFINE other == slot[listed'][Opposite(role[d])]
      <4>1. pc'[d] = "take" => slot[listed'][role[d]] = Nobody
        BY <2>1, <1>1, JoinSlot
      <4>2. pc'[d] = "take" => other = Nobody
        <5>1. ASSUME pc'[d] = "take", other # Nobody PROVE FALSE
          <6>1. other \in Conns /\ other # c /\ partner' = [partner EXCEPT ![c] = other, ![other] = c]
            BY <2>1, <5>1, <1>1, Meeting
          <6>2. partner'[c] = other
            BY <6>1 DEF Types
          <6> QED  BY <6>2, <2>1, <5>1
        <5> QED  BY <5>1
      <4>3. \A ro \in Roles : ro = role[d] \/ ro = Opposite(role[d])
        BY <1>0, Names
      <4>4. pc'[d] = "take" => listed = 0
        <5>1. listed # 0 => listed' = listed
          BY <1>1, Joining
        <5> QED  BY <5>1, <4>1, <4>2, <4>3 DEF RoomInv
      <4>5. listed = 0 => listed' > made
        <5>1. made \in Nat
          BY Names DEF Types
        <5> QED  BY <5>1, <1>1, Joining
      <4> QED  BY <4>4, <4>5, <3>1 DEF FreshInv
    <3>4. read[d] = 0
      BY <3>1 DEF StageInv
    <3> QED  BY <3>1, <3>2, <3>3, <3>4, <2>0, <1>0 DEF Member
  <2>2. CASE d # c
    <3>1. pc'[d] = pc[d] /\ joined'[d] = joined[d] /\ (Member(d)' <=> Member(d))
      BY <2>2, <1>1, Joining DEF Member
    <3>2. Member(d) /\ Here(d)' => Here(d)
      <4>1. CASE joined[d] = listed' /\ role[d] = role[c]
        <5>1. slot'[joined[d]][role[d]] = c \/ slot' = slot
          BY <4>1, <1>1, JoinSlot
        <5> QED  BY <5>1, <3>1, <2>0, <2>2 DEF Here
      <4>2. CASE ~(joined[d] = listed' /\ role[d] = role[c])
        BY <4>2, <3>1, <2>0, <1>0, <1>1, JoinSlot DEF Here
      <4> QED  BY <4>1, <4>2
    <3>3. partner[d] = Nobody
      <4>1. \/ partner' = partner
            \/ \E other \in Conns : partner' = [partner EXCEPT ![c] = other, ![other] = c]
        <5>1. listed' \in Rooms /\ Opposite(role[c]) \in Roles
          BY <1>1, Joining
        <5>2. slot[listed'][Opposite(role[c])] \in Conns \cup {Nobody}
          BY <5>1, Slots
        <5> QED  BY <5>2, <1>1 DEF Join
      <4>2. c # Nobody
        BY Names
      <4> QED  BY <4>1, <4>2, <2>2 DEF Types
    <3> QED  BY <3>1, <3>2, <3>3, <2>0, <1>0
  <2> QED  BY <2>1, <2>2
<1>2. ASSUME NEW c \in Conns, TakeHeld(c) PROVE Goal
  <2>0. UNCHANGED <<role, joined, slot, read, got, partner>>
        /\ (Here(d)' <=> Here(d)) /\ (Member(d)' <=> Member(d)) /\ Member(c)
    BY <1>2, Taking DEF Here, Member
  <2>1. CASE d = c
    <3>1. pc[d] = "take" /\ batch'[d] = held[joined[d]] /\ held'[joined[d]] = <<>> /\ pc'[d] # "forward"
      BY <2>1, <1>2, Taking
    <3>2. Here(d) /\ read[d] = 0
      BY <2>0, <2>1, <3>1 DEF LeftInv, StageInv
    <3>3. held[joined[d]] = <<>>
      <4>1. held[joined[d]] \in Seq(Frames) /\ Len(held[joined[d]]) = 0
        BY <2>0, <2>1, <3>2, <1>0 DEF Types
      <4> QED  BY <4>1, EmptySeq
    <3> QED  BY <3>1, <3>2, <3>3, <2>0, <1>0
  <2>2. CASE d # c
    <3>1. pc'[d] = pc[d] /\ batch'[d] = batch[d]
      BY <2>2, <1>2, Taking
    <3>2. Member(d) => held'[joined[d]] = held[joined[d]]
      BY <2>2, <2>0, <1>a, <1>0, <1>2, Taking
    <3> QED  BY <3>1, <3>2, <2>0, <1>0
  <2> QED  BY <2>1, <2>2
<1>3. ASSUME NEW c \in Conns, Deliver(c) PROVE Goal
  <2>0. UNCHANGED <<role, joined, slot, read, held, partner>>
        /\ (Here(d)' <=> Here(d)) /\ (Member(d)' <=> Member(d))
    BY <1>3, Delivering DEF Here, Member
  <2>1. d # c
    BY <2>0, <1>0, <1>3, Delivering
  <2>2. pc'[d] = pc[d] /\ batch'[d] = batch[d] /\ got'[d] = got[d]
    BY <2>1, <1>3, Delivering
  <2> QED  BY <2>0, <2>2, <1>0
<1>4. ASSUME NEW c \in Conns, ReadFrame(c) PROVE Goal
  <2>0. UNCHANGED <<role, joined, slot, batch, got, partner>>
        /\ (Here(d)' <=> Here(d)) /\ (Member(d)' <=> Member(d)) /\ Member(c)
    BY <1>4, Reading DEF Here, Member
  <2>1. CASE d = c
    <3>1. Here(d) /\ pc[d] = "read"
      BY <2>0, <2>1, <1>4, Reading DEF LeftInv
    <3>2. slot[joined[d]][Opposite(role[d])] = Nobody
      BY <2>0, <2>1, Opposed, Names
    <3>3. /\ held'[joined[d]] = Append(held[joined[d]], <<d, read[d] + 1>>) /\ pc'[d] # "forward"
          /\ read'[d] = read[d] + 1
      BY <3>2, <2>1, <1>4, Reading
    <3>4. held[joined[d]] \in Seq(Frames) /\ IsRun(held[joined[d]], d, 0) /\ Len(held[joined[d]]) = read[d]
      BY <3>1, <2>0, <2>1, <1>0 DEF Types
    <3>5. read[d] + 1 = 0 + Len(held[joined[d]]) + 1
      BY <3>4
    <3>6. /\ IsRun(Append(held[joined[d]], <<d, read[d] + 1>>), d, 0)
          /\ Len(Append(held[joined[d]], <<d, read[d] + 1>>)) = Len(held[joined[d]]) + 1
      BY <3>4, <3>5, RunAppend
    <3> QED  BY <3>1, <3>3, <3>4, <3>6, <2>0, <1>0
  <2>2. CASE d # c
    <3>1. pc'[d] = pc[d] /\ read'[d] = read[d]
      BY <2>2, <1>4, Reading
    <3>2. Member(d) => held'[joined[d]] = held[joined[d]]
      BY <2>2, <2>0, <1>a, <1>0, <1>4, Reading
    <3> QED  BY <3>1, <3>2, <2>0, <1>0
  <2> QED  BY <2>1, <2>2
<1>5. ASSUME NEW c \in Conns, Forward(c) PROVE Goal
  <2>0. UNCHANGED <<role, joined, slot, batch, read, held, partner>>
        /\ (Here(d)' <=> Here(d)) /\ (Member(d)' <=> Member(d)) /\ pc[c] = "forward"
    BY <1>5, Forwarding DEF Here, Member
  <2>1. peer[c] = partner[c] /\ partner[partner[c]] = c /\ partner[c] # Nobody
    <3>1. partner[c] \in Conns
      BY <2>0 DEF AloneInv, Types
    <3>2. partner[partner[c]] = c
      BY <3>1, Names DEF PairInv
    <3> QED  BY <3>1, <3>2, <2>0, Names DEF StreamInv, InHand
  <2>2. d # peer[c] /\ d # c
    BY <2>0, <2>1, Names
  <2>3. pc'[d] = pc[d] /\ got'[d] = got[d]
    BY <2>2, <1>5, Forwarding
  <2> QED  BY <2>0, <2>3, <1>0
<1>6. ASSUME NEW c \in Conns, CleanUp(c) PROVE Goal
  <2>0. UNCHANGED <<role, joined, read, batch, got, partner>> /\ (Member(d)' <=> Member(d)) /\ Member(c)
    BY <1>6, Cleaning, CleaningRoom DEF Member
  <2>1. Member(d) /\ Here(d)' => Here(d) /\ joined[d] # joined[c]
    <3>1. CASE Here(c) /\ \A ro \in Roles : slot'[joined[c]][ro] = Nobody
      <4>1. Member(d) /\ Here(d)' => joined[d] # joined[c]
        BY <3>1, <2>0, <1>0 DEF Here
      <4> QED  BY <4>1, <2>0, <1>0, <1>6, Cleaning DEF Here
    <3>2. CASE ~Here(c) /\ slot' = slot
      <4>1. Here(d)' <=> Here(d)
        BY <3>2, <2>0 DEF Here
      <4> QED  BY <4>1, <3>2, <2>0, <1>a
    <3> QED  BY <3>1, <3>2, <1>6, Cleaning
  <2>2. pc'[d] # "forward"
    BY <2>0, <1>0, <1>6, Cleaning
  <2> QED  BY <2>0, <2>1, <2>2, <1>0, <1>6, CleaningRoom
<1>7. ASSUME NEW c \in Conns, ReadFails(c) \/ ClientLeaves(c) \/ CloseBoth(c) PROVE Goal
  <2>0. UNCHANGED <<role, joined, slot, batch, read, held, got, partner>> /\ (Here(d)' <=> Here(d))
    BY <1>7 DEF ReadFails, ClientLeaves, CloseBoth, Here
  <2>1. pc'[d] = pc[d] \/ (pc[d] = "read" /\ pc'[d] = "clean") \/ pc'[d] = "end"
    BY <1>7 DEF ReadFails, ClientLeaves, CloseBoth, Goto, Types
  <2> QED  BY <2>0, <2>1, <1>0 DEF Member
<1>8. CASE Expire
  BY <1>0, <1>8 DEF Expire, Here, Member
<1>9. CASE UNCHANGED vars
  BY <1>0, <1>9 DEF vars, Here, Member
<1> QED  BY <1>1, <1>2, <1>3, <1>4, <1>5, <1>6, <1>7, <1>8, <1>9 DEF Next, Step

(* One direction of a pair: what b has of the frames of a.                 *)
Stream(a, b) ==
  /\ Len(got[b]) <= read[a]
  /\ HeldFor(a, b)
  /\ InHand(a, b)
  /\ CaughtUp(a, b)

LEMMA HeldNext ==
  Types /\ RoomInv /\ PairInv /\ LeftInv /\ StageInv /\ HeldInv /\ [Next]_vars => HeldInv'
<1> SUFFICES ASSUME Types, RoomInv, PairInv, LeftInv, StageInv, HeldInv, [Next]_vars,
                    NEW d \in Conns, pc'[d] \in {"read", "forward"}
             PROVE  Len(held'[joined'[d]]) <= HeldLimit
  BY DEF HeldInv
<1>0. pc[d] \in {"read", "forward"} =>
        Len(held[joined[d]]) <= HeldLimit /\ joined[d] \in Rooms /\ Member(d)
  BY DEF HeldInv, Types, RoomInv, Member
<1>1. ASSUME NEW c \in Conns, Join(c) PROVE Len(held'[joined'[d]]) <= HeldLimit
  <2>1. d # c
    BY <1>1, Joining
  <2> QED  BY <2>1, <1>0, <1>1, Joining DEF Join
<1>2. ASSUME NEW c \in Conns, TakeHeld(c) PROVE Len(held'[joined'[d]]) <= HeldLimit
  <2>1. Len(<<>>) <= HeldLimit
    BY Names
  <2>2. CASE joined[d] = joined[c]
    BY <2>1, <2>2, <1>2, Taking
  <2>3. CASE joined[d] # joined[c]
    <3>1. d # c /\ pc'[d] = pc[d]
      BY <2>3, <1>2, Taking
    <3> QED  BY <3>1, <2>3, <1>0, <1>2, Taking
  <2> QED  BY <2>2, <2>3
<1>3. ASSUME NEW c \in Conns, Deliver(c) PROVE Len(held'[joined'[d]]) <= HeldLimit
  BY <1>0, <1>3, Delivering
<1>4. ASSUME NEW c \in Conns, ReadFrame(c) PROVE Len(held'[joined'[d]]) <= HeldLimit
  <2>1. pc[d] \in {"read", "forward"} /\ joined' = joined
    BY <1>4, Reading
  <2>2. CASE held'[joined[d]] = held[joined[d]]
    BY <2>1, <2>2, <1>0
  <2>3. CASE d = c
    BY <2>1, <2>3, <1>0, <1>4, Reading
  <2>4. CASE d # c /\ joined[d] = joined[c]
    <3>1. Member(c) /\ Member(d) /\ pc[c] = "read"
      BY <2>1, <1>0, <1>4, Reading DEF Member
    <3>2. partner[d] = c /\ partner[c] = d /\ role[d] = Opposite(role[c])
      BY <2>4, <3>1, OwnPlace
    <3>3. Here(d)
      BY <3>1, <3>2, <2>1 DEF LeftInv
    <3>4. ready[joined[c]][Opposite(role[c])] /\ slot[joined[c]][Opposite(role[c])] # Nobody
      BY <3>1, <3>2, <3>3, <2>1, <2>4, Names DEF StageInv, Here
    <3>5. held' = held
      BY <3>4, <1>4, Reading
    <3> QED  BY <3>5, <2>1, <1>0
  <2>5. joined[d] # joined[c] => held'[joined[d]] = held[joined[d]]
    BY <2>1, <1>0, <1>4, Reading
  <2> QED  BY <2>2, <2>3, <2>4, <2>5
<1>5. ASSUME NEW c \in Conns, Forward(c) PROVE Len(held'[joined'[d]]) <= HeldLimit
  BY <1>0, <1>5, Forwarding
<1>6. ASSUME NEW c \in Conns, CleanUp(c) PROVE Len(held'[joined'[d]]) <= HeldLimit
  <2>1. Len(<<>>) <= HeldLimit
    BY Names
  <2>2. pc[d] \in {"read", "forward"} /\ joined' = joined
    BY <1>6, Cleaning
  <2> QED  BY <2>1, <2>2, <1>0, <1>6, CleaningRoom
<1>7. ASSUME NEW c \in Conns, ReadFails(c) \/ ClientLeaves(c) \/ CloseBoth(c)
      PROVE  Len(held'[joined'[d]]) <= HeldLimit
  BY <1>0, <1>7 DEF ReadFails, ClientLeaves, CloseBoth, Goto, Types
<1>8. CASE Expire
  BY <1>0, <1>8 DEF Expire
<1>9. CASE UNCHANGED vars
  BY <1>0, <1>9 DEF vars
<1> QED  BY <1>1, <1>2, <1>3, <1>4, <1>5, <1>6, <1>7, <1>8, <1>9 DEF Next, Step

(* A stream neither end of which moves stays.                              *)
LEMMA StreamKept ==
  ASSUME NEW a \in Conns, NEW b \in Conns, Stream(a, b),
         pc'[a] = pc[a], read'[a] = read[a], peer'[a] = peer[a],
         pc'[b] = pc[b], got'[b] = got[b], batch'[b] = batch[b],
         Here(b) \/ pc[b] \in {"take", "deliver"} =>
           /\ joined'[b] = joined[b] /\ role'[b] = role[b]
           /\ held'[joined[b]] = held[joined[b]]
           /\ ready'[joined[b]][role[b]] = ready[joined[b]][role[b]],
         HereNext(b) <=> Here(b)
  PROVE  Stream(a, b)'
<1>1. Len(got'[b]) <= read'[a]
  BY DEF Stream
<1>2. HeldFor(a, b)'
  BY DEF Stream, HeldFor, Here, HereNext, IsRun
<1>3. InHand(a, b)'
  BY DEF Stream, InHand
<1>4. CaughtUp(a, b)'
  BY DEF Stream, CaughtUp, Here, HereNext
<1> QED  BY <1>1, <1>2, <1>3, <1>4 DEF Stream

(* The two ends of a stream, and that no third connection shares the room. *)
LEMMA Ends ==
  ASSUME Types, RoomInv, SlotInv, PairInv, NEW a \in Conns, NEW b \in Conns, partner[b] = a
  PROVE  /\ partner[a] = b /\ a # b /\ joined[a] = joined[b] /\ joined[b] \in Rooms
         /\ role[a] \in Roles /\ role[b] \in Roles
         /\ role[b] = Opposite(role[a]) /\ role[a] = Opposite(role[b])
         /\ pc[a] # "connect" /\ pc[b] # "connect"
         /\ Here(b) => Member(b) /\ pc[b] # "close"
         /\ Here(a) => Member(a)
         /\ \A c \in Conns \ {a, b} : Member(c) /\ Member(b) => joined[c] # joined[b]
<1>1. partner[a] = b /\ a # b /\ joined[a] = joined[b] /\ pc[a] # "connect" /\ pc[b] # "connect"
  BY Names DEF PairInv
<1>2. joined[b] \in Rooms /\ role[a] \in Roles /\ role[b] \in Roles
  BY <1>1 DEF Types, RoomInv
<1>3. role[a] = Opposite(role[b]) /\ role[b] = Opposite(role[a])
  BY <1>1, Names DEF PairInv
<1>4. /\ Here(b) => Member(b) /\ pc[b] # "close"
      /\ Here(a) => Member(a)
  BY <1>1, <1>2, Names DEF Here, SlotInv, Member
<1>5. ASSUME NEW c \in Conns \ {a, b}, Member(c), Member(b), joined[c] = joined[b] PROVE FALSE
  BY <1>5 DEF PairInv
<1> QED  BY <1>1, <1>2, <1>3, <1>4, <1>5

LEMMA HeldForNext ==
  ASSUME NEW a \in Conns, NEW b \in Conns
  PROVE  HeldFor(a, b)' <=>
           (pc'[b] \in {"take", "deliver"} =>
              /\ IsRun(batch'[b], a, Len(got'[b]))
              /\ Len(got'[b]) + Len(batch'[b]) <= read'[a]
              /\ HereNext(b) =>
                   /\ IsRun(held'[joined'[b]], a, Len(got'[b]) + Len(batch'[b]))
                   /\ Len(got'[b]) + Len(batch'[b]) + Len(held'[joined'[b]]) = read'[a]
              /\ ~HereNext(b) => held'[joined'[b]] = <<>>)
  BY DEF HeldFor, IsRun, Here, HereNext

LEMMA TypedAt ==
  ASSUME Types, NEW c \in Conns
  PROVE  /\ read[c] \in Nat /\ joined[c] \in Nat /\ made \in Nat
         /\ got[c] \in Seq(Frames) /\ Len(got[c]) \in Nat
         /\ batch[c] \in Seq(Frames) /\ Len(batch[c]) \in Nat
         /\ \A r \in Rooms : held[r] \in Seq(Frames) /\ Len(held[r]) \in Nat
<1>1. read[c] \in 0..MaxFrames /\ MaxFrames \in Nat
  BY Names DEF Types
<1>2. joined[c] \in Rooms \cup {0} /\ made \in Rooms \cup {0}
  BY DEF Types
<1>r. Rooms \cup {0} \subseteq Nat
  BY Names
<1>3. got[c] \in Seq(Frames) /\ batch[c] \in Seq(Frames)
  BY DEF Types
<1>4. \A r \in Rooms : held[r] \in Seq(Frames)
  BY DEF Types
<1>5. \A q \in Seq(Frames) : Len(q) \in Nat
  OBVIOUS
<1>6. read[c] \in Nat
  BY <1>1
<1>7. joined[c] \in Nat /\ made \in Nat
  BY <1>2, <1>r
<1> QED  BY <1>3, <1>4, <1>5, <1>6, <1>7

LEMMA StreamOfJoin ==
  ASSUME Types, RoomInv, SlotInv, ListedInv, FreshInv, PairInv, LeftInv,
         StageInv, AloneInv, StreamInv,
         NEW c \in Conns, Join(c),
         NEW a \in Conns, NEW b \in Conns, partner'[b] = a
  PROVE  Stream(a, b)'
<1> DEFINE other == slot[listed'][Opposite(role[c])]
<1>0. /\ UNCHANGED <<ready, held, batch, peer, read, got, role>>
      /\ pc[c] = "connect" /\ pc'[c] \in {"take", "end"} /\ joined'[c] = listed' /\ listed' \in Rooms
      /\ \A d \in Conns : d # c => pc'[d] = pc[d] /\ joined'[d] = joined[d]
      /\ role[c] \in Roles
  BY Joining DEF Join
<1>1. CASE partner[b] = a /\ a # c /\ b # c
  <2>1. Stream(a, b)
    BY <1>1 DEF StreamInv, Stream
  <2>2. joined[b] \in Rooms /\ role[b] \in Roles /\ (Here(b) => Member(b)) /\ joined'[b] = joined[b]
    BY <1>0, <1>1, Ends
  <2>3. HereNext(b) <=> Here(b)
    <3>1. CASE joined[b] = listed' /\ role[b] = role[c]
      <4>1. (slot'[joined[b]][role[b]] = c /\ slot[joined[b]][role[b]] = Nobody) \/ slot' = slot
        BY <3>1, JoinSlot
      <4> QED  BY <4>1, <2>2, <1>0, <1>1, Names DEF Here, HereNext
    <3>2. CASE ~(joined[b] = listed' /\ role[b] = role[c])
      BY <3>2, <2>2, <1>0, JoinSlot DEF Here, HereNext
    <3> QED  BY <3>1, <3>2
  <2> QED  BY <2>1, <2>2, <2>3, <1>0, <1>1, StreamKept
<1>2. CASE ~(partner[b] = a /\ a # c /\ b # c)
  <2>1. pc'[c] = "take"
    <3>1. ASSUME partner' = partner PROVE FALSE
      <4>1. pc[b] # "connect" /\ pc[a] # "connect"
        BY <3>1, Ends
      <4> QED  BY <4>1, <3>1, <1>0, <1>2
    <3> QED  BY <3>1, <1>0, JoinSlot
  <2>2. /\ partner[c] = Nobody /\ \A d \in Conns : partner[d] # c
        /\ other = Nobody => partner' = partner
        /\ other # Nobody =>
             /\ other \in Conns /\ other # c
             /\ Member(other) /\ joined[other] = listed' /\ role[other] = Opposite(role[c])
             /\ Here(other) /\ pc[other] # "close"
             /\ partner[other] = Nobody
             /\ partner' = [partner EXCEPT ![c] = other, ![other] = c]
    BY <2>1, Meeting
  <2>3. other # Nobody
    BY <2>2, <1>2, Names
  <2>4. (b = c /\ a = other) \/ (b = other /\ a = c)
    <3>1. partner'[c] = other /\ partner'[other] = c
          /\ \A d \in Conns : d \notin {c, other} => partner'[d] = partner[d]
      BY <2>2, <2>3 DEF Types
    <3> QED  BY <3>1, <2>2, <1>2
  <2>5. /\ got[c] = <<>> /\ batch[c] = <<>> /\ read[c] = 0
        /\ got[other] = <<>> /\ batch[other] = <<>> /\ pc[other] # "forward"
        /\ IsRun(held[listed'], other, 0) /\ Len(held[listed']) = read[other]
    BY <1>0, <2>2, <2>3 DEF AloneInv, StageInv
  <2>6. read[other] \in Nat /\ held[listed'] \in Seq(Frames) /\ Len(<<>>) = 0
    BY <1>0, <2>2, <2>3, TypedAt
  <2>7. /\ IsRun(<<>>, a, 0) /\ IsRun(<<>>, b, 0)
    BY RunEmpty
  <2>8. CASE b = c /\ a = other
    <3>1. pc'[b] = "take" /\ joined'[b] = listed' /\ HereNext(b) /\ pc'[a] # "forward"
      BY <1>0, <2>1, <2>2, <2>3, <2>5, <2>8, JoinSlot DEF HereNext
    <3>2. ~ready[listed'][role[b]]
      <4>1. listed # 0
        <5>1. joined[other] <= made /\ made \in Nat
          BY <2>2, <2>3, TypedAt DEF RoomInv
        <5> QED  BY <5>1, <2>2, <2>3, Joining
      <4> QED  BY <4>1, <2>1, <2>8, <1>0, Joining, JoinSlot DEF FreshInv
    <3>3. Len(got[b]) = 0 /\ Len(batch[b]) = 0 /\ got[b] = <<>> /\ batch[b] = <<>>
      BY <2>5, <2>6, <2>8
    <3>4. Len(got'[b]) <= read'[a]
      BY <1>0, <2>6, <2>8, <3>3
    <3>5. HeldFor(a, b)'
      <4>1. IsRun(batch'[b], a, Len(got'[b]))
        BY <1>0, <2>7, <3>3
      <4>2. Len(got'[b]) + Len(batch'[b]) = 0
        BY <1>0, <3>3
      <4>3. IsRun(held'[joined'[b]], a, 0) /\ 0 + Len(held'[joined'[b]]) = read'[a]
        BY <1>0, <2>5, <2>6, <2>8
      <4>4. read'[a] >= 0 /\ read'[a] \in Nat
        BY <1>0, <2>6, <2>8
      <4> QED  BY <4>1, <4>2, <4>3, <4>4, <3>1, HeldForNext
    <3> QED  BY <1>0, <3>1, <3>2, <3>4, <3>5 DEF Stream, InHand, CaughtUp
  <2>9. CASE b = other /\ a = c
    <3>1. pc'[a] = "take" /\ pc'[b] = pc[b] /\ joined'[b] = listed'
      BY <1>0, <2>1, <2>2, <2>3, <2>9
    <3>2. Len(got'[b]) = 0 /\ got'[b] = <<>> /\ batch'[b] = <<>> /\ Len(batch'[b]) = 0 /\ read'[a] = 0
      BY <1>0, <2>5, <2>6, <2>9
    <3>3. HeldFor(a, b)'
      <4>1. CASE pc[b] \in {"take", "deliver"}
        <5>1. read[b] = 0
          BY <4>1 DEF StageInv
        <5>2. held[listed'] = <<>>
          BY <5>1, <2>5, <2>6, <2>9, EmptySeq
        <5>3. held'[joined'[b]] = <<>>
          BY <5>2, <3>1, <1>0
        <5> QED  BY <5>3, <3>2, <2>6, <2>7 DEF HeldFor, IsRun
      <4>2. CASE pc[b] \notin {"take", "deliver"}
        BY <4>2, <3>1 DEF HeldFor
      <4> QED  BY <4>1, <4>2
    <3> QED  BY <3>1, <3>2, <3>3 DEF Stream, InHand, CaughtUp
  <2> QED  BY <2>4, <2>8, <2>9
<1> QED  BY <1>1, <1>2

LEMMA StreamOfTake ==
  ASSUME Types, RoomInv, SlotInv, PairInv, LeftInv, StageInv, StageInv',
         NEW c \in Conns, TakeHeld(c),
         NEW a \in Conns, NEW b \in Conns, partner[b] = a, Stream(a, b)
  PROVE  Stream(a, b)'
<1>0. /\ UNCHANGED <<role, joined, slot, peer, read, got>>
      /\ pc[c] = "take" /\ Member(c) /\ pc'[c] \in {"read", "deliver"}
      /\ \A d \in Conns : d # c => pc'[d] = pc[d] /\ batch'[d] = batch[d]
      /\ held'[joined[c]] = <<>> /\ \A s \in Rooms : s # joined[c] => held'[s] = held[s]
      /\ batch'[c] = held[joined[c]] /\ (held[joined[c]] = <<>> <=> pc'[c] = "read")
      /\ \A d \in Conns : HereNext(d) <=> Here(d)
  BY Taking DEF Member, Here, HereNext
<1>1. /\ partner[a] = b /\ a # b /\ joined[a] = joined[b] /\ joined[b] \in Rooms
      /\ role[b] \in Roles
      /\ \A d \in Conns \ {a, b} : Member(d) /\ Member(b) => joined[d] # joined[b]
      /\ (Here(b) => Member(b))
  BY Ends
<1>2. /\ read[a] \in Nat /\ got[b] \in Seq(Frames) /\ batch[b] \in Seq(Frames)
      /\ held[joined[b]] \in Seq(Frames) /\ Len(<<>>) = 0
  BY <1>1, TypedAt
<1>3. CASE c \notin {a, b}
  <2>1. Here(b) \/ pc[b] \in {"take", "deliver"} =>
          held'[joined[b]] = held[joined[b]] /\ ready'[joined[b]][role[b]] = ready[joined[b]][role[b]]
    BY <1>0, <1>1, <1>3, Taking DEF Member
  <2> QED  BY <2>1, <1>0, <1>3, StreamKept
<1>4. CASE c = b
  <2>1. pc[a] # "forward" /\ batch[b] = <<>> /\ pc'[a] = pc[a]
    BY <1>0, <1>1, <1>4 DEF Stream, InHand, StageInv
  <2>2. /\ Len(got[b]) <= read[a]
        /\ Here(b) => IsRun(held[joined[b]], a, Len(got[b])) /\ Len(got[b]) + Len(held[joined[b]]) = read[a]
        /\ ~Here(b) => held[joined[b]] = <<>>
    <3>1. Len(batch[b]) = 0 /\ Len(got[b]) \in Nat
      BY <1>2, <2>1
    <3>2. Len(got[b]) + Len(batch[b]) = Len(got[b])
      BY <3>1
    <3>3. HeldFor(a, b) /\ Len(got[b]) <= read[a]
      BY DEF Stream
    <3> QED  BY <3>1, <3>2, <3>3, <1>0, <1>4 DEF HeldFor
  <2>3. CASE pc'[b] = "deliver"
    <3>1. Here(b) /\ batch'[b] = held[joined[b]] /\ held'[joined[b]] = <<>>
      BY <2>2, <2>3, <1>0, <1>4
    <3>2. IsRun(held[joined[b]], a, Len(got[b])) /\ Len(got[b]) + Len(held[joined[b]]) = read[a]
      BY <2>2, <3>1
    <3>3. HeldFor(a, b)'
      <4> DEFINE g == Len(got[b])
                 n == Len(held[joined[b]])
      <4>1. g \in Nat /\ n \in Nat /\ g + n = read[a]
        BY <3>2, <1>1, TypedAt
      <4>2. Len(got'[b]) = g /\ Len(batch'[b]) = n /\ held'[joined'[b]] = <<>> /\ read'[a] = read[a]
        BY <3>1, <1>0
      <4>3. IsRun(batch'[b], a, g)
        BY <3>1, <3>2
      <4> HIDE DEF g, n
      <4>4. g + n + Len(<<>>) = read[a] /\ g + n <= read[a] /\ g + n \in Nat
        BY <4>1, RunEmpty
      <4>5. IsRun(<<>>, a, g + n)
        BY <4>4, RunEmpty
      <4> QED  BY <4>2, <4>3, <4>4, <4>5, <3>1, <1>0, HeldForNext
    <3>4. CaughtUp(a, b)'
      BY <2>3, <1>1 DEF CaughtUp, StageInv, Member, Here
    <3> QED  BY <3>3, <3>4, <2>1, <2>2, <1>0 DEF Stream, InHand
  <2>4. CASE pc'[b] = "read"
    <3>1. Here(b) => Len(got[b]) = read[a]
      <4>1. held[joined[b]] = <<>> /\ Len(got[b]) \in Nat
        BY <2>4, <1>0, <1>2, <1>4
      <4> QED  BY <4>1, <2>2, <1>2
    <3> QED  BY <3>1, <2>1, <2>2, <2>4, <1>0 DEF Stream, InHand, CaughtUp, HeldFor, Here, HereNext
  <2> QED  BY <2>3, <2>4, <1>0, <1>4
<1>5. CASE c = a
  <2>1. read[a] = 0 /\ pc'[a] \in {"read", "deliver"} /\ pc'[b] = pc[b] /\ batch'[b] = batch[b]
    BY <1>0, <1>1, <1>5 DEF StageInv
  <2>2. Len(got[b]) = 0
    BY <2>1, <1>2 DEF Stream
  <2>3. HeldFor(a, b)'
    <3>1. held'[joined[b]] = <<>>
      BY <1>0, <1>1, <1>5
    <3>2. CASE pc[b] \in {"take", "deliver"}
      <4>1. IsRun(batch[b], a, Len(got[b])) /\ Len(got[b]) + Len(batch[b]) <= read[a]
        BY <3>2 DEF Stream, HeldFor
      <4>2. Len(batch[b]) = 0
        BY <4>1, <2>1, <2>2, <1>2
      <4>3. Len(got[b]) + Len(batch[b]) + Len(<<>>) = read[a]
        BY <4>2, <2>1, <2>2
      <4>4. IsRun(<<>>, a, Len(got[b]) + Len(batch[b]))
        BY <4>2, <2>2, RunEmpty
      <4>5. /\ batch'[b] = batch[b] /\ got' = got /\ read' = read /\ joined' = joined
            /\ held'[joined[b]] = <<>>
        BY <3>1, <2>1, <1>0
      <4> QED  BY <4>1, <4>3, <4>4, <4>5, HeldForNext
    <3>3. CASE pc[b] \notin {"take", "deliver"}
      BY <3>3, <2>1 DEF HeldFor
    <3> QED  BY <3>2, <3>3
  <2> QED  BY <2>1, <2>2, <2>3, <1>0 DEF Stream, InHand, CaughtUp
<1> QED  BY <1>3, <1>4, <1>5

LEMMA StreamOfDelivery ==
  ASSUME Types, RoomInv, SlotInv, PairInv, StageInv, StageInv',
         NEW c \in Conns, Deliver(c),
         NEW a \in Conns, NEW b \in Conns, partner[b] = a, Stream(a, b)
  PROVE  Stream(a, b)'
<1>0. /\ UNCHANGED <<role, joined, slot, ready, held, peer, read>>
      /\ pc[c] = "deliver" /\ pc'[c] \in {"take", "deliver", "clean"}
      /\ \A d \in Conns : d # c => pc'[d] = pc[d] /\ batch'[d] = batch[d] /\ got'[d] = got[d]
      /\ \A d \in Conns : HereNext(d) <=> Here(d)
  BY Delivering DEF Here, HereNext
<1>1. a # b /\ joined[b] \in Rooms /\ (Here(b) => Member(b))
  BY Ends
<1>2. CASE c \notin {a, b}
  BY <1>0, <1>2, StreamKept
<1>3. CASE c = a
  <2>1. HeldFor(a, b)'
    BY <1>0, <1>1, <1>3, HeldForNext DEF Stream, HeldFor
  <2> QED  BY <2>1, <1>0, <1>1, <1>3 DEF Stream, InHand, CaughtUp
<1>4. CASE c = b
  <2>1. pc[a] # "forward" /\ pc'[a] = pc[a]
    BY <1>0, <1>1, <1>4 DEF Stream, InHand
  <2>2. HeldFor(a, b) /\ Len(got[b]) <= read[a]
    BY DEF Stream
  <2>3. CASE pc'[b] = "clean" /\ got' = got /\ batch' = batch
    <3>1. ~(Here(b) /\ ready[joined[b]][role[b]])
      BY <1>0, <1>1, <1>4 DEF StageInv
    <3> QED  BY <3>1, <2>1, <2>2, <2>3, <1>0 DEF Stream, InHand, CaughtUp, HeldFor, Here, HereNext
  <2>4. CASE /\ got'[b] = Append(got[b], Head(batch[b])) /\ batch'[b] = Tail(batch[b])
             /\ pc'[b] \in {"take", "deliver"}
    <3> DEFINE g == Len(got[b])
               n == Len(batch[b])
               h == Len(held[joined[b]])
    <3>1. /\ g \in Nat /\ h \in Nat /\ read[a] \in Nat
          /\ got[b] \in Seq(Frames) /\ batch[b] \in Seq(Frames) /\ batch[b] # <<>>
      BY <1>0, <1>1, <1>4, TypedAt DEF StageInv
    <3>2. /\ IsRun(batch[b], a, g) /\ g + n <= read[a]
          /\ Here(b) => IsRun(held[joined[b]], a, g + n) /\ g + n + h = read[a]
          /\ ~Here(b) => held[joined[b]] = <<>>
      BY <2>2, <1>0, <1>4 DEF HeldFor
    <3>3. /\ IsRun(Tail(batch[b]), a, g + 1) /\ Len(Tail(batch[b])) = n - 1
          /\ n \in Nat /\ n > 0 /\ Head(batch[b]) \in Frames
      BY <3>1, <3>2, RunTail
    <3>4. Len(got'[b]) = g + 1 /\ Len(batch'[b]) = n - 1
      BY <2>4, <3>1, <3>3
    <3>5. held'[joined'[b]] = held[joined[b]] /\ Len(held'[joined'[b]]) = h /\ read'[a] = read[a]
      BY <1>0
    <3>6. IsRun(batch'[b], a, g + 1)
      BY <2>4, <3>3
    <3> HIDE DEF g, n, h
    <3>7. g + 1 + (n - 1) = g + n /\ g + 1 <= read[a]
      BY <3>1, <3>2, <3>3
    <3>8. HeldFor(a, b)' /\ Len(got'[b]) <= read'[a]
      <4> DEFINE m == g + 1 + (n - 1)
      <4>1. m = g + n
        BY <3>7
      <4>2. /\ HereNext(b) => IsRun(held'[joined'[b]], a, m) /\ m + h = read'[a]
            /\ ~HereNext(b) => held'[joined'[b]] = <<>>
        BY <4>1, <3>2, <3>5, <1>0
      <4>3. m <= read'[a]
        BY <4>1, <3>2, <3>5
      <4>4. Len(got'[b]) + Len(batch'[b]) = m
        BY <3>4
      <4> HIDE DEF m
      <4>5. IsRun(batch'[b], a, Len(got'[b]))
        BY <3>4, <3>6
      <4>6. HeldFor(a, b)'
        BY <4>2, <4>3, <4>4, <4>5, <3>5, HeldForNext
      <4> QED  BY <4>6, <3>4, <3>5, <3>7
    <3>9. CaughtUp(a, b)'
      BY <2>4, <1>1, <1>0 DEF CaughtUp, StageInv, Member, Here, HereNext
    <3> QED  BY <3>8, <3>9, <2>1, <1>0 DEF Stream, InHand
  <2> QED  BY <2>3, <2>4, <1>4, Delivering
<1> QED  BY <1>2, <1>3, <1>4

LEMMA StreamOfRead ==
  ASSUME Types, RoomInv, SlotInv, PairInv, LeftInv, StageInv,
         NEW c \in Conns, ReadFrame(c),
         NEW a \in Conns, NEW b \in Conns, partner[b] = a, Stream(a, b)
  PROVE  Stream(a, b)'
<1>0. /\ UNCHANGED <<role, joined, slot, ready, batch, got>>
      /\ pc[c] = "read" /\ pc'[c] \in {"read", "forward", "clean"} /\ Member(c)
      /\ \A d \in Conns : d # c => pc'[d] = pc[d] /\ read'[d] = read[d] /\ peer'[d] = peer[d]
      /\ \A d \in Conns : HereNext(d) <=> Here(d)
      /\ \A s \in Rooms : s # joined[c] => held'[s] = held[s]
  BY Reading DEF Here, HereNext, Member
<1>1. /\ partner[a] = b /\ a # b /\ joined[a] = joined[b] /\ joined[b] \in Rooms
      /\ role[b] = Opposite(role[a])
      /\ \A d \in Conns \ {a, b} : Member(d) /\ Member(b) => joined[d] # joined[b]
      /\ (Here(b) => Member(b))
  BY Ends
<1>2. CASE c \notin {a, b}
  <2>1. Here(b) \/ pc[b] \in {"take", "deliver"} => held'[joined[b]] = held[joined[b]]
    BY <1>0, <1>1, <1>2 DEF Member
  <2> QED  BY <2>1, <1>0, <1>2, StreamKept
<1>3. CASE c = b
  <2>1. HeldFor(a, b)'
    BY <1>0, <1>3 DEF HeldFor
  <2> QED  BY <2>1, <1>0, <1>1, <1>3 DEF Stream, InHand, CaughtUp, Here, HereNext
<1>4. CASE c = a
  <2> DEFINE g == Len(got[b])
             n == Len(batch[b])
             h == Len(held[joined[b]])
  <2>0. /\ g \in Nat /\ n \in Nat /\ h \in Nat /\ read[a] \in Nat
        /\ held[joined[b]] \in Seq(Frames)
    BY <1>1, TypedAt
  <2>1. pc'[b] = pc[b] /\ read'[a] = read[a] + 1 /\ Len(got'[b]) = g /\ Len(batch'[b]) = n
    BY <1>0, <1>1, <1>4, Reading
  <2>2. g <= read[a] /\ HeldFor(a, b) /\ InHand(a, b) /\ CaughtUp(a, b)
    BY DEF Stream
  <2>3. g <= read'[a]
    <3> HIDE DEF g
    <3> QED  BY <2>0, <2>1, <2>2
  <2>4. CASE /\ ready[joined[a]][Opposite(role[a])] /\ slot[joined[a]][Opposite(role[a])] # Nobody
             /\ peer'[a] = slot[joined[a]][Opposite(role[a])]
             /\ pc'[a] = "forward"
    <3>1. peer'[a] = b /\ Here(b) /\ Member(b)
      BY <2>4, <1>0, <1>1, <1>4, Opposed
    <3>2. ready[joined[b]][role[b]]
      BY <2>4, <1>1
    <3>3. g = read[a]
      BY <2>2, <3>1, <3>2, <1>0, <1>4 DEF CaughtUp
    <3>4. pc[b] \notin {"connect", "take", "deliver"}
      BY <3>1, <3>2 DEF StageInv, Member
    <3>5. InHand(a, b)'
      BY <3>1, <3>3, <3>4, <2>1 DEF InHand
    <3> QED  BY <3>4, <3>5, <2>1, <2>3, <2>4 DEF Stream, HeldFor, CaughtUp
  <2>5. CASE /\ ~(ready[joined[a]][Opposite(role[a])] /\ slot[joined[a]][Opposite(role[a])] # Nobody)
             /\ held'[joined[a]] = Append(held[joined[a]], <<a, read[a] + 1>>)
             /\ pc'[a] \in {"read", "clean"}
    <3>1. ~(Here(b) /\ ready[joined[b]][role[b]])
      BY <2>5, <1>1, Names DEF Here
    <3>2. HeldFor(a, b)'
      <4>1. CASE pc[b] \in {"take", "deliver"}
        <5>1. Here(b)
          BY <4>1, <1>0, <1>1, <1>4 DEF LeftInv, Member
        <5>2. /\ IsRun(batch[b], a, g) /\ g + n <= read[a]
              /\ IsRun(held[joined[b]], a, g + n) /\ g + n + h = read[a]
          BY <4>1, <5>1, <2>2 DEF HeldFor
        <5>3. h = Len(held[joined[b]])
          OBVIOUS
        <5>4. IsRun(batch'[b], a, g) /\ held'[joined'[b]] = Append(held[joined[b]], <<a, read[a] + 1>>)
          BY <5>2, <2>5, <1>0, <1>1
        <5> HIDE DEF g, n, h
        <5>5. g + n \in Nat /\ read[a] + 1 = (g + n) + h + 1
          BY <5>2, <2>0
        <5>6. /\ IsRun(Append(held[joined[b]], <<a, read[a] + 1>>), a, g + n)
              /\ Len(Append(held[joined[b]], <<a, read[a] + 1>>)) = h + 1
          BY <5>2, <5>3, <5>5, <2>0, RunAppend
        <5>7. (g + n) + (h + 1) = read'[a] /\ g + n <= read'[a]
          BY <5>2, <5>5, <2>0, <2>1
        <5> DEFINE m == g + n
        <5>8. Len(got'[b]) + Len(batch'[b]) = m /\ IsRun(batch'[b], a, Len(got'[b]))
          BY <5>4, <2>1
        <5>9. /\ IsRun(held'[joined'[b]], a, m) /\ m + Len(held'[joined'[b]]) = read'[a]
              /\ m <= read'[a]
          BY <5>4, <5>6, <5>7
        <5> HIDE DEF m
        <5> QED  BY <5>1, <5>8, <5>9, <1>0, HeldForNext
      <4>2. CASE pc[b] \notin {"take", "deliver"}
        BY <4>2, <2>1 DEF HeldFor
      <4> QED  BY <4>1, <4>2
    <3> QED  BY <3>1, <3>2, <2>1, <2>3, <2>5, <1>0 DEF Stream, InHand, CaughtUp, Here, HereNext
  <2> QED  BY <2>4, <2>5, <1>4, Reading
<1> QED  BY <1>2, <1>3, <1>4

LEMMA StreamOfForward ==
  ASSUME Types, RoomInv, SlotInv, PairInv, AloneInv, StreamInv,
         NEW c \in Conns, Forward(c),
         NEW a \in Conns, NEW b \in Conns, partner[b] = a, Stream(a, b)
  PROVE  Stream(a, b)'
<1>0. /\ UNCHANGED <<role, joined, slot, ready, held, batch, read>>
      /\ pc[c] = "forward" /\ pc'[c] \in {"read", "clean"}
      /\ \A d \in Conns : d # c => pc'[d] = pc[d] /\ peer'[d] = peer[d]
      /\ \A d \in Conns : HereNext(d) <=> Here(d)
  BY Forwarding DEF Here, HereNext
<1>1. partner[a] = b /\ a # b
  BY Ends
<1>2. peer[c] = partner[c] /\ partner[c] \in Conns /\ partner[partner[c]] = c
  <2>1. partner[c] \in Conns
    BY <1>0 DEF AloneInv, Types
  <2>2. partner[partner[c]] = c
    BY <2>1, Names DEF PairInv
  <2> QED  BY <2>1, <2>2, <1>0 DEF StreamInv, InHand
<1>3. CASE c \notin {a, b}
  <2>1. got'[b] = got[b]
    BY <1>1, <1>2, <1>3, Forwarding
  <2> QED  BY <2>1, <1>0, <1>3, StreamKept
<1>4. CASE c = b
  <2>1. got'[b] = got[b] /\ pc'[a] = pc[a] /\ peer'[a] = peer[a]
    BY <1>0, <1>1, <1>2, <1>4, Forwarding
  <2>2. HeldFor(a, b)'
    BY <1>0, <1>4 DEF HeldFor
  <2> QED  BY <2>1, <2>2, <1>0, <1>4 DEF Stream, InHand, CaughtUp, Here, HereNext
<1>5. CASE c = a
  <2>1. pc'[b] = pc[b] /\ pc[b] \notin {"connect", "take", "deliver"} /\ Len(got[b]) + 1 = read[a]
    BY <1>0, <1>1, <1>5 DEF Stream, InHand
  <2>2. HeldFor(a, b)'
    BY <2>1 DEF HeldFor
  <2>3. InHand(a, b)'
    BY <1>0, <1>5 DEF InHand
  <2>4. CASE pc'[a] = "read" /\ got' = [got EXCEPT ![peer[a]] = Append(@, <<a, read[a]>>)]
    <3>1. got'[b] = Append(got[b], <<a, read[a]>>)
      BY <2>4, <1>1, <1>2, <1>5 DEF Types
    <3>2. <<a, read[a]>> \in Frames
      <4>1. read[a] \in 1..MaxFrames
        <5>1. read[a] \in 0..MaxFrames /\ Len(got[b]) \in Nat /\ MaxFrames \in Nat
          BY TypedAt, Names DEF Types
        <5> QED  BY <5>1, <2>1
      <4> QED  BY <4>1 DEF Frames
    <3>3. Len(got'[b]) = Len(got[b]) + 1
      BY <3>1, <3>2, TypedAt
    <3> QED  BY <3>3, <2>1, <2>2, <2>3, <1>0, TypedAt DEF Stream, CaughtUp
  <2>5. CASE pc'[a] = "clean" /\ got' = got
    BY <2>2, <2>3, <2>5, <1>0 DEF Stream, CaughtUp
  <2> QED  BY <2>4, <2>5, <1>5, Forwarding
<1> QED  BY <1>3, <1>4, <1>5

LEMMA StreamOfCleanUp ==
  ASSUME Types, RoomInv, SlotInv, PairInv, LeftInv,
         NEW c \in Conns, CleanUp(c),
         NEW a \in Conns, NEW b \in Conns, partner[b] = a, Stream(a, b)
  PROVE  Stream(a, b)'
<1>0. /\ UNCHANGED <<role, joined, batch, read, got>>
      /\ pc[c] = "clean" /\ pc'[c] = "close" /\ Member(c)
      /\ \A d \in Conns : d # c => pc'[d] = pc[d] /\ peer'[d] = peer[d]
      /\ held'[joined[c]] = <<>> /\ \A s \in Rooms : s # joined[c] => held'[s] = held[s]
      /\ \/ Here(c) /\ \A ro \in Roles : slot'[joined[c]][ro] = Nobody
         \/ ~Here(c) /\ slot' = slot /\ ready' = ready
      /\ \A s \in Rooms : s # joined[c] => slot'[s] = slot[s] /\ ready'[s] = ready[s]
  BY Cleaning, CleaningRoom DEF Member
<1>1. /\ partner[a] = b /\ a # b /\ joined[a] = joined[b] /\ joined[b] \in Rooms
      /\ role[b] \in Roles /\ b # Nobody
      /\ \A d \in Conns \ {a, b} : Member(d) /\ Member(b) => joined[d] # joined[b]
      /\ (Here(b) => Member(b))
  BY Ends, Names
<1>2. CASE c \notin {a, b}
  <2>1. Member(b) => joined[b] # joined[c]
    BY <1>0, <1>1, <1>2
  <2>2. HereNext(b) <=> Here(b)
    <3>1. CASE joined[b] # joined[c]
      BY <3>1, <1>0, <1>1 DEF Here, HereNext
    <3>2. CASE joined[b] = joined[c]
      <4>1. ~Here(b)
        BY <3>2, <2>1, <1>1
      <4>2. ~HereNext(b)
        BY <4>1, <3>2, <1>0, <1>1 DEF Here, HereNext
      <4> QED  BY <4>1, <4>2
    <3> QED  BY <3>1, <3>2
  <2>3. Here(b) \/ pc[b] \in {"take", "deliver"} =>
          held'[joined[b]] = held[joined[b]] /\ ready'[joined[b]][role[b]] = ready[joined[b]][role[b]]
    BY <2>1, <1>0, <1>1 DEF Member
  <2> QED  BY <2>2, <2>3, <1>0, <1>2, StreamKept
<1>3. CASE c = b
  <2>1. ~HereNext(b)
    BY <1>0, <1>1, <1>3 DEF Here, HereNext
  <2> QED  BY <2>1, <1>0, <1>1, <1>3 DEF Stream, HeldFor, InHand, CaughtUp, Here, HereNext
<1>4. CASE c = a
  <2>1. HeldFor(a, b)'
    <3>1. CASE pc[b] \in {"take", "deliver"}
      <4>1. Here(a)
        BY <3>1, <1>0, <1>1, <1>4 DEF LeftInv
      <4>2. ~HereNext(b)
        BY <4>1, <1>0, <1>1, <1>4 DEF HereNext
      <4>3. held'[joined'[b]] = <<>>
        BY <1>0, <1>1, <1>4
      <4> QED  BY <4>2, <4>3, <3>1, <1>0, HeldForNext DEF Stream, HeldFor
    <3>2. CASE pc[b] \notin {"take", "deliver"}
      BY <3>2, <1>0, <1>1, <1>4 DEF HeldFor
    <3> QED  BY <3>1, <3>2
  <2> QED  BY <2>1, <1>0, <1>1, <1>4 DEF Stream, InHand, CaughtUp
<1> QED  BY <1>2, <1>3, <1>4

LEMMA StreamNext ==
  /\ Types /\ RoomInv /\ SlotInv /\ ListedInv /\ FreshInv /\ PairInv /\ LeftInv
  /\ StageInv /\ StageInv' /\ AloneInv /\ StreamInv /\ [Next]_vars
  => StreamInv'
<1> SUFFICES ASSUME Types, RoomInv, SlotInv, ListedInv, FreshInv, PairInv, LeftInv,
                    StageInv, StageInv', AloneInv, StreamInv, [Next]_vars,
                    NEW a \in Conns, NEW b \in Conns, partner'[b] = a
             PROVE  Stream(a, b)'
  BY DEF StreamInv, Stream, HeldFor, InHand, CaughtUp, Here, IsRun
<1>0. partner' = partner => partner[b] = a /\ Stream(a, b)
  BY DEF StreamInv, Stream
<1>1. ASSUME NEW c \in Conns, Join(c) PROVE Stream(a, b)'
  BY <1>1, StreamOfJoin
<1>2. ASSUME NEW c \in Conns, TakeHeld(c) PROVE Stream(a, b)'
  <2>1. partner' = partner
    BY <1>2 DEF TakeHeld
  <2> QED  BY <1>0, <1>2, <2>1, StreamOfTake
<1>3. ASSUME NEW c \in Conns, Deliver(c) PROVE Stream(a, b)'
  <2>1. partner' = partner
    BY <1>3 DEF Deliver
  <2> QED  BY <1>0, <1>3, <2>1, StreamOfDelivery
<1>4. ASSUME NEW c \in Conns, ReadFrame(c) PROVE Stream(a, b)'
  <2>1. partner' = partner
    BY <1>4 DEF ReadFrame
  <2> QED  BY <1>0, <1>4, <2>1, StreamOfRead
<1>5. ASSUME NEW c \in Conns, Forward(c) PROVE Stream(a, b)'
  <2>1. partner' = partner
    BY <1>5 DEF Forward
  <2> QED  BY <1>0, <1>5, <2>1, StreamOfForward
<1>6. ASSUME NEW c \in Conns, CleanUp(c) PROVE Stream(a, b)'
  <2>1. partner' = partner
    BY <1>6 DEF CleanUp
  <2> QED  BY <1>0, <1>6, <2>1, StreamOfCleanUp
<1>7. ASSUME NEW c \in Conns, ReadFails(c) \/ ClientLeaves(c) \/ CloseBoth(c) PROVE Stream(a, b)'
  <2>1. UNCHANGED <<role, joined, slot, ready, held, batch, peer, read, got, partner>>
    BY <1>7 DEF ReadFails, ClientLeaves, CloseBoth
  <2>2. \A d \in Conns : \/ pc'[d] = pc[d]
                         \/ pc[d] = "read" /\ pc'[d] = "clean"
                         \/ pc[d] = "close" /\ pc'[d] = "end"
    BY <1>7 DEF ReadFails, ClientLeaves, CloseBoth, Goto, Types
  <2>3. HeldFor(a, b)'
    BY <2>1, <2>2, <1>0, HeldForNext DEF Stream, HeldFor, Here, HereNext
  <2>4. InHand(a, b)'
    BY <2>1, <2>2, <1>0 DEF Stream, InHand
  <2>5. CaughtUp(a, b)'
    BY <2>1, <2>2, <1>0 DEF Stream, CaughtUp, Here
  <2> QED  BY <2>1, <2>3, <2>4, <2>5, <1>0 DEF Stream
<1>8. CASE UNCHANGED <<role, pc, joined, slot, ready, held, batch, peer, read, got, partner>>
  BY <1>0, <1>8 DEF Stream, HeldFor, InHand, CaughtUp, Here, IsRun
<1> QED  BY <1>1, <1>2, <1>3, <1>4, <1>5, <1>6, <1>7, <1>8 DEF Next, Step, Expire, vars

LEMMA NextInv == IInv /\ [Next]_vars => IInv'
<1> SUFFICES ASSUME IInv, [Next]_vars PROVE IInv'
  OBVIOUS
<1>1. /\ TypeOK /\ Types /\ RoomInv /\ SlotInv /\ ListedInv /\ FreshInv /\ PairInv
      /\ LeftInv /\ StageInv /\ AloneInv /\ StreamInv /\ HeldInv
  BY TypesOK DEF IInv
<1>2. TypeOK'
  BY <1>1, TypeNext
<1>3. RoomInv' /\ SlotInv' /\ ListedInv' /\ FreshInv'
  BY <1>1, RoomNext, SlotNext, ListedNext, FreshNext
<1>4. PairInv' /\ LeftInv' /\ StageInv'
  BY <1>1, PairNext, LeftNext, StageNext
<1>5. AloneInv' /\ StreamInv' /\ HeldInv'
  BY <1>1, <1>4, AloneNext, StreamNext, HeldNext
<1> QED  BY <1>2, <1>3, <1>4, <1>5 DEF IInv

LEMMA Invariant == Spec => []IInv
<1>1. Init => IInv
  BY InitInv
<1>2. IInv /\ [Next]_vars => IInv'
  BY NextInv
<1> QED  BY <1>1, <1>2, PTL DEF Spec

(* TypeOK, with the limit of the held frames: no room holds more than one  *)
(* frame above it, however many senders share the room over time.          *)
THEOREM TypeCorrect == Spec => []TypeOK
<1>1. IInv => TypeOK
  BY DEF IInv
<1> QED  BY <1>1, Invariant, PTL

-----------------------------------------------------------------------------
(* The wire. Two connections meet when the second joins; a frame is sent   *)
(* when it is read, and arrives when it is delivered from the held ones or *)
(* forwarded. All else, the wire does not see.                             *)
LEMMA WireOfJoin ==
  ASSUME IInv, NEW c \in Conns, Join(c)
  PROVE  [W!Next]_(W!vars)
<1>1. /\ Types /\ RoomInv /\ SlotInv /\ ListedInv /\ PairInv /\ LeftInv
  BY TypesOK DEF IInv
<1>2. UNCHANGED <<read, got>> /\ pc'[c] \in {"take", "end"}
  BY <1>1, Joining DEF Join
<1>3. CASE partner' = partner
  BY <1>2, <1>3 DEF W!vars
<1>4. CASE partner' # partner
  <2> DEFINE other == slot[listed'][Opposite(role[c])]
  <2>1. pc'[c] = "take"
    BY <1>1, <1>2, <1>4, JoinSlot
  <2>2. /\ partner[c] = Nobody /\ other \in Conns /\ other # c /\ partner[other] = Nobody
        /\ partner' = [partner EXCEPT ![c] = other, ![other] = c]
    BY <1>1, <1>4, <2>1, Meeting
  <2>3. W!Meet(c, other)
    BY <1>2, <2>2 DEF W!Meet
  <2> QED  BY <2>2, <2>3 DEF W!Next
<1> QED  BY <1>3, <1>4

LEMMA WireOfDelivery ==
  ASSUME IInv, NEW b \in Conns, Deliver(b)
  PROVE  [W!Next]_(W!vars)
<1>1. Types /\ StageInv /\ AloneInv /\ StreamInv
  BY TypesOK DEF IInv
<1>2. pc[b] = "deliver" /\ batch[b] \in Seq(Frames) /\ batch[b] # <<>> /\ UNCHANGED <<read, partner>>
  BY <1>1, Delivering
<1>3. CASE got' = got
  BY <1>2, <1>3 DEF W!vars
<1>4. CASE got' = [got EXCEPT ![b] = Append(@, Head(batch[b]))]
  <2> DEFINE a == partner[b]
             n == Len(got[b]) + 1
  <2>1. a \in Conns /\ a # Nobody
    BY <1>1, <1>2 DEF AloneInv, Types
  <2>2. Len(got[b]) \in Nat /\ Len(batch[b]) \in Nat /\ read[a] \in Nat
    BY <1>1, <2>1, TypedAt
  <2>3. IsRun(batch[b], a, Len(got[b])) /\ Len(got[b]) + Len(batch[b]) <= read[a]
    BY <1>1, <1>2, <2>1 DEF StreamInv, HeldFor
  <2>4. Head(batch[b]) = <<a, n>> /\ Len(batch[b]) > 0
    BY <1>2, <2>2, <2>3, RunTail
  <2>5. n <= read[a]
    <3> DEFINE g == Len(got[b])
               k == Len(batch[b])
    <3>1. g \in Nat /\ k \in Nat /\ read[a] \in Nat /\ g + k <= read[a] /\ k > 0 /\ n = g + 1
      BY <2>2, <2>3, <2>4
    <3> HIDE DEF g, k
    <3> QED  BY <3>1
  <2>6. got' = [got EXCEPT ![b] = Append(@, <<a, n>>)]
    BY <1>4, <2>4
  <2>7. W!Arrive(b)
    BY <1>2, <2>1, <2>5, <2>6 DEF W!Arrive
  <2> QED  BY <2>7 DEF W!Next
<1> QED  BY <1>1, <1>3, <1>4, Delivering

LEMMA WireOfForward ==
  ASSUME IInv, NEW a \in Conns, Forward(a)
  PROVE  [W!Next]_(W!vars)
<1>1. Types /\ PairInv /\ AloneInv /\ StreamInv
  BY TypesOK DEF IInv
<1>2. pc[a] = "forward" /\ UNCHANGED <<read, partner>>
  BY <1>1, Forwarding
<1>3. CASE got' = got
  BY <1>2, <1>3 DEF W!vars
<1>4. CASE got' = [got EXCEPT ![peer[a]] = Append(@, <<a, read[a]>>)]
  <2> DEFINE b == partner[a]
  <2>1. b \in Conns /\ partner[b] = a
    <3>1. b \in Conns
      BY <1>1, <1>2 DEF AloneInv, Types
    <3> QED  BY <1>1, <3>1, Names DEF PairInv
  <2>2. peer[a] = b /\ Len(got[b]) + 1 = read[a]
    BY <1>1, <1>2, <2>1 DEF StreamInv, InHand
  <2>3. read[a] \in Nat /\ a # Nobody
    BY <1>1, TypedAt, Names
  <2>4. got' = [got EXCEPT ![b] = Append(@, <<a, Len(got[b]) + 1>>)]
    BY <1>4, <2>2
  <2>5. W!Arrive(b)
    BY <1>2, <2>1, <2>2, <2>3, <2>4 DEF W!Arrive
  <2> QED  BY <2>1, <2>5 DEF W!Next
<1> QED  BY <1>1, <1>3, <1>4, Forwarding

LEMMA WireStep == IInv /\ [Next]_vars => [W!Next]_(W!vars)
<1> SUFFICES ASSUME IInv, [Next]_vars PROVE [W!Next]_(W!vars)
  OBVIOUS
<1>1. ASSUME NEW c \in Conns, ReadFrame(c) PROVE [W!Next]_(W!vars)
  <2>1. W!Send(c)
    BY <1>1 DEF ReadFrame, W!Send
  <2> QED  BY <2>1 DEF W!Next
<1>2. ASSUME NEW c \in Conns,
             TakeHeld(c) \/ ReadFails(c) \/ CleanUp(c) \/ CloseBoth(c) \/ ClientLeaves(c)
      PROVE  UNCHANGED W!vars
  BY <1>2 DEF TakeHeld, ReadFails, CleanUp, CloseBoth, ClientLeaves, W!vars
<1>3. CASE Expire
  BY <1>3 DEF Expire, W!vars
<1>4. CASE UNCHANGED vars
  BY <1>4 DEF vars, W!vars
<1> QED  BY <1>1, <1>2, <1>3, <1>4, WireOfJoin, WireOfDelivery, WireOfForward DEF Next, Step

(* WireSpec: the relay implements the wire. Whatever connections join,     *)
(* leave, overflow or are expired, and however the goroutines that hold,   *)
(* deliver and forward frames interleave outside the locks, each           *)
(* connection receives the frames of its one partner, from the first on,   *)
(* in order and without a gap.                                             *)
THEOREM RelayIsAWire == Spec => WireSpec
<1>1. Init => W!Init
  BY DEF Init, W!Init
<1>2. IInv /\ [Next]_vars => [W!Next]_(W!vars)
  BY WireStep
<1> QED  BY <1>1, <1>2, Invariant, PTL DEF Spec, WireSpec, W!Spec

=============================================================================
