-------------------------- MODULE SyncPairsProofs ---------------------------
(***************************************************************************)
(* Proofs about SyncPairs, for any records, directions, processes and      *)
(* numbers of writes, failures and commands: the two devices decide alike, *)
(* an exchange that finds nothing changed hides nothing, a checkpoint      *)
(* records a completed transfer, and nothing is stored without permission. *)
(*                                                                         *)
(* While the devices are connected the session is in one of a few phases   *)
(* (Phase): who is where and which frames are on the way. Once the         *)
(* connection is gone each goes on alone with what is left in its inbox    *)
(* (Awaits). The other parts of the invariant say what the frames mean: to *)
(* the decision (VerdictInv, SnapshotInv), to the transfer (TransferInv)   *)
(* and to what the other device held at an earlier moment (BoundInv), from *)
(* which a checkpoint tells more than equality of digests (CheckpointInv). *)
(***************************************************************************)
EXTENDS SyncPairs, SequenceTheorems, WellFoundedInduction, TLAPS

Le(a, b) == \A k \in Keys : a[k] <= b[k]

-----------------------------------------------------------------------------
(* Frames.                                                                 *)

PlainFrames ==
  [kind : {"forgotten", "grant", "request", "pull", "manifest", "end", "ack", "refused"}]

StatusFrames == [kind : {"status"}, state : States, enabled : BOOLEAN]

SnapshotFrames ==
  [kind : {"snapshot"}, digest : Manifests,
   last_local : Manifests \cup {Unknown}, last_remote : Manifests \cup {Unknown}]

ChunkFrames == [kind : {"chunk", "push"}, records : Manifests]

Frames == PlainFrames \cup StatusFrames \cup SnapshotFrames \cup ChunkFrames

FramesOf(s) == {s[i] : i \in 1..Len(s)}

One(s, kind) == Len(s) = 1 /\ s[1].kind = kind

Two(s, first, second) == Len(s) = 2 /\ s[1].kind = first /\ s[2].kind = second

-----------------------------------------------------------------------------
(* The stages of an attempt.                                               *)

Past == {"grant", "request", "swap", "send", "ack", "receive", "finish"}

Compared == {"compare"} \cup Past

InSession(d) == run[d].pc \notin {"off", "join"}

(* What is left for a device that goes on alone. *)
Alone(d, pc, s) ==
  \/ s = <<>>
  \/ One(s, "status") /\ (pc = "greet" \/ (pc = "hello" /\ d = "c"))
  \/ Two(s, "status", "forgotten") /\ pc = "greet" /\ d = "p"
  \/ Two(s, "status", "snapshot") /\ pc = "greet" /\ d = "p"
  \/ One(s, "forgotten") /\ pc = "forget"
  \/ One(s, "snapshot") /\ pc = "compare"
  \/ Two(s, "snapshot", "grant") /\ pc = "compare" /\ d = "c"
  \/ One(s, "grant") /\ pc = "grant"
  \/ One(s, "request") /\ pc = "request" /\ delta
  \/ One(s, "pull") /\ pc = "request" /\ ~delta
  \/ One(s, "push") /\ pc = "request" /\ ~delta
  \/ One(s, "manifest") /\ pc = "swap"
  \/ Two(s, "manifest", "chunk") /\ pc = "swap" /\ d = "p" /\ ~Pull("p")
  \/ Two(s, "manifest", "end") /\ pc = "swap" /\ d = "p" /\ ~Pull("p")
  \/ One(s, "chunk") /\ pc = "receive"
  \/ One(s, "end") /\ pc = "receive" /\ delta
  \/ One(s, "ack") /\ pc = "ack"
  \/ One(s, "refused") /\ pc = "ack"

Awaits(d) == Alone(d, run[d].pc, inbox[d])

(* The phases of a session while the devices are connected. *)
At(p, c) == run["p"].pc = p /\ run["c"].pc = c

Greeting ==
  /\ run["p"].pc \in {"hello", "greet"} /\ run["c"].pc \in {"hello", "greet"}
  /\ inbox["p"] = <<>>
  /\ run["p"].pc = "hello" => inbox["c"] = <<>>
  /\ run["p"].pc = "greet" => One(inbox["c"], "status")

Replied ==
  /\ inbox["c"] = <<>>
  /\ \/ At("greet", "forget") /\ Two(inbox["p"], "status", "forgotten")
     \/ At("greet", "compare") /\ Two(inbox["p"], "status", "snapshot")

Forgets ==
  At("forget", "forget") /\ One(inbox["p"], "forgotten") /\ One(inbox["c"], "forgotten")

Comparing ==
  \/ At("compare", "compare") /\ One(inbox["p"], "snapshot") /\ One(inbox["c"], "snapshot")
  \/ At("compare", "grant") /\ One(inbox["p"], "snapshot") /\ inbox["c"] = <<>>
  \/ At("request", "compare") /\ inbox["p"] = <<>> /\ Two(inbox["c"], "snapshot", "grant")
  \/ At("request", "grant") /\ inbox["p"] = <<>> /\ One(inbox["c"], "grant")

(* A delta transfer: the manifests, p's records if c pulls, c's if it pushes. *)
Swapping ==
  \/ At("request", "swap") /\ One(inbox["p"], "request") /\ inbox["c"] = <<>>
  \/ At("swap", "swap") /\ inbox["p"] = <<>> /\ One(inbox["c"], "manifest")
  \/ At("swap", "receive") /\ One(inbox["p"], "manifest") /\ inbox["c"] = <<>> /\ Pull("p")
  \/ At("swap", "send") /\ One(inbox["p"], "manifest") /\ inbox["c"] = <<>> /\ ~Pull("p")
  \/ At("swap", "ack") /\ Two(inbox["p"], "manifest", "chunk") /\ inbox["c"] = <<>> /\ ~Pull("p")
  \/ At("swap", "finish") /\ Two(inbox["p"], "manifest", "end") /\ inbox["c"] = <<>> /\ ~Pull("p")

ServerSends ==
  \/ At("send", "receive") /\ inbox["p"] = <<>> /\ inbox["c"] = <<>>
  \/ At("ack", "receive") /\ inbox["p"] = <<>> /\ One(inbox["c"], "chunk")
  \/ At("ack", "receive") /\ One(inbox["p"], "ack") /\ inbox["c"] = <<>>
  \/ At("receive", "receive") /\ inbox["p"] = <<>> /\ One(inbox["c"], "end") /\ Push("c")
  \/ At("finish", "receive") /\ inbox["p"] = <<>> /\ One(inbox["c"], "end") /\ ~Push("c")

ClientSends ==
  \/ At("receive", "send") /\ inbox["p"] = <<>> /\ inbox["c"] = <<>>
  \/ At("receive", "ack") /\ One(inbox["p"], "chunk") /\ inbox["c"] = <<>>
  \/ At("receive", "ack") /\ inbox["p"] = <<>> /\ One(inbox["c"], "ack")
  \/ At("receive", "finish") /\ One(inbox["p"], "end") /\ inbox["c"] = <<>>
  \/ At("finish", "finish") /\ inbox["p"] = <<>> /\ inbox["c"] = <<>>

(* A transfer of whole workspaces. *)
WholeMoves ==
  \/ At("request", "receive") /\ One(inbox["p"], "pull") /\ inbox["c"] = <<>>
  \/ At("request", "receive") /\ inbox["p"] = <<>> /\ One(inbox["c"], "chunk")
  \/ At("request", "ack") /\ One(inbox["p"], "push") /\ inbox["c"] = <<>>
  \/ At("request", "ack") /\ inbox["p"] = <<>> /\ One(inbox["c"], "ack")
  \/ At("request", "finish") /\ inbox["p"] = <<>> /\ inbox["c"] = <<>>

Phase ==
  \/ Greeting \/ Replied \/ Forgets \/ Comparing
  \/ delta /\ (Swapping \/ ServerSends \/ ClientSends)
  \/ ~delta /\ WholeMoves

-----------------------------------------------------------------------------
(* The inductive invariant.                                                *)

Types ==
  /\ rec \in [Devices -> Records]
  /\ pairing \in [id : Pairings \cup {0}, dir : Directions, asker : Devices]
  /\ held \in [Devices -> Manifests]
  /\ run \in [Devices -> Attempts]
  /\ up \in BOOLEAN
  /\ inbox \in [Devices -> Seq(Frames)]
  /\ verdict \in [Devices -> {"none", "forget", "idle", "same", "changed"}]
  /\ late \in [Devices -> BOOLEAN]
  /\ orphan \in [Devices -> Manifests \cup {Unknown}]
  /\ delta \in BOOLEAN
  /\ events \in 0..MaxEvents

RowInv == \A d \in Devices : (rec[d].id = 0) = (rec[d].state = "absent")

(* The pairings that rows, attempts and the request on its way name, 0 for *)
(* none: each has one direction, whoever names it.                         *)
Named ==
  {<<0, "both">>, <<pairing.id, pairing.dir>>}
    \cup {<<rec[d].id, rec[d].dir>> : d \in Devices}
    \cup {<<run[d].id, run[d].dir>> : d \in Devices}

PairingInv ==
  /\ \A n \in Named : n[1] <= events + 1
  /\ \A n, m \in Named : n[1] = m[1] => n[2] = m[2]

SessionInv ==
  /\ up => InSession("p") /\ InSession("c") /\ Phase
  /\ InSession("p") /\ InSession("c") => run["p"].id = run["c"].id
  /\ \A d \in Devices : Awaits(d) /\ (~InSession(d) => inbox[d] = <<>>)

(* Who may be at which stage. *)
RoleInv ==
  /\ run["p"].pc # "grant" /\ run["c"].pc # "request"
  /\ \A d \in Devices : run[d].pc \in {"swap", "send"} => delta
  /\ run["p"].pc \in {"ack", "receive", "finish"} => delta

(* The row an attempt goes by is still there, or the next tick ends it. *)
SeenInv ==
  \A d \in Devices :
    InSession(d) /\ run[d].pc # "hello" =>
      /\ run[d].seen.id = run[d].id /\ run[d].seen.dir = run[d].dir
      /\ late[d] \/ (Current(d) /\ Version(rec[d]) = Version(run[d].seen))
      /\ run[d].pc \in Compared => Active(run[d].seen)

StatusInv ==
  /\ run["p"].pc = "hello" => inbox["c"] = <<>>
  /\ run["p"].pc = "greet" => \A f \in FramesOf(inbox["c"]) : f = Status(run["p"].seen)
  /\ run["c"].pc \in {"hello", "greet"} => inbox["p"] = <<>>

(* The verdict of a device whose status f the other one, with row r, reads. *)
Accords(v, r, f) ==
  IF "forget_pending" \in {r.state, f.state} THEN v = "forget"
  ELSE v = "none" \/ (v = "idle" /\ ~(Active(r) /\ f.enabled))

VerdictInv ==
  /\ \A d \in Devices : run[d].pc \in {"hello", "greet", "compare"} => verdict[d] = "none"
  /\ run["c"].pc \in {"hello", "greet"} => verdict["p"] = "none"
  /\ run["p"].pc = "hello" => verdict["c"] = "none"
  /\ run["p"].pc = "greet" =>
       \A f \in FramesOf(inbox["p"]) :
         /\ f.kind = "status" => Accords(verdict["c"], run["p"].seen, f)
         /\ f.kind = "forgotten" => verdict["c"] = "forget"
         /\ f.kind = "snapshot" => verdict["c"] = "none"

Differs(d, f) ==
  \/ run[d].local # run[d].seen.local \/ f.digest # run[d].seen.remote
  \/ f.digest # f.last_local \/ run[d].local # f.last_remote

SnapshotInv ==
  \A d \in Devices :
    /\ run[d].pc \in Compared =>
         \A f \in FramesOf(inbox[Peer(d)]) :
           f.kind = "snapshot" => f = Snapshot(d, run[d].local)
    /\ run[d].pc = "compare" =>
         \A f \in FramesOf(inbox[d]) :
           f.kind = "snapshot" =>
             verdict[Peer(d)] \in {"none", IF Differs(d, f) THEN "changed" ELSE "same"}

(* What the manifests of the session say of what is held now. *)
BoundInv ==
  \A d \in Devices :
    /\ run[d].pc \in Compared => run[d].local \in Manifests /\ Le(run[d].local, held[d])
    /\ run[d].pc \in Past => run[d].remote \in Manifests /\ Le(run[d].remote, held[Peer(d)])
    /\ run[d].pc \notin Past => run[d].remote = Unknown
    /\ \A f \in FramesOf(inbox[d]) : f.kind = "snapshot" => Le(f.digest, held[Peer(d)])

MirrorInv ==
  \A d \in Devices :
    up /\ run[d].pc \in Past /\ run[Peer(d)].pc \in Compared => run[d].remote = run[Peer(d)].local

(* All that d had when the session began is stored by the other device, and *)
(* all that the other device had by d.                                      *)
Delivered(d) == Le(run[d].local, held[Peer(d)])

Received(d) == Le(run[d].remote, held[d])

(* The record's chunk was sent and not acknowledged; it is on its way while *)
(* the connection lasts.                                                    *)
Flying(d, k) ==
  /\ run[d].pc = "ack"
  /\ \A f \in FramesOf(inbox[d]) : f.kind # "ack"
  /\ up => \A f \in FramesOf(inbox[Peer(d)]) : f.kind = "chunk" => run[d].local[k] <= f.records[k]

ToSend(d, k) ==
  \/ k \in run[d].todo
  \/ run[d].ahead # Unknown /\ run[d].local[k] <= run[d].ahead[k]
  \/ run[d].local[k] <= held[Peer(d)][k]
  \/ Flying(d, k)

SendInv ==
  \A d \in Devices :
    delta /\ (run[d].pc \in {"send", "ack"} \/ (run[d].pc = "receive" /\ d = "c" /\ Push("c"))) =>
      \A k \in Keys : ToSend(d, k)

TransferInv ==
  /\ \A d \in Devices : \A f \in FramesOf(inbox[d]) :
       /\ f.kind = "end" => Received(d)
       /\ f.kind = "ack" /\ ~delta => Delivered(d)
       /\ f.kind = "chunk" /\ ~delta => Le(run[d].remote, f.records)
  /\ up => \A f \in FramesOf(inbox["p"]) : f.kind = "push" => Le(run["c"].local, f.records)
  /\ run["c"].pc \in {"send", "ack", "finish"} /\ Pull("c") => Received("c")
  /\ run["c"].pc = "finish" /\ Push("c") => Delivered("c")
  /\ run["p"].pc \in {"receive", "finish"} /\ Pull("p") => Delivered("p")
  /\ run["p"].pc = "finish" /\ Push("p") => Received("p")

(* What a checkpoint of c says: the transfer it followed was complete. *)
AcknowledgedIn(r, h) ==
  r.local # Unknown =>
    /\ r.local \in Manifests /\ r.remote \in Manifests
    /\ SendsUnder(r.dir, "p") => Le(r.remote, h["c"])
    /\ SendsUnder(r.dir, "c") => Le(r.local, h["p"])

Acknowledged(r) == AcknowledgedIn(r, held)

CheckpointInv == Acknowledged(rec["c"])

(* What a session with such a row may conclude when nothing changed since. *)
SinceInv ==
  /\ run["c"].pc \notin {"off", "join", "hello"} => Acknowledged(run["c"].seen)
  /\ run["c"].pc \in Compared /\ run["c"].seen.local # Unknown =>
       /\ Pull("c") => Le(run["c"].seen.remote, run["c"].local)
       /\ Push("c") =>
            \A f \in FramesOf(inbox["c"]) :
              f.kind = "snapshot" => Le(run["c"].seen.local, f.digest)
  /\ \A f \in FramesOf(inbox["p"]) :
       f.kind = "snapshot" /\ f.last_local # Unknown =>
         /\ Pull("p") => Le(f.last_remote, f.digest)
         /\ Push("p") =>
              /\ run["p"].pc = "greet" => Le(f.last_local, held["p"])
              /\ run["p"].pc = "compare" => Le(f.last_local, run["p"].local)

IInv ==
  /\ Types /\ RowInv /\ PairingInv /\ SessionInv /\ RoleInv /\ SeenInv
  /\ StatusInv /\ VerdictInv /\ SnapshotInv /\ BoundInv /\ MirrorInv
  /\ SendInv /\ TransferInv /\ CheckpointInv /\ SinceInv /\ SameDecision

-----------------------------------------------------------------------------
(* The two devices, and directions.                                        *)

LEMMA Peers ==
  /\ Devices = {"p", "c"} /\ Peer("p") = "c" /\ Peer("c") = "p"
  /\ \A d \in Devices :
       /\ Peer(d) \in Devices /\ Peer(d) # d /\ Peer(Peer(d)) = d
       /\ \A e \in Devices : e = d \/ e = Peer(d)
BY DEF Devices, Peer

LEMMA Numbers ==
  /\ Versions \subseteq Nat /\ Pairings \subseteq Nat \ {0}
  /\ MaxEvents \in Nat
BY SyncPairsAssumption DEF Versions, Pairings

Below == {jn \in Nat \X Nat : jn[1] < jn[2]}

(* Every set of numbers with a member has a smallest one.                  *)
LEMMA Smallest ==
  ASSUME NEW S \in SUBSET Nat, S # {}
  PROVE  \E n \in S : \A j \in S : n <= j
<1>1. IsWellFoundedOn(Below, Nat)
  BY NatLessThanWellFounded DEF OpToRel, Below
<1>2. PICK n \in S : \A j \in S : ~(<<j, n>> \in Below)
  BY <1>1, WFMin
<1>3. ASSUME NEW j \in S
      PROVE  n <= j
  <2>1. n \in Nat /\ j \in Nat /\ <<j, n>> \in Nat \X Nat
    OBVIOUS
  <2>2. ~(j < n)
    BY <1>2, <2>1 DEF Below
  <2> QED  BY <2>1, <2>2
<1> QED  BY <1>3

LEMMA LeReflexive ==
  ASSUME NEW a \in Manifests
  PROVE  Le(a, a)
<1> SUFFICES ASSUME NEW k \in Keys
             PROVE  a[k] <= a[k]
  BY DEF Le
<1>1. a[k] \in Nat
  BY Numbers DEF Manifests
<1> QED  BY <1>1

LEMMA LeTransitive ==
  ASSUME NEW a \in Manifests, NEW b \in Manifests, NEW c \in Manifests, Le(a, b), Le(b, c)
  PROVE  Le(a, c)
<1> SUFFICES ASSUME NEW k \in Keys
             PROVE  a[k] <= c[k]
  BY DEF Le
<1>1. a[k] \in Nat /\ b[k] \in Nat /\ c[k] \in Nat
  BY Numbers DEF Manifests
<1>2. a[k] <= b[k] /\ b[k] <= c[k]
  BY DEF Le
<1> QED  BY <1>1, <1>2

LEMMA NewestIsNewer ==
  ASSUME NEW a \in Manifests, NEW b \in Manifests
  PROVE  Newest(a, b) \in Manifests /\ Le(a, Newest(a, b)) /\ Le(b, Newest(a, b))
<1>1. \A k \in Keys : a[k] \in Versions /\ b[k] \in Versions /\ a[k] \in Nat /\ b[k] \in Nat
  BY Numbers DEF Manifests
<1>2. \A k \in Keys : Newest(a, b)[k] = IF b[k] > a[k] THEN b[k] ELSE a[k]
  BY DEF Newest
<1>3. Newest(a, b) \in Manifests
  BY <1>1 DEF Newest, Manifests
<1>4. ASSUME NEW k \in Keys
      PROVE  a[k] <= Newest(a, b)[k] /\ b[k] <= Newest(a, b)[k]
  <2>1. a[k] \in Nat /\ b[k] \in Nat
    BY <1>1
  <2>2. CASE b[k] > a[k]
    BY <2>1, <2>2, <1>2
  <2>3. CASE ~(b[k] > a[k])
    BY <2>1, <2>3, <1>2
  <2> QED  BY <2>2, <2>3
<1> QED  BY <1>3, <1>4 DEF Le

(* Only a workspace without records has the empty manifest. *)
LEMMA UnknownHasNoKeys ==
  ASSUME Unknown \in Manifests
  PROVE  Keys = {}
<1>1. DOMAIN Unknown = {}
  BY DEF Unknown
<1>2. DOMAIN Unknown = Keys
  BY DEF Manifests
<1> QED  BY <1>1, <1>2

-----------------------------------------------------------------------------
(* Inboxes.                                                                *)

LEMMA FrameTypes ==
  ASSUME NEW f \in Frames
  PROVE  /\ f.kind = "status" => f \in StatusFrames
         /\ f.kind = "snapshot" => f \in SnapshotFrames
         /\ f.kind \in {"chunk", "push"} => f \in ChunkFrames
BY DEF Frames, PlainFrames, StatusFrames, SnapshotFrames, ChunkFrames

LEMMA PlainFrame ==
  ASSUME NEW k \in {"forgotten", "grant", "request", "pull", "manifest", "end", "ack", "refused"}
  PROVE  Frame(k) \in Frames /\ Frame(k).kind = k
BY DEF Frames, PlainFrames, Frame

LEMMA ChunkFrame ==
  ASSUME NEW k \in {"chunk", "push"}, NEW r \in Manifests
  PROVE  Chunk(k, r) \in Frames /\ Chunk(k, r).kind = k /\ Chunk(k, r).records = r
BY DEF Frames, ChunkFrames, Chunk

LEMMA StatusFrame ==
  ASSUME NEW r \in Records
  PROVE  Status(r) \in Frames /\ Status(r).kind = "status"
BY DEF Frames, StatusFrames, Status, Records, Active

LEMMA Empty ==
  ASSUME NEW s \in Seq(Frames)
  PROVE  (s = <<>>) <=> (FramesOf(s) = {})
<1>1. s = <<>> => FramesOf(s) = {}
  BY DEF FramesOf
<1>2. s # <<>> => s[1] \in FramesOf(s)
  BY DEF FramesOf
<1> QED  BY <1>1, <1>2

LEMMA FirstTaken ==
  ASSUME NEW s \in Seq(Frames), s # <<>>
  PROVE  /\ Tail(s) \in Seq(Frames)
         /\ FramesOf(Tail(s)) \subseteq FramesOf(s)
         /\ Head(s) \in FramesOf(s) /\ Head(s) \in Frames
         /\ \A k : One(s, k) => Tail(s) = <<>> /\ Head(s).kind = k
         /\ \A k, l : Two(s, k, l) => One(Tail(s), l) /\ Head(s).kind = k
<1>1. Tail(s) \in Seq(Frames) /\ Len(Tail(s)) = Len(s) - 1 /\ Len(s) \in Nat /\ Len(s) >= 1
  OBVIOUS
<1>a. Len(Tail(s)) = 0 => Tail(s) = <<>>
  BY <1>1, EmptySeq
<1>2. Head(s) = s[1] /\ s[1] \in Frames
  OBVIOUS
<1>3. \A i \in 1..Len(Tail(s)) : Tail(s)[i] = s[i + 1]
  OBVIOUS
<1>4. FramesOf(Tail(s)) \subseteq FramesOf(s)
  BY <1>1, <1>3 DEF FramesOf
<1>5. \A k : One(s, k) => Tail(s) = <<>>
  BY <1>1, <1>a DEF One
<1>6. ASSUME NEW k, NEW l, Two(s, k, l)
      PROVE  One(Tail(s), l)
  <2>1. Len(Tail(s)) = 1 /\ s[2].kind = l
    BY <1>1, <1>6 DEF Two
  <2>2. Tail(s)[1] = s[2]
    <3>1. 1 \in 1..Len(Tail(s)) /\ 1 + 1 = 2
      BY <2>1
    <3> QED  BY <3>1, <1>3
  <2> QED  BY <2>1, <2>2 DEF One
<1> QED  BY <1>1, <1>2, <1>4, <1>5, <1>6 DEF FramesOf, One, Two

LEMMA OnePut ==
  ASSUME NEW s \in Seq(Frames), NEW f \in Frames
  PROVE  /\ s \o <<f>> \in Seq(Frames)
         /\ FramesOf(s \o <<f>>) = FramesOf(s) \cup {f}
         /\ s = <<>> => One(s \o <<f>>, f.kind)
         /\ \A k : One(s, k) => Two(s \o <<f>>, k, f.kind)
<1> DEFINE t == s \o <<f>>
<1>1. t \in Seq(Frames) /\ Len(t) = Len(s) + 1 /\ Len(s) \in Nat
  OBVIOUS
<1>2. \A i \in 1..Len(s) : t[i] = s[i]
  OBVIOUS
<1>3. t[Len(s) + 1] = f
  OBVIOUS
<1> HIDE DEF t
<1>4. FramesOf(t) = FramesOf(s) \cup {f}
  <2>1. ASSUME NEW i \in 1..Len(t)
        PROVE  t[i] \in FramesOf(s) \cup {f}
    <3>1. i \in 1..Len(s) \/ i = Len(s) + 1
      BY <1>1
    <3> QED  BY <3>1, <1>2, <1>3 DEF FramesOf
  <2>2. ASSUME NEW i \in 1..Len(s)
        PROVE  s[i] \in FramesOf(t)
    <3>1. i \in 1..Len(t)
      BY <1>1
    <3> QED  BY <3>1, <1>2 DEF FramesOf
  <2>3. f \in FramesOf(t)
    BY <1>1, <1>3 DEF FramesOf
  <2> QED  BY <2>1, <2>2, <2>3 DEF FramesOf
<1>5. s = <<>> => One(t, f.kind)
  BY <1>1, <1>3 DEF One
<1>6. \A k : One(s, k) => Two(t, k, f.kind)
  BY <1>1, <1>2, <1>3 DEF One, Two
<1> QED  BY <1>1, <1>4, <1>5, <1>6 DEF t

LEMMA TwoPut ==
  ASSUME NEW s \in Seq(Frames), NEW f \in Frames, NEW g \in Frames
  PROVE  /\ s \o <<f, g>> \in Seq(Frames)
         /\ FramesOf(s \o <<f, g>>) = FramesOf(s) \cup {f, g}
         /\ s = <<>> => Two(s \o <<f, g>>, f.kind, g.kind)
<1> DEFINE t == s \o <<f, g>>
<1>1. <<f, g>> \in Seq(Frames) /\ Len(<<f, g>>) = 2 /\ <<f, g>>[1] = f /\ <<f, g>>[2] = g
  OBVIOUS
<1>2. t \in Seq(Frames) /\ Len(t) = Len(s) + 2 /\ Len(s) \in Nat
  BY <1>1
<1>3. \A i \in 1..Len(s) : t[i] = s[i]
  BY <1>1
<1>4. t[Len(s) + 1] = f /\ t[Len(s) + 2] = g
  BY <1>1, <1>2
<1> HIDE DEF t
<1>5. FramesOf(t) = FramesOf(s) \cup {f, g}
  <2>1. ASSUME NEW i \in 1..Len(t)
        PROVE  t[i] \in FramesOf(s) \cup {f, g}
    <3>1. i \in 1..Len(s) \/ i = Len(s) + 1 \/ i = Len(s) + 2
      BY <1>2
    <3> QED  BY <3>1, <1>3, <1>4 DEF FramesOf
  <2>2. ASSUME NEW i \in 1..Len(s)
        PROVE  s[i] \in FramesOf(t)
    <3>1. i \in 1..Len(t)
      BY <1>2
    <3> QED  BY <3>1, <1>3 DEF FramesOf
  <2>3. f \in FramesOf(t) /\ g \in FramesOf(t)
    BY <1>2, <1>4 DEF FramesOf
  <2> QED  BY <2>1, <2>2, <2>3 DEF FramesOf
<1>6. s = <<>> => Two(t, f.kind, g.kind)
  BY <1>2, <1>4 DEF Two
<1> QED  BY <1>2, <1>5, <1>6 DEF t

LEMMA NonePut ==
  ASSUME NEW s \in Seq(Frames)
  PROVE  s \o <<>> = s
OBVIOUS

LEMMA FirstKept ==
  ASSUME NEW s \in Seq(Frames), NEW n \in 0..Len(s)
  PROVE  /\ SubSeq(s, 1, n) \in Seq(Frames)
         /\ FramesOf(SubSeq(s, 1, n)) \subseteq FramesOf(s)
         /\ \A k : One(s, k) => SubSeq(s, 1, n) = <<>> \/ One(SubSeq(s, 1, n), k)
         /\ \A k, l : Two(s, k, l) =>
              \/ SubSeq(s, 1, n) = <<>>
              \/ One(SubSeq(s, 1, n), k)
              \/ Two(SubSeq(s, 1, n), k, l)
<1> DEFINE t == SubSeq(s, 1, n)
<1>1. t \in Seq(Frames) /\ Len(t) = n /\ Len(s) \in Nat
  OBVIOUS
<1>2. \A i \in 1..n : t[i] = s[i]
  OBVIOUS
<1> HIDE DEF t
<1>3. n = 0 => t = <<>>
  BY <1>1
<1>4. FramesOf(t) \subseteq FramesOf(s)
  BY <1>1, <1>2 DEF FramesOf
<1>5. \A k : One(s, k) => t = <<>> \/ One(t, k)
  BY <1>1, <1>2, <1>3 DEF One
<1>6. \A k, l : Two(s, k, l) => t = <<>> \/ One(t, k) \/ Two(t, k, l)
  BY <1>1, <1>2, <1>3 DEF One, Two
<1> QED  BY <1>1, <1>4, <1>5, <1>6 DEF t

LEMMA Put ==
  ASSUME NEW s \in Seq(Frames), NEW fs \in Seq(Frames)
  PROVE  /\ s \o fs \in Seq(Frames)
         /\ FramesOf(s \o fs) = FramesOf(s) \cup FramesOf(fs)
<1> DEFINE t == s \o fs
<1>1. t \in Seq(Frames) /\ Len(t) = Len(s) + Len(fs) /\ Len(s) \in Nat /\ Len(fs) \in Nat
  OBVIOUS
<1>2. \A i \in 1..Len(s) : t[i] = s[i]
  OBVIOUS
<1>3. \A i \in 1..Len(fs) : t[Len(s) + i] = fs[i]
  OBVIOUS
<1> HIDE DEF t
<1>4. ASSUME NEW i \in 1..Len(t)
      PROVE  t[i] \in FramesOf(s) \cup FramesOf(fs)
  <2>1. CASE i <= Len(s)
    BY <2>1, <1>1, <1>2 DEF FramesOf
  <2>2. CASE ~(i <= Len(s))
    <3>1. i - Len(s) \in 1..Len(fs) /\ Len(s) + (i - Len(s)) = i
      BY <2>2, <1>1
    <3> QED  BY <3>1, <1>3 DEF FramesOf
  <2> QED  BY <2>1, <2>2
<1>5. ASSUME NEW i \in 1..Len(s)
      PROVE  s[i] \in FramesOf(t)
  <2>1. i \in 1..Len(t)
    BY <1>1
  <2> QED  BY <2>1, <1>2 DEF FramesOf
<1>6. ASSUME NEW i \in 1..Len(fs)
      PROVE  fs[i] \in FramesOf(t)
  <2>1. Len(s) + i \in 1..Len(t)
    BY <1>1
  <2> QED  BY <2>1, <1>3 DEF FramesOf
<1>7. FramesOf(t) = FramesOf(s) \cup FramesOf(fs)
  BY <1>4, <1>5, <1>6 DEF FramesOf
<1> QED  BY <1>1, <1>7 DEF t

LEMMA These ==
  /\ <<>> \in Seq(Frames) /\ FramesOf(<<>>) = {}
  /\ \A f \in Frames : <<f>> \in Seq(Frames) /\ FramesOf(<<f>>) = {f}
  /\ \A f, g \in Frames : <<f, g>> \in Seq(Frames) /\ FramesOf(<<f, g>>) = {f, g}
<1>1. <<>> \in Seq(Frames) /\ FramesOf(<<>>) = {}
  BY DEF FramesOf
<1>2. ASSUME NEW f \in Frames
      PROVE  <<f>> \in Seq(Frames) /\ FramesOf(<<f>>) = {f}
  BY DEF FramesOf
<1>3. ASSUME NEW f \in Frames, NEW g \in Frames
      PROVE  <<f, g>> \in Seq(Frames) /\ FramesOf(<<f, g>>) = {f, g}
  <2>1. <<f, g>> \in Seq(Frames) /\ Len(<<f, g>>) = 2 /\ <<f, g>>[1] = f /\ <<f, g>>[2] = g
    OBVIOUS
  <2>2. 1..2 = {1, 2}
    OBVIOUS
  <2> QED  BY <2>1, <2>2 DEF FramesOf
<1> QED  BY <1>1, <1>2, <1>3

(* What the session's operators do to the inboxes.                         *)
Posted(d, fs) ==
  inbox'[Peer(d)] = IF up THEN inbox[Peer(d)] \o fs ELSE inbox[Peer(d)]

LEMMA Sending ==
  ASSUME Types, NEW d \in Devices, NEW fs \in Seq(Frames), Send(d, fs)
  PROVE  inbox' \in [Devices -> Seq(Frames)] /\ inbox'[d] = inbox[d] /\ Posted(d, fs)
<1>1. inbox[Peer(d)] \o fs \in Seq(Frames)
  BY Peers, Put DEF Types
<1> QED  BY <1>1, Peers DEF Types, Send, Posted

LEMMA Answering ==
  ASSUME Types, NEW d \in Devices, NEW fs \in Seq(Frames), Answer(d, fs), inbox[d] # <<>>
  PROVE  inbox' \in [Devices -> Seq(Frames)] /\ inbox'[d] = Tail(inbox[d]) /\ Posted(d, fs)
<1>1. inbox[Peer(d)] \o fs \in Seq(Frames)
  BY Peers, Put DEF Types
<1>2. Tail(inbox[d]) \in Seq(Frames)
  BY FirstTaken DEF Types
<1> QED  BY <1>1, <1>2, Peers DEF Types, Answer, Posted

LEMMA Leaving ==
  ASSUME Types, NEW d \in Devices, NEW fs \in Seq(Frames), LeaveSaying(d, fs)
  PROVE  /\ inbox' \in [Devices -> Seq(Frames)] /\ inbox'[d] = <<>> /\ Posted(d, fs)
         /\ run' \in [Devices -> Attempts] /\ run'[d] = Idle /\ run'[Peer(d)] = run[Peer(d)]
         /\ up' = FALSE
<1>1. inbox[Peer(d)] \o fs \in Seq(Frames)
  BY Peers, Put DEF Types
<1>2. Idle \in Attempts
  BY DEF Idle, Attempts, Stages, Directions, States, Absent, Record, Records
<1>3. <<>> \in Seq(Frames)
  BY These
<1>4. inbox' \in [Devices -> Seq(Frames)] /\ inbox'[d] = <<>> /\ Posted(d, fs)
  BY <1>1, <1>3, Peers DEF Types, LeaveSaying, Posted
<1>5. /\ run' \in [Devices -> Attempts] /\ run'[d] = Idle /\ run'[Peer(d)] = run[Peer(d)]
      /\ up' = FALSE
  BY <1>2, Peers DEF Types, LeaveSaying
<1> QED  BY <1>4, <1>5

-----------------------------------------------------------------------------
(* The types.                                                              *)

LEMMA Staged ==
  ASSUME NEW a \in Attempts, NEW pc \in Stages
  PROVE  [a EXCEPT !.pc = pc] \in Attempts
BY DEF Attempts

LEMMA Read ==
  ASSUME Types, NEW d \in Devices, NEW k, Got(d, k)
  PROVE  /\ inbox[d] # <<>> /\ Head(inbox[d]) \in Frames /\ Head(inbox[d]).kind = k
         /\ Head(inbox[d]) \in FramesOf(inbox[d]) /\ inbox[d] \in Seq(Frames)
BY FirstTaken DEF Types, Got

LEMMA RowTypes ==
  /\ Absent \in Records
  /\ \A id \in Pairings, dir \in Directions : Record(id, dir) \in Records
  /\ Idle \in Attempts
BY DEF Absent, Record, Records, Idle, Attempts, Stages, Directions, States

LEMMA Goes ==
  ASSUME Types, NEW d \in Devices, NEW pc \in Stages, Goto(d, pc)
  PROVE  /\ run' \in [Devices -> Attempts]
         /\ run'[d] = [run[d] EXCEPT !.pc = pc] /\ run'[Peer(d)] = run[Peer(d)]
<1>1. run[d] \in Attempts
  BY DEF Types
<1>2. [run[d] EXCEPT !.pc = pc] \in Attempts
  BY <1>1, Staged
<1>3. run' = [run EXCEPT ![d].pc = pc]
  BY DEF Goto
<1> QED  BY <1>2, <1>3, Peers DEF Types

(* What a device says or stores has its type.                              *)
LEMMA Said ==
  ASSUME Types, NEW d \in Devices
  PROVE  /\ Status(rec[d]) \in Frames /\ Status(run[d].seen) \in Frames
         /\ GreetReply(d) \in Seq(Frames)
         /\ \A f \in Frames : Append(GreetReply(d), f) \in Seq(Frames)
         /\ Snapshot(d, held[d]) \in Frames
         /\ Chunk("chunk", held[d]) \in Frames /\ Chunk("push", held[d]) \in Frames
<1>1. rec[d] \in Records /\ run[d].seen \in Records /\ held[d] \in Manifests
  BY DEF Types, Attempts
<1>2. Status(rec[d]) \in Frames /\ Status(run[d].seen) \in Frames
  BY <1>1, StatusFrame
<1>3. GreetReply(d) \in Seq(Frames)
  BY <1>2, These DEF GreetReply
<1>4. \A f \in Frames : Append(GreetReply(d), f) \in Seq(Frames)
  BY <1>3
<1>5. Snapshot(d, held[d]) \in Frames
  BY <1>1 DEF Snapshot, Frames, SnapshotFrames, Records
<1>6. Chunk("chunk", held[d]) \in Frames /\ Chunk("push", held[d]) \in Frames
  BY <1>1, ChunkFrame
<1> QED  BY <1>2, <1>3, <1>4, <1>5, <1>6

LEMMA CheckpointTypes ==
  ASSUME Types, NEW d \in Devices, Checkpoint(d)
  PROVE  rec' \in [Devices -> Records]
<1>1. rec[d] \in Records /\ run[d] \in Attempts
  BY DEF Types
<1>2. [rec[d] EXCEPT !.local = IF run[d].remote = Unknown THEN Unknown ELSE run[d].local,
                     !.remote = run[d].remote] \in Records
  BY <1>1 DEF Records, Attempts
<1> QED  BY <1>2 DEF Types, Checkpoint

LEMMA SessionTypes ==
  ASSUME Types, NEW d \in Devices, Session(d)
  PROVE  Types'
<1> USE Peers
<1>0. run[d] \in Attempts /\ rec[d] \in Records /\ held[d] \in Manifests
  BY DEF Types
<1>1. CASE Hello(d)
  <2>1. CASE Current(d)
    <3>1. [run[d] EXCEPT !.pc = "greet", !.seen = rec[d]] \in Attempts
      BY <1>0 DEF Attempts, Stages
    <3>2. run' \in [Devices -> Attempts]
      <4>1. run' = [run EXCEPT ![d].pc = "greet", ![d].seen = rec[d]]
        BY <1>1, <2>1 DEF Hello
      <4> QED  BY <4>1, <3>1 DEF Types
    <3>3. inbox' \in [Devices -> Seq(Frames)]
      BY <1>1, <2>1, Said, These, Sending DEF Hello
    <3> QED  BY <1>1, <2>1, <3>2, <3>3 DEF Hello, Types
  <2>2. CASE ~Current(d)
    BY <1>1, <2>2, Leaving, These DEF Hello, Leave, Types
  <2> QED  BY <2>1, <2>2
<1>2. CASE Greet(d)
  <2>0. inbox[d] # <<>>
    BY <1>2 DEF Greet, Got
  <2>v. \A v \in {"forget", "idle"} : [verdict EXCEPT ![d] = v] \in
          [Devices -> {"none", "forget", "idle", "same", "changed"}]
    BY DEF Types
  <2>1. CASE Forgetting(d)
    <3>1. inbox' \in [Devices -> Seq(Frames)]
      BY <1>2, <2>0, <2>1, Said, PlainFrame, Answering DEF Greet
    <3>2. run' \in [Devices -> Attempts]
      <4>1. Goto(d, "forget")
        BY <1>2, <2>1 DEF Greet
      <4> QED  BY <4>1, Goes DEF Stages
    <3> QED  BY <1>2, <2>1, <2>v, <3>1, <3>2 DEF Greet, Types
  <2>2. CASE ~Forgetting(d) /\ Current(d) /\ Agreed(d)
    <3>1. inbox' \in [Devices -> Seq(Frames)]
      BY <1>2, <2>0, <2>2, Said, Answering DEF Greet
    <3>2. [run[d] EXCEPT !.pc = "compare", !.local = held[d]] \in Attempts
      BY <1>0 DEF Attempts, Stages
    <3>3. run' \in [Devices -> Attempts]
      <4>1. run' = [run EXCEPT ![d].pc = "compare", ![d].local = held[d]]
        BY <1>2, <2>2 DEF Greet
      <4> QED  BY <4>1, <3>2 DEF Types
    <3> QED  BY <1>2, <2>2, <3>1, <3>3 DEF Greet, Types
  <2>3. CASE ~Forgetting(d) /\ ~(Current(d) /\ Agreed(d))
    <3>1. LeaveSaying(d, GreetReply(d)) /\ verdict' \in {verdict, [verdict EXCEPT ![d] = "idle"]}
      BY <1>2, <2>3 DEF Greet
    <3> QED  BY <1>2, <3>1, <2>v, Said, Leaving DEF Greet, Types
  <2> QED  BY <2>1, <2>2, <2>3
<1>3. CASE Forgotten(d)
  BY <1>3, Leaving, These, RowTypes DEF Forgotten, Leave, Types
<1>4. CASE Compare(d)
  <2>1. inbox[d] # <<>> /\ Head(inbox[d]) \in Frames /\ Head(inbox[d]).kind = "snapshot"
    BY <1>4, Read DEF Compare
  <2>2. Head(inbox[d]).digest \in Manifests
    BY <2>1, FrameTypes DEF SnapshotFrames
  <2>3. verdict' \in [Devices -> {"none", "forget", "idle", "same", "changed"}]
    BY <1>4 DEF Compare, Types
  <2>4. CASE Changed(d)
    <3>1. inbox' \in [Devices -> Seq(Frames)]
      BY <1>4, <2>1, <2>4, These, PlainFrame, Answering DEF Compare
    <3>2. [run[d] EXCEPT !.pc = IF d = "p" THEN "request" ELSE "grant",
                         !.remote = Head(inbox[d]).digest] \in Attempts
      BY <1>0, <2>2 DEF Attempts, Stages
    <3>3. run' \in [Devices -> Attempts]
      <4> DEFINE after == [run[d] EXCEPT !.pc = IF d = "p" THEN "request" ELSE "grant",
                                         !.remote = Head(inbox[d]).digest]
      <4>1. run' = [run EXCEPT ![d].pc = IF d = "p" THEN "request" ELSE "grant",
                               ![d].remote = Head(inbox[d]).digest]
        BY <1>4, <2>4 DEF Compare
      <4>2. run \in [Devices -> Attempts]
        BY DEF Types
      <4>3. run' = [run EXCEPT ![d] = after]
        BY <4>1, <4>2
      <4>4. after \in Attempts
        BY <3>2
      <4> HIDE DEF after
      <4> QED  BY <4>2, <4>3, <4>4
    <3> QED  BY <1>4, <2>3, <2>4, <3>1, <3>3 DEF Compare, Types
  <2>5. CASE ~Changed(d)
    BY <1>4, <2>3, <2>5, Leaving, These DEF Compare, Leave, Types
  <2> QED  BY <2>4, <2>5
<1>5. CASE Swap(d)
  <2>1. inbox' \in [Devices -> Seq(Frames)]
    BY <1>5, These, PlainFrame, Answering, Read DEF Swap
  <2>2. [run[d] EXCEPT !.pc = FirstStage(d),
           !.todo = IF Sends(d) THEN Wanted(run[d].local, run[d].remote) ELSE {}] \in Attempts
    BY <1>0 DEF Attempts, Stages, FirstStage, Wanted
  <2>3. run' \in [Devices -> Attempts]
    BY <1>5, <2>2 DEF Swap, Types
  <2> QED  BY <1>5, <2>1, <2>3 DEF Swap, Types, untouched
<1>6. CASE Prepare(d)
  <2> DEFINE k == CHOOSE k \in run[d].todo : \A j \in run[d].todo : k <= j
  <2>1. run' = [run EXCEPT ![d].ahead = Only(k, held[d][k]), ![d].todo = @ \ {k}]
    BY <1>6 DEF Prepare
  <2>2. \A j \in Keys : Only(k, held[d][k])[j] \in Versions
    <3>1. 0 \in Versions
      BY SyncPairsAssumption DEF Versions
    <3>2. ASSUME NEW j \in Keys
          PROVE  Only(k, held[d][k])[j] \in Versions
      BY <3>1, <1>0 DEF Only, Manifests
    <3> QED  BY <3>2
  <2>3. Only(k, held[d][k]) \in Manifests
    BY <2>2 DEF Only, Manifests
  <2> HIDE DEF k
  <2>4. [run[d] EXCEPT !.ahead = Only(k, held[d][k]), !.todo = @ \ {k}] \in Attempts
    BY <1>0, <2>3 DEF Attempts
  <2>5. run' \in [Devices -> Attempts]
    BY <2>1, <2>4 DEF Types
  <2> QED  BY <1>6, <2>5 DEF Prepare, Types, untouched
<1>7. CASE SendChunk(d)
  <2>1. run[d].ahead \in Manifests
    BY <1>0, <1>7 DEF SendChunk, Attempts
  <2>2. inbox' \in [Devices -> Seq(Frames)]
    <3>1. <<Chunk("chunk", run[d].ahead)>> \in Seq(Frames)
      BY <2>1, ChunkFrame, These
    <3> QED  BY <1>7, <3>1, Sending DEF SendChunk
  <2>3. [run[d] EXCEPT !.pc = "ack", !.ahead = Unknown] \in Attempts
    BY <1>0 DEF Attempts, Stages
  <2>4. run' \in [Devices -> Attempts]
    BY <1>7, <2>3 DEF SendChunk, Types
  <2> QED  BY <1>7, <2>2, <2>4 DEF SendChunk, Types, untouched
<1>8. CASE SendEnd(d)
  <2>1. inbox' \in [Devices -> Seq(Frames)]
    BY <1>8, PlainFrame, These, Sending DEF SendEnd
  <2>2. run' \in [Devices -> Attempts]
    <3>1. Goto(d, "receive") \/ Goto(d, "finish")
      BY <1>8 DEF SendEnd
    <3> QED  BY <3>1, Goes DEF Stages
  <2> QED  BY <1>8, <2>1, <2>2 DEF SendEnd, Types, untouched
<1>9. CASE Ack(d)
  <2>1. inbox' \in [Devices -> Seq(Frames)]
    BY <1>9, These, Answering, Read DEF Ack
  <2>2. run' \in [Devices -> Attempts]
    <3>1. Goto(d, "send") \/ Goto(d, "finish")
      BY <1>9 DEF Ack
    <3> QED  BY <3>1, Goes DEF Stages
  <2> QED  BY <1>9, <2>1, <2>2 DEF Ack, Types, untouched
<1>10. CASE Refused(d)
  BY <1>10, Leaving, These DEF Refused, Leave, Types
<1>11. CASE Store(d)
  <2>1. /\ inbox[d] # <<>> /\ Head(inbox[d]) \in Frames
        /\ Head(inbox[d]).kind \in {"chunk", "push"}
    BY <1>11, Read DEF Store, Storing
  <2>2. Head(inbox[d]).records \in Manifests
    BY <2>1, FrameTypes DEF ChunkFrames
  <2>3. Newest(held[d], Head(inbox[d]).records) \in Manifests
    BY <1>0, <2>2, NewestIsNewer
  <2>4. held' \in [Devices -> Manifests]
    BY <1>11, <2>3 DEF Store, Types
  <2>5. Chunk("push", held'[d]) \in Frames /\ Frame("ack") \in Frames
    BY <2>4, ChunkFrame, PlainFrame
  <2>6. inbox' \in [Devices -> Seq(Frames)]
    BY <1>11, <2>1, <2>5, These, Answering DEF Store
  <2>7. run' \in [Devices -> Attempts]
    <3>1. run' = run \/ Goto(d, "ack") \/ Goto(d, "finish")
      BY <1>11 DEF Store
    <3> QED  BY <3>1, Goes DEF Stages, Types
  <2> QED  BY <1>11, <2>4, <2>6, <2>7 DEF Store, Types
<1>12. CASE ReceiveEnd(d)
  <2>1. inbox' \in [Devices -> Seq(Frames)]
    BY <1>12, These, Answering, Read DEF ReceiveEnd
  <2>2. run' \in [Devices -> Attempts]
    <3>1. Goto(d, "send") \/ Goto(d, "finish")
      BY <1>12 DEF ReceiveEnd
    <3> QED  BY <3>1, Goes DEF Stages
  <2> QED  BY <1>12, <2>1, <2>2 DEF ReceiveEnd, Types, untouched
<1>13. CASE Closed(d)
  <2>1. rec' \in [Devices -> Records]
    BY <1>13, CheckpointTypes DEF Closed, Types
  <2> QED  BY <1>13, <2>1, Leaving, These DEF Closed, Leave, Types
<1>14. CASE d = "c" /\ Grant
  <2>1. inbox' \in [Devices -> Seq(Frames)]
    BY <1>14, These, PlainFrame, Said, Answering, Read DEF Grant
  <2>2. run' \in [Devices -> Attempts]
    <3>1. Goto(d, "swap") \/ Goto(d, "receive") \/ Goto(d, "ack")
      BY <1>14 DEF Grant
    <3> QED  BY <3>1, Goes DEF Stages
  <2> QED  BY <1>14, <2>1, <2>2 DEF Grant, Types, untouched
<1>15. CASE d = "c" /\ Finish
  BY <1>15, CheckpointTypes, Leaving, These DEF Finish, Leave, Types
<1>16. CASE d = "p" /\ Request
  <2>1. inbox' \in [Devices -> Seq(Frames)]
    BY <1>16, These, PlainFrame, Said, Answering, Read DEF Request
  <2>2. run' \in [Devices -> Attempts]
    <3>1. Goto(d, "swap") \/ run' = run
      BY <1>16 DEF Request
    <3> QED  BY <3>1, Goes DEF Stages, Types
  <2> QED  BY <1>16, <2>1, <2>2 DEF Request, Types, untouched
<1> QED
  BY <1>1, <1>2, <1>3, <1>4, <1>5, <1>6, <1>7, <1>8, <1>9, <1>10, <1>11, <1>12, <1>13,
     <1>14, <1>15, <1>16 DEF Session

LEMMA CancelTypes ==
  ASSUME Types, NEW d \in Devices, Cancelled(d)
  PROVE  /\ run' \in [Devices -> Attempts] /\ up' \in BOOLEAN
         /\ inbox' \in [Devices -> Seq(Frames)]
         /\ orphan' \in [Devices -> Manifests \cup {Unknown}]
<1>1. Leave(d) /\ orphan' = [orphan EXCEPT ![d] = IF Storing(d) THEN Head(inbox[d]).records ELSE @]
  BY DEF Cancelled
<1>2. Storing(d) => Head(inbox[d]).records \in Manifests
  BY Read, FrameTypes DEF Storing, ChunkFrames
<1>3. orphan' \in [Devices -> Manifests \cup {Unknown}]
  BY <1>1, <1>2 DEF Types
<1> QED  BY <1>1, <1>3, Leaving, These DEF Leave

LEMMA CommandTypes ==
  ASSUME Types, NEW d \in Devices, Command(d)
  PROVE  /\ run' \in [Devices -> Attempts] /\ up' \in BOOLEAN
         /\ inbox' \in [Devices -> Seq(Frames)]
         /\ orphan' \in [Devices -> Manifests \cup {Unknown}]
         /\ late' \in [Devices -> BOOLEAN]
         /\ events' \in 0..MaxEvents
         /\ UNCHANGED <<pairing, held, verdict, delta>>
<1>1. events' \in 0..MaxEvents /\ UNCHANGED <<pairing, held, verdict, delta>>
  BY Numbers DEF Command, Event, Types
<1>2. CancelPeer(d)
  BY DEF Command
<1>3. late' \in [Devices -> BOOLEAN]
  BY <1>2 DEF CancelPeer, Types
<1>4. Cancelled(d) \/ UNCHANGED <<run, up, inbox, orphan>>
  BY <1>2 DEF CancelPeer
<1> QED  BY <1>1, <1>3, <1>4, CancelTypes DEF Types

LEMMA TypesHold ==
  ASSUME Types, Next
  PROVE  Types'
<1> USE Peers
<1>1. ASSUME NEW d \in Devices, Start(d)
      PROVE  Types'
  <2>1. rec[d] \in Records /\ Idle \in Attempts
    BY RowTypes DEF Types
  <2>2. [Idle EXCEPT !.pc = "join", !.id = rec[d].id, !.dir = rec[d].dir,
                     !.version = Version(rec[d])] \in Attempts
    BY <2>1 DEF Attempts, Records, Stages, Version
  <2>3. run' \in [Devices -> Attempts]
    BY <1>1, <2>2 DEF Start, Types
  <2> QED  BY <1>1, <2>3 DEF Start, Types
<1>2. CASE Join
  <2>1. \A d \in Devices : [run[d] EXCEPT !.pc = "hello"] \in Attempts
    BY Staged DEF Types, Stages
  <2> QED  BY <1>2, <2>1 DEF Join, Types
<1>3. ASSUME NEW d \in Devices, Session(d)
      PROVE  Types'
  BY <1>3, SessionTypes
<1>4. ASSUME NEW d \in Devices, Upset(d)
      PROVE  Types'
  <2>0. events' \in 0..MaxEvents
    BY <1>4, Numbers DEF Upset, StoreFails, LoseRelay, Fails, Event, Types
  <2>1. CASE StoreFails(d)
    <3>1. LeaveSaying(d, IF delta \/ d = "p" THEN <<Frame("refused")>> ELSE <<>>)
      BY <2>1 DEF StoreFails
    <3>2. (IF delta \/ d = "p" THEN <<Frame("refused")>> ELSE <<>>) \in Seq(Frames)
      BY PlainFrame, These
    <3> QED  BY <2>0, <2>1, <3>1, <3>2, Leaving DEF StoreFails, Types
  <2>2. CASE LoseRelay(d)
    <3>1. rec' \in [Devices -> Records]
      BY <2>2, CheckpointTypes DEF LoseRelay, Types
    <3> QED  BY <2>0, <2>2, <3>1, Leaving, These DEF LoseRelay, Leave, Types
  <2>3. CASE Fails(d)
    BY <2>0, <2>3, Leaving, These DEF Fails, Leave, Types
  <2> QED  BY <1>4, <2>1, <2>2, <2>3 DEF Upset
<1>5. ASSUME NEW d \in Devices, Tick(d)
      PROVE  Types'
  BY <1>5, CancelTypes DEF Tick, Types
<1>6. ASSUME NEW d \in Devices, OrphanEnds(d)
      PROVE  Types'
  <2>1. orphan[d] \in Manifests /\ held[d] \in Manifests
    BY <1>6 DEF OrphanEnds, Types
  <2>2. Newest(held[d], orphan[d]) \in Manifests
    BY <2>1, NewestIsNewer
  <2>3. held' \in [Devices -> Manifests]
    BY <1>6, <2>2 DEF OrphanEnds, Types
  <2> QED  BY <1>6, <2>3 DEF OrphanEnds, Types
<1>7. ASSUME NEW d \in Devices, Control(d)
      PROVE  Types'
  <2>1. CASE SetEnabled(d)
    <3>0. rec[d] \in Records
      BY DEF Types
    <3>1. [rec[d] EXCEPT !.enabled = ~@] \in Records
      BY <3>0 DEF Records
    <3>2. rec' \in [Devices -> Records]
      BY <2>1, <3>1 DEF SetEnabled, Types
    <3> QED  BY <2>1, <3>2, CommandTypes DEF SetEnabled, Types
  <2>2. CASE Forget(d)
    <3>0. rec[d] \in Records
      BY DEF Types
    <3>1. [rec[d] EXCEPT !.state = "forget_pending", !.enabled = FALSE] \in Records
      BY <3>0 DEF Records, States
    <3>2. rec' \in [Devices -> Records]
      BY <2>2, <3>1 DEF Forget, Types
    <3> QED  BY <2>2, <3>2, CommandTypes DEF Forget, Types
  <2>3. CASE Remove(d)
    <3>1. rec' \in [Devices -> Records]
      BY <2>3, RowTypes DEF Remove, Types
    <3> QED  BY <2>3, <3>1, CommandTypes DEF Remove, Types
  <2>4. ASSUME NEW dir \in NewDirections, RequestPair(d, dir)
        PROVE  Types'
    <3>1. dir \in Directions /\ events + 2 \in Pairings /\ events + 1 \in 0..MaxEvents
      BY <2>4, SyncPairsAssumption DEF RequestPair, Event, Types, Pairings
    <3>2. rec' \in [Devices -> Records]
      BY <2>4, <3>1, RowTypes DEF RequestPair, Types
    <3>3. pairing' \in [id : Pairings \cup {0}, dir : Directions, asker : Devices]
      BY <2>4, <3>1 DEF RequestPair
    <3> QED  BY <2>4, <3>1, <3>2, <3>3 DEF RequestPair, Event, Types
  <2> QED  BY <1>7, <2>1, <2>2, <2>3, <2>4 DEF Control
<1>8. ASSUME NEW d \in Devices, NEW k \in Keys, Edit(d, k)
      PROVE  Types'
  <2>1. held[d] \in Manifests /\ held[d][k] \in Versions
    BY DEF Types, Manifests
  <2>2. held[d][k] + 1 \in Versions
    BY <1>8, <2>1, SyncPairsAssumption DEF Edit, Versions
  <2>3. [held[d] EXCEPT ![k] = @ + 1] \in Manifests
    BY <2>1, <2>2 DEF Manifests
  <2>4. held' \in [Devices -> Manifests]
    BY <1>8, <2>3 DEF Edit, Types
  <2> QED  BY <1>8, <2>4, Numbers DEF Edit, Event, Types
<1>9. CASE Cut
  <2>1. PICK n \in [Devices -> 0..3] :
          /\ \A d \in Devices : n[d] <= Len(inbox[d])
          /\ inbox' = [d \in Devices |-> SubSeq(inbox[d], 1, n[d])]
    BY <1>9 DEF Cut
  <2>2. ASSUME NEW d \in Devices
        PROVE  SubSeq(inbox[d], 1, n[d]) \in Seq(Frames)
    <3>1. inbox[d] \in Seq(Frames) /\ n[d] \in 0..Len(inbox[d])
      BY <2>1 DEF Types
    <3> QED  BY <3>1, FirstKept
  <2>3. inbox' \in [Devices -> Seq(Frames)]
    BY <2>1, <2>2
  <2>4. events' \in 0..MaxEvents
    BY <1>9, Numbers DEF Cut, Event, Types
  <2>5. UNCHANGED <<rec, pairing, held, run, verdict, late, orphan, delta>> /\ up' = FALSE
    BY <1>9 DEF Cut
  <2> QED  BY <2>3, <2>4, <2>5 DEF Types
<1>10. CASE AcceptPair
  <2>1. pairing.id \in Pairings /\ pairing.dir \in Directions /\ Peer(pairing.asker) \in Devices
    BY <1>10 DEF AcceptPair, Types
  <2>2. rec' \in [Devices -> Records]
    BY <1>10, <2>1, RowTypes DEF AcceptPair, Types
  <2>3. pairing' \in [id : Pairings \cup {0}, dir : Directions, asker : Devices]
    BY <1>10 DEF AcceptPair, NoPairing, Directions
  <2> QED  BY <1>10, <2>1, <2>2, <2>3 DEF AcceptPair, Types
<1>11. CASE AckLost
  <2>1. pairing' \in [id : Pairings \cup {0}, dir : Directions, asker : Devices]
    BY <1>11 DEF AckLost, NoPairing, Directions
  <2> QED  BY <1>11, <2>1, Numbers DEF AckLost, Event, Types
<1> QED
  BY <1>1, <1>2, <1>3, <1>4, <1>5, <1>6, <1>7, <1>8, <1>9, <1>10, <1>11 DEF Next

-----------------------------------------------------------------------------
(* Kinds of steps.                                                         *)

(* The session stays as it is. *)
Rests == UNCHANGED <<run, up, inbox, verdict, delta>>

(* The attempt of d ends. *)
Ends(d) ==
  /\ run'[d] = Idle /\ run'[Peer(d)] = run[Peer(d)]
  /\ up' = FALSE
  /\ inbox'[d] = <<>>
  /\ \/ inbox'[Peer(d)] = inbox[Peer(d)]
     \/ /\ up /\ Storing(d) /\ (delta \/ d = "p")
        /\ inbox'[Peer(d)] = inbox[Peer(d)] \o <<Frame("refused")>>
  /\ UNCHANGED <<verdict, delta, held>>

(* A step of the transfer. *)
Transfer == {"request", "pull", "manifest", "chunk", "push", "end", "ack"}

Keeps(d) ==
  /\ run'[d].pc \in Past
  /\ run'[d].id = run[d].id /\ run'[d].dir = run[d].dir /\ run'[d].seen = run[d].seen
  /\ run'[d].local = run[d].local /\ run'[d].remote = run[d].remote
  /\ run'[Peer(d)] = run[Peer(d)]

Moves(d) ==
  /\ run[d].pc \in Past /\ Keeps(d)
  /\ \/ inbox'[d] = inbox[d]
     \/ inbox[d] # <<>> /\ inbox'[d] = Tail(inbox[d])
  /\ \/ inbox'[Peer(d)] = inbox[Peer(d)]
     \/ up /\ \E f \in Frames : f.kind \in Transfer /\ inbox'[Peer(d)] = inbox[Peer(d)] \o <<f>>
  /\ UNCHANGED <<rec, pairing, up, verdict, late, delta, events>>

TransferStep(d) ==
  \/ Swap(d) \/ Prepare(d) \/ SendChunk(d) \/ SendEnd(d) \/ Ack(d) \/ Store(d) \/ ReceiveEnd(d)
  \/ d = "c" /\ Grant
  \/ d = "p" /\ Request

LEMMA PostsOne ==
  ASSUME Types, NEW d \in Devices, NEW f \in Frames, f.kind \in Transfer, Posted(d, <<f>>)
  PROVE  \/ inbox'[Peer(d)] = inbox[Peer(d)]
         \/ up /\ \E g \in Frames : g.kind \in Transfer /\ inbox'[Peer(d)] = inbox[Peer(d)] \o <<g>>
BY DEF Posted

LEMMA PostsNone ==
  ASSUME Types, NEW d \in Devices, Posted(d, <<>>)
  PROVE  inbox'[Peer(d)] = inbox[Peer(d)]
BY NonePut, Peers DEF Posted, Types

(* What a transfer posts, and where it goes.                               *)
LEMMA MovesOn ==
  ASSUME Types, NEW d \in Devices,
         run[d].pc \in Past,
         \/ run' = run
         \/ \E pc \in Past : Goto(d, pc)
         \/ Keeps(d),
         \/ inbox' = inbox
         \/ Send(d, <<>>) \/ \E f \in Frames : f.kind \in Transfer /\ Send(d, <<f>>)
         \/ inbox[d] # <<>> /\ Answer(d, <<>>)
         \/ inbox[d] # <<>> /\ \E f \in Frames : f.kind \in Transfer /\ Answer(d, <<f>>),
         UNCHANGED <<rec, pairing, up, verdict, late, delta, events>>
  PROVE  Moves(d)
<1>1. Past \subseteq Stages
  BY DEF Past, Stages
<1>2. Keeps(d)
  <2>0. run[d] \in Attempts /\ run \in [Devices -> Attempts]
    BY DEF Types
  <2>1. CASE run' = run
    BY <2>1 DEF Keeps
  <2>2. ASSUME NEW pc \in Past, Goto(d, pc)
        PROVE  Keeps(d)
    <3>1. run'[d] = [run[d] EXCEPT !.pc = pc] /\ run'[Peer(d)] = run[Peer(d)]
      BY <2>2, <1>1, Goes
    <3> QED  BY <3>1, <2>0 DEF Attempts, Keeps
  <2> QED  BY <2>1, <2>2
<1> DEFINE Sent ==
      /\ \/ inbox'[d] = inbox[d]
         \/ inbox[d] # <<>> /\ inbox'[d] = Tail(inbox[d])
      /\ \/ inbox'[Peer(d)] = inbox[Peer(d)]
         \/ up /\ \E f \in Frames : f.kind \in Transfer /\ inbox'[Peer(d)] = inbox[Peer(d)] \o <<f>>
<1>3. Sent
  <2>1. CASE inbox' = inbox
    BY <2>1
  <2>2. CASE Send(d, <<>>)
    BY <2>2, Sending, PostsNone, These
  <2>3. ASSUME NEW f \in Frames, f.kind \in Transfer, Send(d, <<f>>)
        PROVE  Sent
    BY <2>3, Sending, PostsOne, These
  <2>4. CASE inbox[d] # <<>> /\ Answer(d, <<>>)
    BY <2>4, Answering, PostsNone, These
  <2>5. ASSUME NEW f \in Frames, f.kind \in Transfer, inbox[d] # <<>>, Answer(d, <<f>>)
        PROVE  Sent
    BY <2>5, Answering, PostsOne, These
  <2> QED  BY <2>1, <2>2, <2>3, <2>4, <2>5
<1> QED  BY <1>2, <1>3 DEF Moves

LEMMA TransferFrame ==
  /\ \A k \in {"request", "pull", "manifest", "end", "ack"} :
       Frame(k) \in Frames /\ Frame(k).kind \in Transfer
  /\ \A r \in Manifests : \A k \in {"chunk", "push"} :
       Chunk(k, r) \in Frames /\ Chunk(k, r).kind \in Transfer
BY PlainFrame, ChunkFrame DEF Transfer

LEMMA TransferMoves ==
  ASSUME Types, Types', NEW d \in Devices, TransferStep(d)
  PROVE  Moves(d)
<1>0. held[d] \in Manifests /\ held'[d] \in Manifests /\ run[d] \in Attempts
  BY DEF Types
<1>1. CASE Swap(d)
  <2>1. run[d].pc \in Past /\ inbox[d] # <<>> /\ FirstStage(d) \in Past
    BY <1>1 DEF Swap, Got, Past, FirstStage
  <2>2. /\ run' = [run EXCEPT ![d].pc = FirstStage(d),
                   ![d].todo = IF Sends(d) THEN Wanted(run[d].local, run[d].remote) ELSE {}]
        /\ Answer(d, <<Frame("manifest")>>) \/ Answer(d, <<>>)
        /\ UNCHANGED <<rec, pairing, up, verdict, late, delta, events>>
    BY <1>1 DEF Swap, untouched
  <2>3. run'[d] = [run[d] EXCEPT !.pc = FirstStage(d),
                     !.todo = IF Sends(d) THEN Wanted(run[d].local, run[d].remote) ELSE {}]
        /\ run'[Peer(d)] = run[Peer(d)]
    BY <2>2, Peers DEF Types
  <2>4. Keeps(d)
    BY <2>1, <2>3, <1>0 DEF Attempts, Keeps
  <2> QED  BY <2>1, <2>2, <2>4, MovesOn, TransferFrame
<1>2. CASE Prepare(d)
  <2> DEFINE k == CHOOSE k \in run[d].todo : \A j \in run[d].todo : k <= j
  <2>1. run[d].pc \in Past
    BY <1>2 DEF Prepare, Past
  <2>2. /\ run' = [run EXCEPT ![d].ahead = Only(k, held[d][k]), ![d].todo = @ \ {k}]
        /\ inbox' = inbox /\ UNCHANGED <<rec, pairing, up, verdict, late, delta, events>>
    BY <1>2 DEF Prepare, untouched
  <2> HIDE DEF k
  <2>3. /\ run'[d] = [run[d] EXCEPT !.ahead = Only(k, held[d][k]), !.todo = @ \ {k}]
        /\ run'[Peer(d)] = run[Peer(d)]
    BY <2>2, Peers DEF Types
  <2>4. Keeps(d)
    BY <2>1, <2>3, <1>0 DEF Attempts, Keeps
  <2> QED  BY <2>1, <2>2, <2>4, MovesOn
<1>3. CASE SendChunk(d)
  <2>1. run[d].pc \in Past /\ "ack" \in Past /\ run[d].ahead \in Manifests
    BY <1>3, <1>0 DEF SendChunk, Past, Attempts
  <2>2. /\ run' = [run EXCEPT ![d].pc = "ack", ![d].ahead = Unknown]
        /\ Send(d, <<Chunk("chunk", run[d].ahead)>>)
        /\ UNCHANGED <<rec, pairing, up, verdict, late, delta, events>>
    BY <1>3 DEF SendChunk, untouched
  <2>3. /\ run'[d] = [run[d] EXCEPT !.pc = "ack", !.ahead = Unknown]
        /\ run'[Peer(d)] = run[Peer(d)]
    BY <2>2, Peers DEF Types
  <2>4. Keeps(d)
    BY <2>1, <2>3, <1>0 DEF Attempts, Keeps
  <2> QED  BY <2>1, <2>2, <2>4, MovesOn, TransferFrame
<1>4. CASE SendEnd(d)
  <2>1. run[d].pc \in Past /\ "receive" \in Past /\ "finish" \in Past
    BY <1>4 DEF SendEnd, Past
  <2>2. /\ Goto(d, "receive") \/ Goto(d, "finish")
        /\ Send(d, <<Frame("end")>>)
        /\ UNCHANGED <<rec, pairing, up, verdict, late, delta, events>>
    BY <1>4 DEF SendEnd, untouched
  <2> QED  BY <2>1, <2>2, MovesOn, TransferFrame
<1>5. CASE Ack(d)
  <2>1. run[d].pc \in Past /\ "send" \in Past /\ "finish" \in Past
    BY <1>5 DEF Ack, Past
  <2>2. /\ Goto(d, "send") \/ Goto(d, "finish")
        /\ inbox[d] # <<>> /\ Answer(d, <<>>)
        /\ UNCHANGED <<rec, pairing, up, verdict, late, delta, events>>
    BY <1>5 DEF Ack, Got, untouched
  <2> QED  BY <2>1, <2>2, MovesOn
<1>6. CASE Store(d)
  <2>1. run[d].pc \in Past /\ "ack" \in Past /\ "finish" \in Past /\ inbox[d] # <<>>
    BY <1>6 DEF Store, Storing, Got, Past
  <2>2. /\ run' = run \/ Goto(d, "ack") \/ Goto(d, "finish")
        /\ \/ Answer(d, <<>>)
           \/ Answer(d, <<Frame("ack")>>)
           \/ Answer(d, <<Chunk("push", held'[d])>>)
        /\ UNCHANGED <<rec, pairing, up, verdict, late, delta, events>>
    BY <1>6 DEF Store
  <2> QED  BY <2>1, <2>2, <1>0, MovesOn, TransferFrame
<1>7. CASE ReceiveEnd(d)
  <2>1. run[d].pc \in Past /\ "send" \in Past /\ "finish" \in Past
    BY <1>7 DEF ReceiveEnd, Past
  <2>2. /\ Goto(d, "send") \/ Goto(d, "finish")
        /\ inbox[d] # <<>> /\ Answer(d, <<>>)
        /\ UNCHANGED <<rec, pairing, up, verdict, late, delta, events>>
    BY <1>7 DEF ReceiveEnd, Got, untouched
  <2> QED  BY <2>1, <2>2, MovesOn
<1>8. CASE d = "c" /\ Grant
  <2>1. run[d].pc \in Past /\ {"swap", "receive", "ack"} \subseteq Past
    BY <1>8 DEF Grant, Past
  <2>2. /\ Goto(d, "swap") \/ Goto(d, "receive") \/ Goto(d, "ack")
        /\ inbox[d] # <<>>
        /\ \/ Answer(d, <<Frame("request")>>)
           \/ Answer(d, <<Frame("pull")>>)
           \/ Answer(d, <<Chunk("push", held[d])>>)
        /\ UNCHANGED <<rec, pairing, up, verdict, late, delta, events>>
    BY <1>8 DEF Grant, Got, untouched
  <2> QED  BY <2>1, <2>2, <1>0, MovesOn, TransferFrame
<1>9. CASE d = "p" /\ Request
  <2>1. run[d].pc \in Past /\ "swap" \in Past
    BY <1>9 DEF Request, Past
  <2>2. /\ Goto(d, "swap") \/ run' = run
        /\ inbox[d] # <<>>
        /\ Answer(d, <<Frame("manifest")>>) \/ Answer(d, <<Chunk("chunk", held[d])>>)
        /\ UNCHANGED <<rec, pairing, up, verdict, late, delta, events>>
    BY <1>9 DEF Request, Got, untouched
  <2> QED  BY <2>1, <2>2, <1>0, MovesOn, TransferFrame
<1> QED
  BY <1>1, <1>2, <1>3, <1>4, <1>5, <1>6, <1>7, <1>8, <1>9 DEF TransferStep

LEMMA LeaveEnds ==
  ASSUME Types, NEW d \in Devices, Leave(d), UNCHANGED <<verdict, delta, held>>
  PROVE  Ends(d)
<1>1. /\ inbox'[d] = <<>> /\ Posted(d, <<>>)
      /\ run'[d] = Idle /\ run'[Peer(d)] = run[Peer(d)]
      /\ up' = FALSE
  BY These, Leaving DEF Leave
<1> QED  BY <1>1, PostsNone DEF Ends

LEMMA StoreFailsEnds ==
  ASSUME Types, NEW d \in Devices, StoreFails(d)
  PROVE  Ends(d)
<1>1. /\ Storing(d) /\ UNCHANGED <<verdict, delta, held>>
      /\ ((delta \/ d = "p") /\ LeaveSaying(d, <<Frame("refused")>>)) \/ LeaveSaying(d, <<>>)
  BY DEF StoreFails
<1>2. CASE LeaveSaying(d, <<>>)
  BY <1>1, <1>2, LeaveEnds DEF Leave
<1>3. CASE (delta \/ d = "p") /\ LeaveSaying(d, <<Frame("refused")>>)
  <2>1. /\ inbox'[d] = <<>> /\ Posted(d, <<Frame("refused")>>)
        /\ run'[d] = Idle /\ run'[Peer(d)] = run[Peer(d)]
        /\ up' = FALSE
    BY <1>3, PlainFrame, These, Leaving
  <2> QED  BY <1>1, <1>3, <2>1 DEF Ends, Posted
<1> QED  BY <1>1, <1>2, <1>3

LEMMA Classified ==
  ASSUME Types, Next
  PROVE  \/ Rests \/ Cut \/ Join
         \/ \E d \in Devices :
              \/ Start(d) \/ Ends(d) \/ (Hello(d) /\ Current(d)) \/ Greet(d) \/ Compare(d)
              \/ TransferStep(d)
<1> DEFINE Kind(d) ==
      \/ Start(d) \/ Ends(d) \/ (Hello(d) /\ Current(d)) \/ Greet(d) \/ Compare(d)
      \/ TransferStep(d)
<1>1. ASSUME NEW d \in Devices, Session(d)
      PROVE  Kind(d)
  <2>1. CASE Hello(d) /\ ~Current(d)
    BY <2>1, LeaveEnds DEF Hello
  <2>2. CASE Forgotten(d)
    BY <2>2, LeaveEnds DEF Forgotten
  <2>3. CASE Refused(d)
    BY <2>3, LeaveEnds DEF Refused
  <2>4. CASE Closed(d)
    BY <2>4, LeaveEnds DEF Closed
  <2>5. CASE d = "c" /\ Finish
    BY <2>5, LeaveEnds DEF Finish
  <2> QED  BY <1>1, <2>1, <2>2, <2>3, <2>4, <2>5 DEF Session, TransferStep
<1>2. ASSUME NEW d \in Devices, Upset(d)
      PROVE  Kind(d)
  <2>1. CASE LoseRelay(d)
    BY <2>1, LeaveEnds DEF LoseRelay
  <2>2. CASE Fails(d)
    BY <2>2, LeaveEnds DEF Fails
  <2> QED  BY <1>2, <2>1, <2>2, StoreFailsEnds DEF Upset
<1>3. ASSUME NEW d \in Devices, Tick(d)
      PROVE  Kind(d)
  BY <1>3, LeaveEnds DEF Tick, Cancelled
<1>4. ASSUME NEW d \in Devices, Control(d)
      PROVE  Kind(d) \/ Rests
  <2>1. ASSUME Command(d)
        PROVE  Kind(d) \/ Rests
    BY <2>1, LeaveEnds DEF Command, CancelPeer, Cancelled, Rests
  <2>2. ASSUME NEW dir \in NewDirections, RequestPair(d, dir)
        PROVE  Rests
    BY <2>2 DEF RequestPair, Rests
  <2> QED  BY <1>4, <2>1, <2>2 DEF Control, SetEnabled, Forget, Remove
<1>5. ASSUME NEW d \in Devices, OrphanEnds(d)
      PROVE  Rests
  BY <1>5 DEF OrphanEnds, Rests
<1>6. ASSUME NEW d \in Devices, NEW k \in Keys, Edit(d, k)
      PROVE  Rests
  BY <1>6 DEF Edit, Rests
<1>7. AcceptPair \/ AckLost => Rests
  BY DEF AcceptPair, AckLost, Rests
<1> QED
  BY <1>1, <1>2, <1>3, <1>4, <1>5, <1>6, <1>7 DEF Next

(* A device never goes back to an older version of a record.               *)
LEMMA HeldGrows ==
  ASSUME Types, Types', Next
  PROVE  \A d \in Devices : Le(held[d], held'[d])
<1>0. \A d \in Devices : held[d] \in Manifests /\ Le(held[d], held[d])
  BY LeReflexive DEF Types
<1>1. ASSUME NEW e \in Devices, NEW m \in Manifests, held' = [held EXCEPT ![e] = Newest(@, m)]
      PROVE  \A d \in Devices : Le(held[d], held'[d])
  <2>1. Le(held[e], Newest(held[e], m))
    BY <1>0, NewestIsNewer
  <2>2. \A d \in Devices : held'[d] = IF d = e THEN Newest(held[e], m) ELSE held[d]
    BY <1>1 DEF Types
  <2> QED  BY <1>0, <2>1, <2>2
<1>2. ASSUME NEW e \in Devices, Store(e)
      PROVE  \A d \in Devices : Le(held[d], held'[d])
  <2>1. Head(inbox[e]).records \in Manifests
    BY <1>2, Read, FrameTypes DEF Store, Storing, ChunkFrames
  <2>2. held' = [held EXCEPT ![e] = Newest(@, Head(inbox[e]).records)]
    BY <1>2 DEF Store
  <2> QED  BY <1>1, <2>1, <2>2
<1>3. ASSUME NEW e \in Devices, OrphanEnds(e)
      PROVE  \A d \in Devices : Le(held[d], held'[d])
  <2>1. orphan[e] \in Manifests /\ held' \in {held, [held EXCEPT ![e] = Newest(@, orphan[e])]}
    BY <1>3 DEF OrphanEnds, Types
  <2> QED  BY <1>0, <1>1, <2>1
<1>4. ASSUME NEW e \in Devices, NEW k \in Keys, Edit(e, k)
      PROVE  \A d \in Devices : Le(held[d], held'[d])
  <2>1. held' = [held EXCEPT ![e][k] = @ + 1]
    BY <1>4 DEF Edit
  <2>2. ASSUME NEW d \in Devices, NEW j \in Keys
        PROVE  held[d][j] <= held'[d][j]
    <3>0. held \in [Devices -> Manifests]
      BY DEF Types
    <3>1. held[d][j] \in Nat /\ held[d] \in Manifests
      BY <3>0, Numbers DEF Manifests
    <3>2. held'[d][j] = IF d = e /\ j = k THEN held[d][j] + 1 ELSE held[d][j]
      BY <2>1, <3>0, <3>1 DEF Manifests
    <3> QED  BY <3>1, <3>2
  <2> QED  BY <2>2 DEF Le
<1>5. CASE held' = held
  BY <1>5, <1>0
<1>6. ASSUME NEW d \in Devices, Session(d)
      PROVE  Store(d) \/ held' = held
  BY <1>6 DEF Session, Hello, Greet, Forgotten, Compare, Swap, Prepare, SendChunk, SendEnd, Ack,
     Refused, ReceiveEnd, Closed, Grant, Finish, Request, untouched
<1>7. ASSUME NEW d \in Devices, Upset(d) \/ Control(d) \/ Start(d) \/ Tick(d)
      PROVE  held' = held
  BY <1>7 DEF Upset, StoreFails, LoseRelay, Fails, Control, SetEnabled, Forget, Remove, Command,
     RequestPair, Start, Tick
<1>8. Join \/ Cut \/ AcceptPair \/ AckLost => held' = held
  BY DEF Join, Cut, AcceptPair, AckLost
<1> QED
  BY <1>2, <1>3, <1>4, <1>5, <1>6, <1>7, <1>8 DEF Next

-----------------------------------------------------------------------------
(* What each kind of step does to the frames.                              *)

LEMMA MovesFrames ==
  ASSUME Types, NEW d \in Devices, Moves(d)
  PROVE  /\ inbox[d] = <<>> => inbox'[d] = <<>>
         /\ FramesOf(inbox'[d]) \subseteq FramesOf(inbox[d])
         /\ \A f \in FramesOf(inbox'[Peer(d)]) :
              f \in FramesOf(inbox[Peer(d)]) \/ (up /\ f.kind \in Transfer)
<1>1. inbox[d] \in Seq(Frames) /\ inbox[Peer(d)] \in Seq(Frames)
  BY Peers DEF Types
<1>2. FramesOf(inbox'[d]) \subseteq FramesOf(inbox[d])
  BY <1>1, FirstTaken DEF Moves
<1>3. ASSUME NEW f \in Frames, inbox'[Peer(d)] = inbox[Peer(d)] \o <<f>>
      PROVE  FramesOf(inbox'[Peer(d)]) = FramesOf(inbox[Peer(d)]) \cup {f}
  BY <1>1, <1>3, OnePut
<1>4. \A f \in FramesOf(inbox'[Peer(d)]) :
        f \in FramesOf(inbox[Peer(d)]) \/ (up /\ f.kind \in Transfer)
  BY <1>3 DEF Moves
<1> QED  BY <1>2, <1>4 DEF Moves

LEMMA EndsFrames ==
  ASSUME Types, NEW d \in Devices, Ends(d)
  PROVE  /\ FramesOf(inbox'[d]) = {}
         /\ \A f \in FramesOf(inbox'[Peer(d)]) :
              f \in FramesOf(inbox[Peer(d)]) \/ (up /\ Storing(d) /\ f.kind = "refused")
<1>1. inbox[Peer(d)] \in Seq(Frames) /\ <<>> \in Seq(Frames)
  BY Peers, These DEF Types
<1>2. FramesOf(inbox'[d]) = {}
  BY <1>1, These DEF Ends
<1>3. CASE inbox'[Peer(d)] = inbox[Peer(d)]
  BY <1>2, <1>3
<1>4. CASE up /\ Storing(d) /\ inbox'[Peer(d)] = inbox[Peer(d)] \o <<Frame("refused")>>
  <2>1. FramesOf(inbox'[Peer(d)]) = FramesOf(inbox[Peer(d)]) \cup {Frame("refused")}
    BY <1>1, <1>4, PlainFrame, OnePut
  <2> QED  BY <1>2, <1>4, <2>1, PlainFrame
<1> QED  BY <1>3, <1>4 DEF Ends

LEMMA CutFrames ==
  ASSUME Types, Cut
  PROVE  \A d \in Devices :
           /\ inbox[d] = <<>> => inbox'[d] = <<>>
           /\ FramesOf(inbox'[d]) \subseteq FramesOf(inbox[d])
           /\ \A k : One(inbox[d], k) => inbox'[d] = <<>> \/ One(inbox'[d], k)
           /\ \A k, l : Two(inbox[d], k, l) =>
                inbox'[d] = <<>> \/ One(inbox'[d], k) \/ Two(inbox'[d], k, l)
<1>1. PICK n \in [Devices -> 0..3] :
        /\ \A d \in Devices : n[d] <= Len(inbox[d])
        /\ inbox' = [d \in Devices |-> SubSeq(inbox[d], 1, n[d])]
  BY DEF Cut
<1> SUFFICES ASSUME NEW d \in Devices
             PROVE  /\ inbox[d] = <<>> => inbox'[d] = <<>>
                    /\ FramesOf(inbox'[d]) \subseteq FramesOf(inbox[d])
                    /\ \A k : One(inbox[d], k) => inbox'[d] = <<>> \/ One(inbox'[d], k)
                    /\ \A k, l : Two(inbox[d], k, l) =>
                         inbox'[d] = <<>> \/ One(inbox'[d], k) \/ Two(inbox'[d], k, l)
  OBVIOUS
<1>2. inbox[d] \in Seq(Frames) /\ n[d] \in 0..Len(inbox[d])
  <2>1. inbox[d] \in Seq(Frames) /\ Len(inbox[d]) \in Nat
    BY DEF Types
  <2> QED  BY <1>1, <2>1
<1>3. inbox'[d] = SubSeq(inbox[d], 1, n[d]) /\ inbox'[d] \in Seq(Frames)
  BY <1>1, <1>2, FirstKept
<1>4. FramesOf(inbox'[d]) \subseteq FramesOf(inbox[d])
  BY <1>2, <1>3, FirstKept
<1>5. inbox[d] = <<>> => inbox'[d] = <<>>
  BY <1>2, <1>3, <1>4, Empty
<1> QED  BY <1>2, <1>3, <1>4, <1>5, FirstKept

-----------------------------------------------------------------------------
(* The steps before the transfer.                                          *)

LEMMA StartGoes ==
  ASSUME Types, NEW d \in Devices, Start(d)
  PROVE  /\ run[d].pc = "off" /\ run'[d].pc = "join"
         /\ run'[d].id = rec[d].id /\ run'[d].dir = rec[d].dir
         /\ run'[d].remote = Unknown
         /\ run'[Peer(d)] = run[Peer(d)]
         /\ UNCHANGED <<rec, pairing, held, up, inbox, verdict, orphan, delta, events>>
BY Peers DEF Types, Start, Idle

LEMMA JoinGoes ==
  ASSUME Types, Join
  PROVE  /\ run["p"].id = run["c"].id
         /\ up' = TRUE
         /\ \A d \in Devices :
              /\ run[d].pc = "join" /\ run'[d].pc = "hello" /\ verdict'[d] = "none"
              /\ run'[d].id = run[d].id /\ run'[d].dir = run[d].dir
              /\ run'[d].remote = run[d].remote
         /\ UNCHANGED <<rec, pairing, held, inbox, late, orphan, delta, events>>
<1>1. \A d \in Devices : run[d] \in Attempts
  BY DEF Types
<1> QED  BY <1>1 DEF Join, Attempts

LEMMA HelloGoes ==
  ASSUME Types, NEW d \in Devices, Hello(d), Current(d)
  PROVE  /\ run[d].pc = "hello" /\ run'[d].pc = "greet" /\ run'[d].seen = rec[d]
         /\ run'[d].id = run[d].id /\ run'[d].dir = run[d].dir
         /\ run'[d].remote = run[d].remote
         /\ run'[Peer(d)] = run[Peer(d)]
         /\ inbox'[d] = inbox[d]
         /\ d = "c" => inbox'[Peer(d)] = inbox[Peer(d)]
         /\ d = "p" => Posted(d, <<Status(rec[d])>>)
         /\ UNCHANGED <<rec, pairing, held, up, verdict, late, orphan, delta, events>>
<1>1. run[d] \in Attempts /\ Status(rec[d]) \in Frames
  BY Said DEF Types
<1>2. run' = [run EXCEPT ![d].pc = "greet", ![d].seen = rec[d]]
  BY DEF Hello
<1>3. run'[d] = [run[d] EXCEPT !.pc = "greet", !.seen = rec[d]] /\ run'[Peer(d)] = run[Peer(d)]
  BY <1>2, Peers DEF Types
<1>4. Send(d, IF d = "p" THEN <<Status(rec[d])>> ELSE <<>>)
  BY DEF Hello
<1>5. inbox'[d] = inbox[d] /\ (d = "p" => Posted(d, <<Status(rec[d])>>))
  BY <1>1, <1>4, These, Sending
<1>6. d = "c" => inbox'[Peer(d)] = inbox[Peer(d)]
  BY <1>4, These, Sending, PostsNone
<1>7. run[d].pc = "hello" /\ UNCHANGED <<rec, pairing, held, up, verdict, late, orphan, delta, events>>
  BY DEF Hello
<1> QED  BY <1>1, <1>3, <1>5, <1>6, <1>7 DEF Attempts

(* Before they decide, both devices know each other's status: c replies    *)
(* with its own, p has sent it.                                            *)
LEMMA GreetReads ==
  ASSUME Types, NEW d \in Devices, Greet(d)
  PROVE  /\ run[d].pc = "greet" /\ inbox[d] # <<>> /\ inbox[d] \in Seq(Frames)
         /\ Head(inbox[d]) \in FramesOf(inbox[d]) /\ Head(inbox[d]).kind = "status"
         /\ UNCHANGED <<rec, pairing, held, late, orphan, delta, events>>
BY Read DEF Greet

LEMMA GreetForgets ==
  ASSUME Types, NEW d \in Devices, Greet(d), Forgetting(d)
  PROVE  /\ run'[d] = [run[d] EXCEPT !.pc = "forget"] /\ run'[Peer(d)] = run[Peer(d)]
         /\ up' = up
         /\ inbox'[d] = Tail(inbox[d]) /\ Posted(d, Append(GreetReply(d), Frame("forgotten")))
         /\ verdict' = [verdict EXCEPT ![d] = "forget"]
<1>1. /\ Answer(d, Append(GreetReply(d), Frame("forgotten"))) /\ Goto(d, "forget")
      /\ up' = up /\ verdict' = [verdict EXCEPT ![d] = "forget"]
  BY DEF Greet
<1>2. Append(GreetReply(d), Frame("forgotten")) \in Seq(Frames)
  BY Said, PlainFrame
<1> QED  BY <1>1, <1>2, Answering, GreetReads, Goes DEF Stages

LEMMA GreetAgrees ==
  ASSUME Types, NEW d \in Devices, Greet(d), ~Forgetting(d), Current(d), Agreed(d)
  PROVE  /\ run'[d] = [run[d] EXCEPT !.pc = "compare", !.local = held[d]]
         /\ run'[Peer(d)] = run[Peer(d)]
         /\ UNCHANGED <<up, verdict>>
         /\ inbox'[d] = Tail(inbox[d]) /\ Posted(d, Append(GreetReply(d), Snapshot(d, held[d])))
<1>1. /\ Answer(d, Append(GreetReply(d), Snapshot(d, held[d])))
      /\ run' = [run EXCEPT ![d].pc = "compare", ![d].local = held[d]]
      /\ UNCHANGED <<up, verdict>>
  BY DEF Greet
<1>2. Append(GreetReply(d), Snapshot(d, held[d])) \in Seq(Frames)
  BY Said
<1>3. inbox'[d] = Tail(inbox[d]) /\ Posted(d, Append(GreetReply(d), Snapshot(d, held[d])))
  BY <1>1, <1>2, Answering, GreetReads
<1>4. /\ run'[d] = [run[d] EXCEPT !.pc = "compare", !.local = held[d]]
      /\ run'[Peer(d)] = run[Peer(d)]
  BY <1>1, Peers DEF Types
<1> QED  BY <1>1, <1>3, <1>4

LEMMA GreetLeaves ==
  ASSUME Types, NEW d \in Devices, Greet(d), ~Forgetting(d), ~(Current(d) /\ Agreed(d))
  PROVE  /\ run'[d] = Idle /\ run'[Peer(d)] = run[Peer(d)]
         /\ up' = FALSE
         /\ inbox'[d] = <<>> /\ Posted(d, GreetReply(d))
         /\ \/ ~Current(d) /\ verdict' = verdict
            \/ Current(d) /\ ~Agreed(d) /\ verdict' = [verdict EXCEPT ![d] = "idle"]
<1>1. /\ LeaveSaying(d, GreetReply(d))
      /\ \/ ~Current(d) /\ verdict' = verdict
         \/ Current(d) /\ ~Agreed(d) /\ verdict' = [verdict EXCEPT ![d] = "idle"]
  BY DEF Greet
<1> QED  BY <1>1, Said, Leaving

LEMMA CompareReads ==
  ASSUME Types, NEW d \in Devices, Compare(d)
  PROVE  /\ run[d].pc = "compare" /\ inbox[d] # <<>> /\ inbox[d] \in Seq(Frames)
         /\ Head(inbox[d]) \in FramesOf(inbox[d]) /\ Head(inbox[d]).kind = "snapshot"
         /\ Head(inbox[d]) \in SnapshotFrames
         /\ Changed(d) = Differs(d, Head(inbox[d]))
         /\ UNCHANGED <<rec, pairing, held, late, orphan, delta, events>>
         /\ verdict' = [verdict EXCEPT ![d] = IF Changed(d) THEN "changed" ELSE "same"]
<1>1. inbox[d] # <<>> /\ Head(inbox[d]) \in Frames /\ Head(inbox[d]).kind = "snapshot"
  BY Read DEF Compare
<1>2. Head(inbox[d]) \in SnapshotFrames
  BY <1>1, FrameTypes
<1>3. Changed(d) = Differs(d, Head(inbox[d]))
  BY DEF Changed, Differs
<1> QED  BY <1>2, <1>3, Read DEF Compare

LEMMA CompareDiffers ==
  ASSUME Types, NEW d \in Devices, Compare(d), Changed(d)
  PROVE  /\ run'[d] = [run[d] EXCEPT !.pc = IF d = "p" THEN "request" ELSE "grant",
                                     !.remote = Head(inbox[d]).digest]
         /\ run'[Peer(d)] = run[Peer(d)]
         /\ up' = up
         /\ inbox'[d] = Tail(inbox[d])
         /\ d = "p" => Posted(d, <<Frame("grant")>>)
         /\ d = "c" => inbox'[Peer(d)] = inbox[Peer(d)]
<1>1. /\ run' = [run EXCEPT ![d].pc = IF d = "p" THEN "request" ELSE "grant",
                            ![d].remote = Head(inbox[d]).digest]
      /\ Answer(d, IF d = "p" THEN <<Frame("grant")>> ELSE <<>>)
      /\ up' = up
  BY DEF Compare
<1>2. /\ run'[d] = [run[d] EXCEPT !.pc = IF d = "p" THEN "request" ELSE "grant",
                                  !.remote = Head(inbox[d]).digest]
      /\ run'[Peer(d)] = run[Peer(d)]
  BY <1>1, Peers DEF Types
<1>3. inbox'[d] = Tail(inbox[d]) /\ (d = "p" => Posted(d, <<Frame("grant")>>))
  BY <1>1, PlainFrame, These, Answering, CompareReads
<1>4. d = "c" => inbox'[Peer(d)] = inbox[Peer(d)]
  BY <1>1, These, Answering, CompareReads, PostsNone
<1> QED  BY <1>1, <1>2, <1>3, <1>4

LEMMA CompareLeaves ==
  ASSUME Types, NEW d \in Devices, Compare(d), ~Changed(d)
  PROVE  /\ run'[d] = Idle /\ run'[Peer(d)] = run[Peer(d)]
         /\ up' = FALSE
         /\ inbox'[d] = <<>> /\ inbox'[Peer(d)] = inbox[Peer(d)]
<1>1. Leave(d)
  BY DEF Compare
<1> QED  BY <1>1, These, Leaving, PostsNone DEF Leave

-----------------------------------------------------------------------------
(* The steps of the transfer: MovesOn says what they all leave alone.      *)

LEMMA SwapGoes ==
  ASSUME Types, NEW d \in Devices, Swap(d)
  PROVE  /\ run[d].pc = "swap" /\ Got(d, "manifest")
         /\ run'[d].pc = FirstStage(d)
         /\ run'[d].todo = (IF Sends(d) THEN Wanted(run[d].local, run[d].remote) ELSE {})
         /\ run'[d].ahead = run[d].ahead
         /\ inbox'[d] = Tail(inbox[d])
         /\ d = "p" => inbox'[Peer(d)] = inbox[Peer(d)]
         /\ d = "c" => Posted(d, <<Frame("manifest")>>)
         /\ held' = held
<1>0. run[d] \in Attempts
  BY DEF Types
<1>1. run[d].pc = "swap" /\ Got(d, "manifest") /\ held' = held /\ inbox[d] # <<>>
  BY DEF Swap, untouched, Got
<1>2. run'[d] = [run[d] EXCEPT !.pc = FirstStage(d),
                   !.todo = IF Sends(d) THEN Wanted(run[d].local, run[d].remote) ELSE {}]
  BY DEF Types, Swap
<1>3. /\ d = "c" => Answer(d, <<Frame("manifest")>>)
      /\ d = "p" => Answer(d, <<>>)
  BY DEF Swap, Devices
<1>4. inbox'[d] = Tail(inbox[d]) /\ (d = "p" => Posted(d, <<>>))
      /\ (d = "c" => Posted(d, <<Frame("manifest")>>))
  BY <1>1, <1>3, These, PlainFrame, Answering, Peers
<1> QED  BY <1>0, <1>1, <1>2, <1>4, PostsNone DEF Attempts

LEMMA PrepareGoes ==
  ASSUME Types, NEW d \in Devices, Prepare(d)
  PROVE  /\ run[d].pc \in {"send", "ack"} /\ run'[d].pc = run[d].pc
         /\ run[d].ahead = Unknown
         /\ \E k \in run[d].todo :
              run'[d].todo = run[d].todo \ {k} /\ run'[d].ahead = Only(k, held[d][k])
         /\ UNCHANGED <<inbox, held>>
<1> DEFINE k == CHOOSE k \in run[d].todo : \A j \in run[d].todo : k <= j
<1>0. run[d] \in Attempts
  BY DEF Types
<1>1. /\ run[d].pc \in {"send", "ack"} /\ run[d].ahead = Unknown /\ run[d].todo # {}
      /\ UNCHANGED <<inbox, held>>
      /\ run' = [run EXCEPT ![d].ahead = Only(k, held[d][k]), ![d].todo = @ \ {k}]
  BY DEF Prepare, untouched
<1>2. run[d].todo \subseteq Nat /\ run[d].todo # {}
  BY <1>0, <1>1, SyncPairsAssumption DEF Attempts
<1>3. k \in run[d].todo
  <2>1. \E n \in run[d].todo : \A j \in run[d].todo : n <= j
    BY <1>2, Smallest
  <2> QED  BY <2>1
<1> HIDE DEF k
<1>4. run'[d] = [run[d] EXCEPT !.ahead = Only(k, held[d][k]), !.todo = @ \ {k}]
  BY <1>1 DEF Types
<1>5. /\ run'[d].pc = run[d].pc /\ run'[d].todo = run[d].todo \ {k}
      /\ run'[d].ahead = Only(k, held[d][k])
  BY <1>0, <1>4 DEF Attempts
<1> QED  BY <1>1, <1>3, <1>5

LEMMA SendChunkGoes ==
  ASSUME Types, NEW d \in Devices, SendChunk(d)
  PROVE  /\ run[d].pc = "send" /\ run'[d].pc = "ack"
         /\ run[d].ahead \in Manifests /\ run[d].ahead # Unknown
         /\ run'[d].todo = run[d].todo
         /\ inbox'[d] = inbox[d] /\ Posted(d, <<Chunk("chunk", run[d].ahead)>>)
         /\ held' = held
<1>0. run[d] \in Attempts
  BY DEF Types
<1>1. /\ run[d].pc = "send" /\ run[d].ahead # Unknown /\ held' = held
      /\ Send(d, <<Chunk("chunk", run[d].ahead)>>)
      /\ run' = [run EXCEPT ![d].pc = "ack", ![d].ahead = Unknown]
  BY DEF SendChunk, untouched
<1>2. run[d].ahead \in Manifests
  BY <1>0, <1>1 DEF Attempts
<1>3. run'[d] = [run[d] EXCEPT !.pc = "ack", !.ahead = Unknown]
  BY <1>1 DEF Types
<1>4. <<Chunk("chunk", run[d].ahead)>> \in Seq(Frames)
  BY <1>2, ChunkFrame, These
<1>5. inbox'[d] = inbox[d] /\ Posted(d, <<Chunk("chunk", run[d].ahead)>>)
  BY <1>1, <1>4, Sending
<1>6. run'[d].pc = "ack" /\ run'[d].todo = run[d].todo
  BY <1>0, <1>3 DEF Attempts
<1> QED  BY <1>1, <1>2, <1>5, <1>6

LEMMA SendEndGoes ==
  ASSUME Types, NEW d \in Devices, SendEnd(d)
  PROVE  /\ run[d].pc = "send" /\ run[d].ahead = Unknown /\ run[d].todo = {} /\ up
         /\ run'[d].pc = (IF d = "p" /\ Push(d) THEN "receive" ELSE "finish")
         /\ run'[d].ahead = run[d].ahead /\ run'[d].todo = run[d].todo
         /\ inbox'[d] = inbox[d] /\ Posted(d, <<Frame("end")>>)
         /\ held' = held
<1>0. run[d] \in Attempts
  BY DEF Types
<1> DEFINE to == IF d = "p" /\ Push(d) THEN "receive" ELSE "finish"
<1>1. /\ run[d].pc = "send" /\ run[d].ahead = Unknown /\ run[d].todo = {} /\ up /\ held' = held
      /\ Send(d, <<Frame("end")>>) /\ Goto(d, to)
  BY DEF SendEnd, untouched
<1>2. to \in Stages
  BY DEF Stages
<1> HIDE DEF to
<1>3. run'[d] = [run[d] EXCEPT !.pc = to]
  BY <1>1, <1>2, Goes
<1>4. inbox'[d] = inbox[d] /\ Posted(d, <<Frame("end")>>)
  BY <1>1, PlainFrame, These, Sending
<1>5. run'[d].pc = to /\ run'[d].ahead = run[d].ahead /\ run'[d].todo = run[d].todo
  BY <1>0, <1>3 DEF Attempts
<1> QED  BY <1>1, <1>4, <1>5 DEF to

LEMMA AckGoes ==
  ASSUME Types, NEW d \in Devices, Ack(d)
  PROVE  /\ run[d].pc = "ack" /\ Got(d, "ack")
         /\ run'[d].pc = (IF delta THEN "send" ELSE "finish")
         /\ run'[d].ahead = run[d].ahead /\ run'[d].todo = run[d].todo
         /\ inbox'[d] = Tail(inbox[d]) /\ inbox'[Peer(d)] = inbox[Peer(d)]
         /\ held' = held
<1>0. run[d] \in Attempts
  BY DEF Types
<1> DEFINE to == IF delta THEN "send" ELSE "finish"
<1>1. /\ run[d].pc = "ack" /\ Got(d, "ack") /\ inbox[d] # <<>> /\ held' = held
      /\ Answer(d, <<>>) /\ Goto(d, to)
  BY DEF Ack, Got, untouched
<1>2. to \in Stages
  BY DEF Stages
<1> HIDE DEF to
<1>3. run'[d] = [run[d] EXCEPT !.pc = to]
  BY <1>1, <1>2, Goes
<1>4. inbox'[d] = Tail(inbox[d]) /\ inbox'[Peer(d)] = inbox[Peer(d)]
  BY <1>1, These, Answering, PostsNone
<1>5. run'[d].pc = to /\ run'[d].ahead = run[d].ahead /\ run'[d].todo = run[d].todo
  BY <1>0, <1>3 DEF Attempts
<1> QED  BY <1>1, <1>4, <1>5 DEF to

LEMMA ReceiveEndGoes ==
  ASSUME Types, NEW d \in Devices, ReceiveEnd(d)
  PROVE  /\ run[d].pc = "receive" /\ Got(d, "end")
         /\ run'[d].pc = (IF d = "c" /\ Push(d) THEN "send" ELSE "finish")
         /\ run'[d].ahead = run[d].ahead /\ run'[d].todo = run[d].todo
         /\ inbox'[d] = Tail(inbox[d]) /\ inbox'[Peer(d)] = inbox[Peer(d)]
         /\ held' = held
<1>0. run[d] \in Attempts
  BY DEF Types
<1> DEFINE to == IF d = "c" /\ Push(d) THEN "send" ELSE "finish"
<1>1. /\ run[d].pc = "receive" /\ Got(d, "end") /\ inbox[d] # <<>> /\ held' = held
      /\ Answer(d, <<>>) /\ Goto(d, to)
  BY DEF ReceiveEnd, Got, untouched
<1>2. to \in Stages
  BY DEF Stages
<1> HIDE DEF to
<1>3. run'[d] = [run[d] EXCEPT !.pc = to]
  BY <1>1, <1>2, Goes
<1>4. inbox'[d] = Tail(inbox[d]) /\ inbox'[Peer(d)] = inbox[Peer(d)]
  BY <1>1, These, Answering, PostsNone
<1>5. run'[d].pc = to /\ run'[d].ahead = run[d].ahead /\ run'[d].todo = run[d].todo
  BY <1>0, <1>3 DEF Attempts
<1> QED  BY <1>1, <1>4, <1>5 DEF to

LEMMA GrantGoes ==
  ASSUME Types, Grant
  PROVE  /\ run["c"].pc = "grant" /\ Got("c", "grant")
         /\ inbox'["c"] = Tail(inbox["c"])
         /\ \/ delta /\ run'["c"].pc = "swap" /\ Posted("c", <<Frame("request")>>)
            \/ ~delta /\ Pull("c") /\ run'["c"].pc = "receive" /\ Posted("c", <<Frame("pull")>>)
            \/ /\ ~delta /\ ~Pull("c") /\ run'["c"].pc = "ack"
               /\ Posted("c", <<Chunk("push", held["c"])>>)
         /\ held' = held
<1>0. run["c"] \in Attempts /\ "c" \in Devices
  BY Peers DEF Types
<1>1. run["c"].pc = "grant" /\ Got("c", "grant") /\ inbox["c"] # <<>> /\ held' = held
  BY DEF Grant, Got, untouched
<1>2. \/ delta /\ Answer("c", <<Frame("request")>>) /\ Goto("c", "swap")
      \/ ~delta /\ Pull("c") /\ Answer("c", <<Frame("pull")>>) /\ Goto("c", "receive")
      \/ ~delta /\ ~Pull("c") /\ Answer("c", <<Chunk("push", held["c"])>>) /\ Goto("c", "ack")
  BY DEF Grant
<1>3. \A fs \in Seq(Frames) : Answer("c", fs) => inbox'["c"] = Tail(inbox["c"]) /\ Posted("c", fs)
  BY <1>0, <1>1, Answering
<1>4. \A pc \in Stages : Goto("c", pc) => run'["c"].pc = pc
  BY <1>0, Goes DEF Attempts
<1>5. /\ <<Frame("request")>> \in Seq(Frames) /\ <<Frame("pull")>> \in Seq(Frames)
      /\ <<Chunk("push", held["c"])>> \in Seq(Frames)
  BY <1>0, PlainFrame, Said, These
<1> QED  BY <1>1, <1>2, <1>3, <1>4, <1>5 DEF Stages

LEMMA RequestGoes ==
  ASSUME Types, Request
  PROVE  /\ run["p"].pc = "request"
         /\ inbox'["p"] = Tail(inbox["p"])
         /\ \/ /\ Got("p", "request") /\ run'["p"].pc = "swap"
               /\ Posted("p", <<Frame("manifest")>>)
            \/ /\ Got("p", "pull") /\ run' = run
               /\ Posted("p", <<Chunk("chunk", held["p"])>>)
         /\ held' = held
<1>0. run["p"] \in Attempts /\ "p" \in Devices
  BY Peers DEF Types
<1>1. run["p"].pc = "request" /\ inbox["p"] # <<>> /\ held' = held
  BY DEF Request, Got, untouched
<1>2. \/ Got("p", "request") /\ Answer("p", <<Frame("manifest")>>) /\ Goto("p", "swap")
      \/ Got("p", "pull") /\ Answer("p", <<Chunk("chunk", held["p"])>>) /\ run' = run
  BY DEF Request
<1>3. \A fs \in Seq(Frames) : Answer("p", fs) => inbox'["p"] = Tail(inbox["p"]) /\ Posted("p", fs)
  BY <1>0, <1>1, Answering
<1>4. \A pc \in Stages : Goto("p", pc) => run'["p"].pc = pc
  BY <1>0, Goes DEF Attempts
<1>5. /\ <<Frame("manifest")>> \in Seq(Frames) /\ <<Chunk("chunk", held["p"])>> \in Seq(Frames)
  BY <1>0, PlainFrame, Said, These
<1> QED  BY <1>1, <1>2, <1>3, <1>4, <1>5 DEF Stages

LEMMA StoreGoes ==
  ASSUME Types, Types', NEW d \in Devices, Store(d)
  PROVE  /\ Storing(d) /\ inbox[d] # <<>> /\ inbox[d] \in Seq(Frames)
         /\ Head(inbox[d]) \in FramesOf(inbox[d]) /\ Head(inbox[d]).records \in Manifests
         /\ held'[d] = Newest(held[d], Head(inbox[d]).records)
         /\ held'[Peer(d)] = held[Peer(d)]
         /\ inbox'[d] = Tail(inbox[d])
         /\ run'[d].ahead = run[d].ahead /\ run'[d].todo = run[d].todo
         /\ \/ /\ delta \/ d = "p"
               /\ run'[d].pc = run[d].pc /\ Posted(d, <<Frame("ack")>>)
            \/ /\ ~delta /\ d = "c" /\ Push(d)
               /\ run'[d].pc = "ack" /\ Posted(d, <<Chunk("push", held'[d])>>)
            \/ /\ ~delta /\ d = "c" /\ ~Push(d)
               /\ run'[d].pc = "finish" /\ inbox'[Peer(d)] = inbox[Peer(d)]
<1>0. run[d] \in Attempts /\ held'[d] \in Manifests
  BY DEF Types
<1>1. /\ Storing(d) /\ inbox[d] # <<>> /\ inbox[d] \in Seq(Frames)
      /\ Head(inbox[d]) \in FramesOf(inbox[d]) /\ Head(inbox[d]).records \in Manifests
  BY Read, FrameTypes DEF Store, Storing, ChunkFrames
<1>2. /\ held'[d] = Newest(held[d], Head(inbox[d]).records)
      /\ held'[Peer(d)] = held[Peer(d)]
  BY Peers DEF Types, Store
<1>3. \/ (delta \/ d = "p") /\ Answer(d, <<Frame("ack")>>) /\ run' = run
      \/ ~delta /\ d = "c" /\ Push(d) /\ Answer(d, <<Chunk("push", held'[d])>>) /\ Goto(d, "ack")
      \/ ~delta /\ d = "c" /\ ~Push(d) /\ Answer(d, <<>>) /\ Goto(d, "finish")
  BY DEF Store
<1>4. \A fs \in Seq(Frames) : Answer(d, fs) => inbox'[d] = Tail(inbox[d]) /\ Posted(d, fs)
  BY <1>1, Answering
<1>5. \A pc \in Stages : Goto(d, pc) =>
        run'[d].pc = pc /\ run'[d].ahead = run[d].ahead /\ run'[d].todo = run[d].todo
  BY <1>0, Goes DEF Attempts
<1>6. /\ <<Frame("ack")>> \in Seq(Frames) /\ <<Chunk("push", held'[d])>> \in Seq(Frames)
      /\ <<>> \in Seq(Frames)
  BY <1>0, PlainFrame, ChunkFrame, These
<1>7. Posted(d, <<>>) => inbox'[Peer(d)] = inbox[Peer(d)]
  BY PostsNone
<1>8. "ack" \in Stages /\ "finish" \in Stages
  BY DEF Stages
<1> QED  BY <1>1, <1>2, <1>3, <1>4, <1>5, <1>6, <1>7, <1>8

-----------------------------------------------------------------------------
(* The rows and the pairings they name.                                    *)

(* The attempt of d does not outlive the change of its row, or is to be    *)
(* looked at again by the next tick.                                       *)
Unseen(d) == run'[d].pc = "off" \/ late'[d]

(* An attempt ends with a checkpoint. *)
Saves(d) ==
  /\ Checkpoint(d) /\ Ends(d)
  /\ d = "c" => run[d].pc = "finish"
  /\ d = "p" => ~Unfinished /\ run[d].pc \notin {"off", "hello"}

(* A command on the row, or a pairing that replaces it. *)
Rewrites(d) ==
  /\ Unseen(d)
  /\ \/ rec'[d] = Absent
     \/ /\ rec[d].id # 0 /\ rec'[d].id = rec[d].id /\ rec'[d].dir = rec[d].dir
        /\ rec'[d].state \in {rec[d].state, "forget_pending"}
        /\ rec'[d].local = rec[d].local /\ rec'[d].remote = rec[d].remote
     \/ \E id \in Pairings, dir \in Directions :
          /\ rec'[d] = Record(id, dir)
          /\ <<id, dir>> = <<pairing.id, pairing.dir>> \/ <<id, dir>> = <<pairing'.id, pairing'.dir>>

LEMMA CommandUnseen ==
  ASSUME Types, NEW d \in Devices, Command(d)
  PROVE  Unseen(d) /\ rec[d].id # 0
<1>1. CancelPeer(d) /\ rec[d].id # 0
  BY DEF Command
<1>2. CASE Cancelled(d)
  <2>1. run'[d] = Idle
    BY <1>2, Leaving, These DEF Cancelled, Leave
  <2> QED  BY <1>1, <2>1 DEF Unseen, Idle
<1>3. CASE late' = [late EXCEPT ![d] = run[d].pc # "off"] /\ run' = run
  BY <1>1, <1>3 DEF Types, Unseen
<1> QED  BY <1>1, <1>2, <1>3 DEF CancelPeer

LEMMA RowsChange ==
  ASSUME Types, Types', Next
  PROVE  \/ rec' = rec
         \/ \E d \in Devices : rec'[Peer(d)] = rec[Peer(d)] /\ (Saves(d) \/ Rewrites(d))
<1> DEFINE Step(d) == rec'[Peer(d)] = rec[Peer(d)] /\ (Saves(d) \/ Rewrites(d))
<1>1. ASSUME NEW d \in Devices, Session(d)
      PROVE  rec' = rec \/ Step(d)
  <2>1. CASE Forgotten(d)
    <3>1. rec'[d] = Absent /\ rec'[Peer(d)] = rec[Peer(d)]
      BY <2>1, Peers DEF Forgotten, Types
    <3>2. Ends(d)
      BY <2>1, LeaveEnds DEF Forgotten
    <3>3. Unseen(d)
      BY <3>2 DEF Ends, Idle, Unseen
    <3> QED  BY <3>1, <3>3 DEF Rewrites
  <2>2. CASE Closed(d)
    <3>1. Ends(d) /\ run[d].pc \notin {"off", "hello"}
      BY <2>2, LeaveEnds DEF Closed, Devices
    <3>2. (Checkpoint(d) /\ ~Unfinished /\ d = "p") \/ rec' = rec
      BY <2>2 DEF Closed
    <3>3. Checkpoint(d) => rec'[Peer(d)] = rec[Peer(d)]
      BY Peers DEF Checkpoint, Types
    <3> QED  BY <3>1, <3>2, <3>3 DEF Saves
  <2>3. CASE d = "c" /\ Finish
    <3>1. Ends(d) /\ Checkpoint(d) /\ run[d].pc = "finish"
      BY <2>3, LeaveEnds DEF Finish
    <3>2. rec'[Peer(d)] = rec[Peer(d)]
      BY <3>1, Peers DEF Checkpoint, Types
    <3> QED  BY <2>3, <3>1, <3>2 DEF Saves
  <2> QED
    BY <1>1, <2>1, <2>2, <2>3 DEF Session, Hello, Greet, Compare, Swap, Prepare, SendChunk,
       SendEnd, Ack, Refused, Store, ReceiveEnd, Grant, Request, untouched
<1>2. ASSUME NEW d \in Devices, Upset(d)
      PROVE  rec' = rec \/ Step(d)
  <2>1. CASE LoseRelay(d)
    <3>1. Ends(d) /\ run[d].pc = "join"
      BY <2>1, LeaveEnds DEF LoseRelay
    <3>2. (Checkpoint(d) /\ d = "p") \/ rec' = rec
      BY <2>1 DEF LoseRelay
    <3>3. Checkpoint(d) => rec'[Peer(d)] = rec[Peer(d)]
      BY Peers DEF Checkpoint, Types
    <3>4. d = "p" => ~Unfinished
      BY <3>1 DEF Unfinished
    <3> QED  BY <3>1, <3>2, <3>3, <3>4 DEF Saves
  <2> QED  BY <1>2, <2>1 DEF Upset, StoreFails, Fails
<1>3. ASSUME NEW d \in Devices, Control(d)
      PROVE  Step(d)
  <2>0. rec[d] \in Records
    BY DEF Types
  <2>1. CASE SetEnabled(d)
    <3>1. rec'[d] = [rec[d] EXCEPT !.enabled = ~@] /\ rec'[Peer(d)] = rec[Peer(d)]
      BY <2>1, Peers DEF SetEnabled, Types
    <3>2. /\ rec'[d].id = rec[d].id /\ rec'[d].dir = rec[d].dir /\ rec'[d].state = rec[d].state
          /\ rec'[d].local = rec[d].local /\ rec'[d].remote = rec[d].remote
      BY <2>0, <3>1 DEF Records
    <3> QED  BY <2>1, <3>1, <3>2, CommandUnseen DEF SetEnabled, Rewrites
  <2>2. CASE Forget(d)
    <3>1. /\ rec'[d] = [rec[d] EXCEPT !.state = "forget_pending", !.enabled = FALSE]
          /\ rec'[Peer(d)] = rec[Peer(d)]
      BY <2>2, Peers DEF Forget, Types
    <3>2. /\ rec'[d].id = rec[d].id /\ rec'[d].dir = rec[d].dir /\ rec'[d].state = "forget_pending"
          /\ rec'[d].local = rec[d].local /\ rec'[d].remote = rec[d].remote
      BY <2>0, <3>1 DEF Records
    <3> QED  BY <2>2, <3>1, <3>2, CommandUnseen DEF Forget, Rewrites
  <2>3. CASE Remove(d)
    <3>1. rec'[d] = Absent /\ rec'[Peer(d)] = rec[Peer(d)]
      BY <2>3, Peers DEF Remove, Types
    <3> QED  BY <2>3, <3>1, CommandUnseen DEF Remove, Rewrites
  <2>4. ASSUME NEW dir \in NewDirections, RequestPair(d, dir)
        PROVE  Step(d)
    <3>1. /\ rec'[d] = Record(events + 2, dir) /\ rec'[Peer(d)] = rec[Peer(d)]
          /\ late'[d] = (run[d].pc # "off") /\ run' = run
          /\ pairing' = [id |-> events + 2, dir |-> dir, asker |-> d]
      BY <2>4, Peers DEF RequestPair, Types
    <3>2. events + 2 \in Pairings /\ dir \in Directions
      BY <2>4, SyncPairsAssumption DEF RequestPair, Event, Types, Pairings
    <3>3. <<events + 2, dir>> = <<pairing'.id, pairing'.dir>>
      BY <3>1
    <3>4. Unseen(d)
      BY <3>1 DEF Unseen
    <3> QED  BY <3>1, <3>2, <3>3, <3>4 DEF Rewrites
  <2> QED  BY <1>3, <2>1, <2>2, <2>3, <2>4 DEF Control
<1>4. CASE AcceptPair
  <2> DEFINE d == Peer(pairing.asker)
  <2>1. d \in Devices /\ pairing.id \in Pairings /\ pairing.dir \in Directions
    BY <1>4, Peers DEF AcceptPair, Types
  <2>2. /\ rec' = [rec EXCEPT ![d] = Record(pairing.id, pairing.dir)]
        /\ late' = [late EXCEPT ![d] = run[d].pc # "off"] /\ run' = run
    BY <1>4 DEF AcceptPair
  <2> HIDE DEF d
  <2>3. /\ rec'[d] = Record(pairing.id, pairing.dir) /\ rec'[Peer(d)] = rec[Peer(d)]
        /\ Unseen(d)
    BY <2>1, <2>2, Peers DEF Types, Unseen
  <2> QED  BY <2>1, <2>3 DEF Rewrites
<1>5. \A d \in Devices : Start(d) \/ Tick(d) \/ OrphanEnds(d) => rec' = rec
  BY DEF Start, Tick, OrphanEnds
<1>6. \A d \in Devices, k \in Keys : Edit(d, k) => rec' = rec
  BY DEF Edit
<1>7. Join \/ Cut \/ AckLost => rec' = rec
  BY DEF Join, Cut, AckLost
<1> QED  BY <1>1, <1>2, <1>3, <1>4, <1>5, <1>6, <1>7 DEF Next

LEMMA SavedRow ==
  ASSUME Types, NEW d \in Devices, Checkpoint(d)
  PROVE  /\ rec'[d].id = rec[d].id /\ rec'[d].dir = rec[d].dir
         /\ rec'[d].state = rec[d].state /\ rec'[d].enabled = rec[d].enabled
         /\ \/ rec' = rec
            \/ /\ Current(d) /\ Active(rec[d])
               /\ rec'[d].local = IF run[d].remote = Unknown THEN Unknown ELSE run[d].local
               /\ rec'[d].remote = run[d].remote
<1>1. rec[d] \in Records
  BY DEF Types
<1>2. CASE rec' = rec
  BY <1>2
<1>3. CASE Current(d) /\ Active(rec[d])
  <2>1. rec'[d] = [rec[d] EXCEPT !.local = IF run[d].remote = Unknown THEN Unknown ELSE run[d].local,
                                 !.remote = run[d].remote]
    BY <1>3 DEF Checkpoint, Types
  <2>2. /\ rec'[d].id = rec[d].id /\ rec'[d].dir = rec[d].dir
        /\ rec'[d].state = rec[d].state /\ rec'[d].enabled = rec[d].enabled
        /\ rec'[d].remote = run[d].remote
    BY <1>1, <2>1 DEF Records
  <2>3. rec'[d].local = IF run[d].remote = Unknown THEN Unknown ELSE run[d].local
    BY <1>1, <2>1 DEF Records
  <2> QED  BY <1>3, <2>2, <2>3
<1> QED  BY <1>2, <1>3 DEF Checkpoint

LEMMA RowHolds ==
  ASSUME Types, Types', RowInv, Next
  PROVE  RowInv'
<1>1. CASE rec' = rec
  BY <1>1 DEF RowInv
<1>2. ASSUME NEW d \in Devices, rec'[Peer(d)] = rec[Peer(d)], Saves(d) \/ Rewrites(d)
      PROVE  RowInv'
  <2>1. (rec'[d].id = 0) = (rec'[d].state = "absent")
    <3>1. CASE Saves(d)
      BY <3>1, SavedRow DEF Saves, RowInv
    <3>2. CASE Rewrites(d)
      <4>1. rec'[d] = Absent => rec'[d].id = 0 /\ rec'[d].state = "absent"
        BY DEF Absent, Record
      <4>2. \A id \in Pairings, dir \in Directions :
              rec'[d] = Record(id, dir) => rec'[d].id # 0 /\ rec'[d].state # "absent"
        BY Numbers DEF Record
      <4> QED  BY <3>2, <4>1, <4>2 DEF Rewrites, RowInv
    <3> QED  BY <1>2, <3>1, <3>2
  <2> QED  BY <1>2, <2>1, Peers DEF RowInv
<1> QED  BY <1>1, <1>2, RowsChange

LEMMA EventsGrow ==
  ASSUME Types, Next
  PROVE  events <= events'
<1>1. events' = events \/ Event
  <2>1. ASSUME NEW d \in Devices, Session(d) PROVE events' = events \/ Event
    BY <2>1 DEF Session, Hello, Greet, Forgotten, Compare, Swap, Prepare, SendChunk, SendEnd,
       Ack, Refused, Store, ReceiveEnd, Closed, Grant, Finish, Request, untouched
  <2>2. ASSUME NEW d \in Devices, Start(d) \/ Tick(d) \/ OrphanEnds(d)
        PROVE  events' = events \/ Event
    BY <2>2 DEF Start, Tick, OrphanEnds
  <2>3. ASSUME NEW d \in Devices, Upset(d) PROVE events' = events \/ Event
    BY <2>3 DEF Upset, StoreFails, LoseRelay, Fails
  <2>4. ASSUME NEW d \in Devices, Control(d) PROVE events' = events \/ Event
    BY <2>4 DEF Control, SetEnabled, Forget, Remove, Command, RequestPair
  <2>5. ASSUME NEW d \in Devices, NEW k \in Keys, Edit(d, k) PROVE events' = events \/ Event
    BY <2>5 DEF Edit
  <2>6. CASE Join \/ Cut \/ AcceptPair \/ AckLost
    BY <2>6 DEF Join, Cut, AcceptPair, AckLost
  <2> QED  BY <2>1, <2>2, <2>3, <2>4, <2>5, <2>6 DEF Next
<1>2. events \in Nat
  BY DEF Types
<1> QED  BY <1>1, <1>2 DEF Event

(* No attempt starts but for a pairing a row names. *)
LEMMA RunsNamed ==
  ASSUME Types, Types', Next
  PROVE  \A d \in Devices : <<run'[d].id, run'[d].dir>> \in Named
<1>0. \A d \in Devices : <<run[d].id, run[d].dir>> \in Named /\ <<rec[d].id, rec[d].dir>> \in Named
  BY DEF Named
<1>1. CASE Rests \/ Cut
  BY <1>0, <1>1 DEF Rests, Cut
<1>2. CASE Join
  BY <1>0, <1>2, JoinGoes
<1>3. ASSUME NEW d \in Devices,
             <<run'[d].id, run'[d].dir>> \in Named, run'[Peer(d)] = run[Peer(d)]
      PROVE  \A e \in Devices : <<run'[e].id, run'[e].dir>> \in Named
  BY <1>0, <1>3, Peers
<1>4. ASSUME NEW d \in Devices, Start(d)
      PROVE  \A e \in Devices : <<run'[e].id, run'[e].dir>> \in Named
  BY <1>0, <1>3, <1>4, StartGoes
<1>5. ASSUME NEW d \in Devices, run'[d] = Idle, run'[Peer(d)] = run[Peer(d)]
      PROVE  \A e \in Devices : <<run'[e].id, run'[e].dir>> \in Named
  <2>1. <<run'[d].id, run'[d].dir>> \in Named
    BY <1>5 DEF Idle, Named
  <2> QED  BY <1>3, <1>5, <2>1
<1>6. ASSUME NEW d \in Devices, Ends(d)
      PROVE  \A e \in Devices : <<run'[e].id, run'[e].dir>> \in Named
  BY <1>5, <1>6 DEF Ends
<1>7. ASSUME NEW d \in Devices, Hello(d), Current(d)
      PROVE  \A e \in Devices : <<run'[e].id, run'[e].dir>> \in Named
  BY <1>0, <1>3, <1>7, HelloGoes
<1>8. ASSUME NEW d \in Devices, Greet(d)
      PROVE  \A e \in Devices : <<run'[e].id, run'[e].dir>> \in Named
  <2>0. run[d] \in Attempts
    BY DEF Types
  <2>1. CASE Forgetting(d)
    <3>1. run'[d].id = run[d].id /\ run'[d].dir = run[d].dir /\ run'[Peer(d)] = run[Peer(d)]
      BY <1>8, <2>0, <2>1, GreetForgets DEF Attempts
    <3> QED  BY <1>0, <1>3, <3>1
  <2>2. CASE ~Forgetting(d) /\ Current(d) /\ Agreed(d)
    <3>1. run'[d].id = run[d].id /\ run'[d].dir = run[d].dir /\ run'[Peer(d)] = run[Peer(d)]
      BY <1>8, <2>0, <2>2, GreetAgrees DEF Attempts
    <3> QED  BY <1>0, <1>3, <3>1
  <2>3. CASE ~Forgetting(d) /\ ~(Current(d) /\ Agreed(d))
    BY <1>5, <1>8, <2>3, GreetLeaves
  <2> QED  BY <2>1, <2>2, <2>3
<1>9. ASSUME NEW d \in Devices, Compare(d)
      PROVE  \A e \in Devices : <<run'[e].id, run'[e].dir>> \in Named
  <2>0. run[d] \in Attempts
    BY DEF Types
  <2>1. CASE Changed(d)
    <3>1. run'[d].id = run[d].id /\ run'[d].dir = run[d].dir /\ run'[Peer(d)] = run[Peer(d)]
      BY <1>9, <2>0, <2>1, CompareDiffers DEF Attempts
    <3> QED  BY <1>0, <1>3, <3>1
  <2>2. CASE ~Changed(d)
    BY <1>5, <1>9, <2>2, CompareLeaves
  <2> QED  BY <2>1, <2>2
<1>10. ASSUME NEW d \in Devices, TransferStep(d)
       PROVE  \A e \in Devices : <<run'[e].id, run'[e].dir>> \in Named
  BY <1>0, <1>3, <1>10, TransferMoves DEF Moves, Keeps
<1> QED
  BY <1>1, <1>2, <1>4, <1>6, <1>7, <1>8, <1>9, <1>10, Classified

(* Only a new request names a new pairing.                                 *)
LEMMA PairingHolds ==
  ASSUME Types, Types', PairingInv, Next
  PROVE  PairingInv'
<1>0. events \in Nat /\ events' \in Nat /\ events <= events'
  BY EventsGrow DEF Types
<1>1. \/ pairing' = pairing \/ pairing' = NoPairing
      \/ /\ pairing'.id = events + 2 /\ events' = events + 1
         /\ <<pairing'.id, pairing'.dir>> \notin Named
  <2>1. ASSUME NEW d \in Devices, NEW dir \in NewDirections, RequestPair(d, dir)
        PROVE  /\ pairing'.id = events + 2 /\ events' = events + 1
               /\ <<pairing'.id, pairing'.dir>> \notin Named
    <3>1. pairing'.id = events + 2 /\ events' = events + 1
      BY <2>1 DEF RequestPair, Event
    <3>2. \A n \in Named : n[1] # events + 2
      BY <1>0 DEF PairingInv, Named, Types, Records, Attempts, Pairings
    <3> QED  BY <3>1, <3>2
  <2>2. \A d \in Devices : Control(d) =>
           pairing' = pairing \/ \E dir \in NewDirections : RequestPair(d, dir)
    BY DEF Control, SetEnabled, Forget, Remove, Command
  <2>3. \A d \in Devices : Session(d) => pairing' = pairing
    BY DEF Session, Hello, Greet, Forgotten, Compare, Swap, Prepare, SendChunk,
     SendEnd, Ack, Refused, Store, ReceiveEnd, Closed, Grant, Finish, Request, untouched
  <2>4. \A d \in Devices : Start(d) \/ Tick(d) \/ Upset(d) \/ OrphanEnds(d) => pairing' = pairing
    BY DEF Start, Tick, Upset, StoreFails, LoseRelay, Fails, OrphanEnds
  <2>5. \A d \in Devices, k \in Keys : Edit(d, k) => pairing' = pairing
    BY DEF Edit
  <2>6. Join \/ Cut => pairing' = pairing
    BY DEF Join, Cut
  <2>7. AcceptPair \/ AckLost => pairing' = NoPairing
    BY DEF AcceptPair, AckLost
  <2> QED  BY <2>1, <2>2, <2>3, <2>4, <2>5, <2>6, <2>7 DEF Next
<1>2. \A d \in Devices :
        <<rec'[d].id, rec'[d].dir>> \in Named \cup {<<pairing'.id, pairing'.dir>>}
  <2>0. \A d \in Devices : <<rec[d].id, rec[d].dir>> \in Named
    BY DEF Named
  <2>1. CASE rec' = rec
    BY <2>0, <2>1
  <2>2. ASSUME NEW d \in Devices, rec'[Peer(d)] = rec[Peer(d)], Saves(d) \/ Rewrites(d)
        PROVE  <<rec'[d].id, rec'[d].dir>> \in Named \cup {<<pairing'.id, pairing'.dir>>}
    <3>1. CASE Saves(d)
      BY <2>0, <3>1, SavedRow DEF Saves
    <3>2. CASE Rewrites(d)
      <4>1. rec'[d] = Absent => rec'[d].id = 0 /\ rec'[d].dir = "both"
        BY DEF Absent, Record
      <4>2. \A id \in Pairings, dir \in Directions :
              rec'[d] = Record(id, dir) => rec'[d].id = id /\ rec'[d].dir = dir
        BY DEF Record
      <4>3. <<0, "both">> \in Named /\ <<pairing.id, pairing.dir>> \in Named
        BY DEF Named
      <4> QED  BY <2>0, <3>2, <4>1, <4>2, <4>3 DEF Rewrites
    <3> QED  BY <2>2, <3>1, <3>2
  <2> QED  BY <2>0, <2>1, <2>2, Peers, RowsChange
<1>3. Named' \subseteq Named \cup {<<pairing'.id, pairing'.dir>>}
  <2>1. Named' = {<<0, "both">>, <<pairing'.id, pairing'.dir>>}
                   \cup {<<rec'[d].id, rec'[d].dir>> : d \in Devices}
                   \cup {<<run'[d].id, run'[d].dir>> : d \in Devices}
    BY DEF Named
  <2>2. <<0, "both">> \in Named
    BY DEF Named
  <2> QED  BY <1>2, <2>1, <2>2, RunsNamed
<1>4. \A n \in Named : n[1] \in Nat /\ n[1] <= events + 1
  <2>1. pairing.id \in Nat /\ \A d \in Devices : rec[d].id \in Nat /\ run[d].id \in Nat
    <3>1. /\ \A d \in Devices : rec[d] \in Records /\ run[d] \in Attempts
          /\ pairing.id \in Pairings \cup {0}
      BY DEF Types
    <3>2. \A d \in Devices : rec[d].id \in Pairings \cup {0} /\ run[d].id \in Pairings \cup {0}
      BY <3>1 DEF Records, Attempts
    <3>3. Pairings \cup {0} \subseteq Nat
      BY Numbers
    <3> QED  BY <3>1, <3>2, <3>3
  <2>2. \A n \in Named : n[1] \in Nat
    BY <2>1 DEF Named
  <2> QED  BY <2>2 DEF PairingInv
<1>5. CASE pairing' = pairing \/ pairing' = NoPairing
  <2>1. <<pairing'.id, pairing'.dir>> \in Named
    BY <1>5 DEF Named, NoPairing
  <2>2. Named' \subseteq Named
    BY <1>3, <2>1
  <2>3. \A n \in Named' : n[1] <= events' + 1
    BY <1>0, <1>4, <2>2
  <2> QED  BY <2>2, <2>3 DEF PairingInv
<1>6. CASE /\ pairing'.id = events + 2 /\ events' = events + 1
           /\ <<pairing'.id, pairing'.dir>> \notin Named
  <2> DEFINE new == <<pairing'.id, pairing'.dir>>
  <2>1. new[1] = events + 2
    BY <1>6
  <2> HIDE DEF new
  <2>2. \A n \in Named : n[1] # new[1]
    BY <1>0, <1>4, <2>1
  <2>3. \A n \in Named' : n \in Named \/ n = new
    BY <1>3 DEF new
  <2>4. \A n \in Named' : n[1] <= events' + 1
    BY <1>0, <1>4, <1>6, <2>1, <2>3
  <2>5. \A n, m \in Named' : n[1] = m[1] => n[2] = m[2]
    BY <2>2, <2>3 DEF PairingInv
  <2> QED  BY <2>4, <2>5 DEF PairingInv
<1> QED  BY <1>1, <1>5, <1>6

(* Rows and attempts that name the same pairing agree on its direction.    *)
LEMMA OneDirection ==
  ASSUME PairingInv
  PROVE  \A d, e \in Devices :
           /\ rec[d].id = run[e].id => rec[d].dir = run[e].dir
           /\ run[d].id = run[e].id => run[d].dir = run[e].dir
<1> SUFFICES ASSUME NEW d \in Devices, NEW e \in Devices
             PROVE  /\ rec[d].id = run[e].id => rec[d].dir = run[e].dir
                    /\ run[d].id = run[e].id => run[d].dir = run[e].dir
  OBVIOUS
<1>1. /\ <<rec[d].id, rec[d].dir>> \in Named /\ <<run[d].id, run[d].dir>> \in Named
      /\ <<run[e].id, run[e].dir>> \in Named
  BY DEF Named
<1> QED  BY <1>1 DEF PairingInv

-----------------------------------------------------------------------------
(* The session.                                                            *)

LEMMA Shapes ==
  ASSUME NEW s \in Seq(Frames)
  PROVE  /\ \A k : One(s, k) => s # <<>> /\ Head(s).kind = k /\ Tail(s) = <<>>
         /\ \A k, l : Two(s, k, l) => s # <<>> /\ Head(s).kind = k /\ One(Tail(s), l)
<1>1. \A k : One(s, k) => s # <<>>
  BY DEF One
<1>2. \A k, l : Two(s, k, l) => s # <<>>
  BY DEF Two
<1> QED  BY <1>1, <1>2, FirstTaken

LEMMA Boxes ==
  ASSUME Types, NEW d \in Devices
  PROVE  /\ \A k : One(inbox[d], k) =>
              inbox[d] # <<>> /\ Head(inbox[d]).kind = k /\ Tail(inbox[d]) = <<>>
         /\ \A k, l : Two(inbox[d], k, l) =>
              inbox[d] # <<>> /\ Head(inbox[d]).kind = k /\ One(Tail(inbox[d]), l)
BY Shapes DEF Types

(* What is posted while the connection lasts. *)
LEMMA Reached ==
  ASSUME Types, NEW d \in Devices, up
  PROVE  /\ \A f \in Frames : Posted(d, <<f>>) =>
              /\ inbox[Peer(d)] = <<>> => One(inbox'[Peer(d)], f.kind)
              /\ \A k : One(inbox[Peer(d)], k) => Two(inbox'[Peer(d)], k, f.kind)
              /\ FramesOf(inbox'[Peer(d)]) = FramesOf(inbox[Peer(d)]) \cup {f}
         /\ \A f, g \in Frames : Posted(d, <<f, g>>) =>
              /\ inbox[Peer(d)] = <<>> => Two(inbox'[Peer(d)], f.kind, g.kind)
              /\ FramesOf(inbox'[Peer(d)]) = FramesOf(inbox[Peer(d)]) \cup {f, g}
<1>1. inbox[Peer(d)] \in Seq(Frames)
  BY Peers DEF Types
<1>2. \A fs : Posted(d, fs) => inbox'[Peer(d)] = inbox[Peer(d)] \o fs
  BY DEF Posted
<1>3. ASSUME NEW f \in Frames, Posted(d, <<f>>)
      PROVE  /\ inbox[Peer(d)] = <<>> => One(inbox'[Peer(d)], f.kind)
             /\ \A k : One(inbox[Peer(d)], k) => Two(inbox'[Peer(d)], k, f.kind)
             /\ FramesOf(inbox'[Peer(d)]) = FramesOf(inbox[Peer(d)]) \cup {f}
  BY <1>1, <1>2, <1>3, OnePut
<1>4. ASSUME NEW f \in Frames, NEW g \in Frames, Posted(d, <<f, g>>)
      PROVE  /\ inbox[Peer(d)] = <<>> => Two(inbox'[Peer(d)], f.kind, g.kind)
             /\ FramesOf(inbox'[Peer(d)]) = FramesOf(inbox[Peer(d)]) \cup {f, g}
  <2> DEFINE s == inbox[Peer(d)]
             t == inbox'[Peer(d)]
  <2>1. s \in Seq(Frames) /\ t = s \o <<f, g>>
    BY <1>1, <1>2, <1>4
  <2> HIDE DEF s, t
  <2>2. (s = <<>> => Two(t, f.kind, g.kind)) /\ FramesOf(t) = FramesOf(s) \cup {f, g}
    BY <2>1, TwoPut
  <2> QED  BY <2>2 DEF s, t
<1> QED  BY <1>3, <1>4

LEMMA ReachedOne ==
  ASSUME Types, up
  PROVE  /\ \A f \in Frames : Posted("p", <<f>>) =>
              /\ inbox["c"] = <<>> => One(inbox'["c"], f.kind)
              /\ \A k : One(inbox["c"], k) => Two(inbox'["c"], k, f.kind)
         /\ \A f \in Frames : Posted("c", <<f>>) =>
              /\ inbox["p"] = <<>> => One(inbox'["p"], f.kind)
              /\ \A k : One(inbox["p"], k) => Two(inbox'["p"], k, f.kind)
BY Reached, Peers

LEMMA OneMember ==
  ASSUME NEW s \in Seq(Frames), NEW k, One(s, k)
  PROVE  \E f \in FramesOf(s) : f.kind = k
BY DEF One, FramesOf

LEMMA TwoMembers ==
  ASSUME NEW s \in Seq(Frames), NEW k, NEW l, Two(s, k, l)
  PROVE  /\ \E f \in FramesOf(s) : f.kind = k
         /\ \E f \in FramesOf(s) : f.kind = l
BY DEF Two, FramesOf

LEMMA AppendOne ==
  ASSUME NEW e, NEW f
  PROVE  Append(<<e>>, f) = <<e, f>>
<1> DEFINE s == Append(<<e>>, f)
           t == <<e, f>>
<1>1. <<e>> \in Seq({e, f}) /\ f \in {e, f} /\ Len(<<e>>) = 1 /\ <<e>>[1] = e
  OBVIOUS
<1>2. s \in Seq({e, f}) /\ Len(s) = 2 /\ s[1] = e /\ s[2] = f
  BY <1>1
<1>3. t \in Seq({e, f}) /\ Len(t) = 2 /\ t[1] = e /\ t[2] = f
  OBVIOUS
<1> HIDE DEF s, t
<1>4. \A i \in 1..Len(s) : s[i] = t[i]
  BY <1>2, <1>3
<1>5. s = t
  BY <1>2, <1>3, <1>4, SeqEqual
<1> QED  BY <1>5 DEF s, t

LEMMA Replies ==
  ASSUME Types
  PROVE  /\ GreetReply("p") = <<>> /\ GreetReply("c") = <<Status(run["c"].seen)>>
         /\ \A f \in Frames :
              /\ Append(GreetReply("p"), f) = <<f>>
              /\ Append(GreetReply("c"), f) = <<Status(run["c"].seen), f>>
<1>1. GreetReply("p") = <<>> /\ GreetReply("c") = <<Status(run["c"].seen)>>
  BY DEF GreetReply
<1>2. \A f \in Frames : Append(<<>>, f) = <<f>>
  OBVIOUS
<1>3. \A f \in Frames : Append(<<Status(run["c"].seen)>>, f) = <<Status(run["c"].seen), f>>
  BY AppendOne
<1> QED  BY <1>1, <1>2, <1>3

LEMMA PhaseAwaits ==
  ASSUME delta \in BOOLEAN, Phase
  PROVE  Awaits("p") /\ Awaits("c")
BY DEF Phase, Greeting, Replied, Forgets, Comparing, Swapping, ServerSends, ClientSends, WholeMoves,
   At, Awaits, Alone

LEMMA PhaseAwaitsNext ==
  ASSUME (delta \in BOOLEAN)', Phase'
  PROVE  Awaits("p")' /\ Awaits("c")'
BY DEF Phase, Greeting, Replied, Forgets, Comparing, Swapping, ServerSends, ClientSends, WholeMoves,
   At, Awaits, Alone

(* While both devices are in a session they go by the same direction.      *)
LEMMA SameDirection ==
  ASSUME PairingInv, SessionInv, InSession("p"), InSession("c")
  PROVE  /\ run["p"].dir = run["c"].dir
         /\ Pull("p") = Pull("c") /\ Push("p") = Push("c")
<1>1. run["p"].dir = run["c"].dir
  BY OneDirection, Peers DEF SessionInv
<1> QED  BY <1>1 DEF Pull, Push

LEMMA JoinPhase ==
  ASSUME Types, SessionInv, Join
  PROVE  Phase'
<1>1. \A d \in Devices : inbox[d] = <<>> /\ run'[d].pc = "hello" /\ inbox'[d] = inbox[d]
  BY JoinGoes DEF SessionInv, InSession
<1> QED  BY <1>1, Peers DEF Phase, Greeting

LEMMA HelloPhase ==
  ASSUME Types, SessionInv, up, NEW d \in Devices, Hello(d), Current(d)
  PROVE  Phase'
<1>1. Greeting
  BY HelloGoes, Peers DEF SessionInv, Phase, Greeting, Replied, Forgets, Comparing, Swapping,
     ServerSends, ClientSends, WholeMoves, At
<1>2. CASE d = "p"
  <2>1. One(inbox'["c"], "status")
    <3>1. Posted("p", <<Status(rec["p"])>>) /\ inbox["c"] = <<>>
      BY <1>1, <1>2, HelloGoes, Peers DEF Greeting
    <3>2. Status(rec["p"]) \in Frames /\ Status(rec["p"]).kind = "status"
      BY Peers, Said DEF Status
    <3> QED  BY <3>1, <3>2, Reached, Peers
  <2> QED  BY <1>1, <1>2, <2>1, HelloGoes, Peers DEF Phase, Greeting
<1>3. CASE d = "c"
  BY <1>1, <1>3, HelloGoes, Peers DEF Phase, Greeting
<1> QED  BY <1>2, <1>3, Peers

(* c replied to p's status, and p decides as c did to forget the pairing. *)
LEMMA GreetPhase ==
  ASSUME Types, SessionInv, VerdictInv, up, NEW d \in Devices, Greet(d),
         Forgetting(d) \/ (Current(d) /\ Agreed(d))
  PROVE  Phase'
<1>0. Phase /\ inbox[d] # <<>> /\ run[d].pc = "greet" /\ run[d] \in Attempts
  BY GreetReads DEF SessionInv, Types
<1>f. Frame("forgotten") \in Frames /\ Frame("forgotten").kind = "forgotten"
  BY PlainFrame
<1>s. Snapshot(d, held[d]) \in Frames /\ Snapshot(d, held[d]).kind = "snapshot"
  BY Said DEF Snapshot
<1>1. CASE d = "c"
  <2>1. Greeting /\ One(inbox["c"], "status") /\ inbox["p"] = <<>> /\ run["p"].pc = "greet"
    BY <1>0, <1>1 DEF Phase, Greeting, Replied, Forgets, Comparing, Swapping,
       ServerSends, ClientSends, WholeMoves, At
  <2>2. Tail(inbox["c"]) = <<>>
    BY <2>1, Boxes, Peers
  <2>3. Status(run["c"].seen) \in Frames /\ Status(run["c"].seen).kind = "status"
    BY Said, Peers DEF Status
  <2>4. CASE Forgetting(d)
    <3>1. /\ run'["c"] = [run["c"] EXCEPT !.pc = "forget"] /\ run'["p"] = run["p"]
          /\ inbox'["c"] = <<>> /\ Posted("c", <<Status(run["c"].seen), Frame("forgotten")>>)
      BY <1>1, <1>f, <2>2, <2>4, GreetForgets, Replies, Peers
    <3>2. run'["c"].pc = "forget"
      BY <1>0, <1>1, <3>1 DEF Attempts
    <3>3. Two(inbox'["p"], "status", "forgotten")
      BY <1>f, <2>1, <2>3, <3>1, Reached, Peers
    <3> QED  BY <2>1, <3>1, <3>2, <3>3 DEF Phase, Replied, At
  <2>5. CASE ~Forgetting(d) /\ Current(d) /\ Agreed(d)
    <3>1. /\ run'["c"] = [run["c"] EXCEPT !.pc = "compare", !.local = held["c"]]
          /\ run'["p"] = run["p"]
          /\ inbox'["c"] = <<>>
          /\ Posted("c", <<Status(run["c"].seen), Snapshot("c", held["c"])>>)
      BY <1>1, <1>s, <2>2, <2>5, GreetAgrees, Replies, Peers
    <3>2. run'["c"].pc = "compare"
      BY <1>0, <1>1, <3>1 DEF Attempts
    <3>3. Two(inbox'["p"], "status", "snapshot")
      BY <1>1, <1>s, <2>1, <2>3, <3>1, Reached, Peers
    <3> QED  BY <2>1, <3>1, <3>2, <3>3 DEF Phase, Replied, At
  <2> QED  BY <2>4, <2>5
<1>2. CASE d = "p"
  <2>1. Replied
    BY <1>0, <1>2 DEF Phase, Greeting, Replied, Forgets, Comparing, Swapping,
       ServerSends, ClientSends, WholeMoves, At
  <2>2. /\ Head(inbox["p"]) \in FramesOf(inbox["p"]) /\ Head(inbox["p"]).kind = "status"
        /\ inbox["p"] \in Seq(Frames)
    BY <1>2, GreetReads
  <2>3. Accords(verdict["c"], run["p"].seen, Head(inbox["p"]))
    BY <1>0, <1>2, <2>2 DEF VerdictInv
  <2>4. Forgetting("p") = ("forget_pending" \in {run["p"].seen.state, Head(inbox["p"]).state})
    BY DEF Forgetting
  <2>5. CASE At("greet", "forget") /\ Two(inbox["p"], "status", "forgotten")
    <3>1. One(Tail(inbox["p"]), "forgotten")
      BY <2>5, Boxes, Peers
    <3>2. verdict["c"] = "forget"
      BY <1>0, <1>2, <2>2, <2>5, TwoMembers DEF VerdictInv
    <3>3. Forgetting("p")
      BY <2>3, <2>4, <3>2 DEF Accords
    <3>4. /\ run'["p"] = [run["p"] EXCEPT !.pc = "forget"] /\ run'["c"] = run["c"]
          /\ inbox'["p"] = Tail(inbox["p"]) /\ Posted("p", <<Frame("forgotten")>>)
      BY <1>2, <1>f, <3>3, GreetForgets, Replies, Peers
    <3>5. run'["p"].pc = "forget"
      BY <1>0, <1>2, <3>4 DEF Attempts
    <3>6. One(inbox'["c"], "forgotten")
      BY <1>f, <2>1, <3>4, Reached, Peers DEF Replied
    <3> QED  BY <2>5, <3>1, <3>4, <3>5, <3>6 DEF Phase, Forgets, At
  <2>6. CASE At("greet", "compare") /\ Two(inbox["p"], "status", "snapshot")
    <3>1. One(Tail(inbox["p"]), "snapshot")
      BY <2>6, Boxes, Peers
    <3>2. verdict["c"] = "none"
      BY <1>0, <1>2, <2>2, <2>6, TwoMembers DEF VerdictInv
    <3>3. ~Forgetting("p")
      BY <2>3, <2>4, <3>2 DEF Accords
    <3>4. /\ run'["p"] = [run["p"] EXCEPT !.pc = "compare", !.local = held["p"]]
          /\ run'["c"] = run["c"]
          /\ inbox'["p"] = Tail(inbox["p"]) /\ Posted("p", <<Snapshot("p", held["p"])>>)
      BY <1>2, <1>s, <3>3, GreetAgrees, Replies, Peers
    <3>5. run'["p"].pc = "compare"
      BY <1>0, <1>2, <3>4 DEF Attempts
    <3>6. One(inbox'["c"], "snapshot")
      BY <1>2, <1>s, <2>1, <3>4, Reached, Peers DEF Replied
    <3> QED  BY <2>6, <3>1, <3>4, <3>5, <3>6 DEF Phase, Comparing, At
  <2> QED  BY <2>1, <2>5, <2>6 DEF Replied
<1> QED  BY <1>1, <1>2, Peers

LEMMA ComparePhase ==
  ASSUME Types, SessionInv, up, NEW d \in Devices, Compare(d), Changed(d)
  PROVE  Phase'
<1>0. Phase /\ inbox[d] # <<>> /\ run[d].pc = "compare" /\ run[d] \in Attempts
      /\ Head(inbox[d]).kind = "snapshot"
  BY CompareReads DEF SessionInv, Types
<1>f. Frame("grant") \in Frames /\ Frame("grant").kind = "grant"
  BY PlainFrame
<1>c. /\ "snapshot" # "forgotten" /\ "snapshot" # "status"
  OBVIOUS
<1>1. CASE d = "p"
  <2>1. /\ One(inbox["p"], "snapshot")
        /\ \/ run["c"].pc = "compare" /\ One(inbox["c"], "snapshot")
           \/ run["c"].pc = "grant" /\ inbox["c"] = <<>>
    BY <1>0, <1>1 DEF Phase, Greeting, Replied, Forgets, Comparing, Swapping,
       ServerSends, ClientSends, WholeMoves, At
  <2>2. /\ run'["p"] = [run["p"] EXCEPT !.pc = "request", !.remote = Head(inbox["p"]).digest]
        /\ run'["c"] = run["c"] /\ inbox'["p"] = <<>> /\ Posted("p", <<Frame("grant")>>)
    BY <1>1, <2>1, CompareDiffers, Boxes, Peers
  <2>3. run'["p"].pc = "request"
    BY <1>0, <1>1, <2>2 DEF Attempts
  <2>4. /\ inbox["c"] = <<>> => One(inbox'["c"], "grant")
        /\ One(inbox["c"], "snapshot") => Two(inbox'["c"], "snapshot", "grant")
    BY <1>f, <2>2, Reached, Peers
  <2> QED  BY <2>1, <2>2, <2>3, <2>4 DEF Phase, Comparing, At
<1>2. CASE d = "c"
  <2>1. \/ At("compare", "compare") /\ One(inbox["p"], "snapshot") /\ One(inbox["c"], "snapshot")
        \/ At("request", "compare") /\ inbox["p"] = <<>> /\ Two(inbox["c"], "snapshot", "grant")
    BY <1>0, <1>2 DEF Phase, Greeting, Replied, Forgets, Comparing, Swapping,
       ServerSends, ClientSends, WholeMoves, At
  <2>2. /\ run'["c"] = [run["c"] EXCEPT !.pc = "grant", !.remote = Head(inbox["c"]).digest]
        /\ run'["p"] = run["p"] /\ inbox'["c"] = Tail(inbox["c"]) /\ inbox'["p"] = inbox["p"]
    BY <1>2, CompareDiffers, Peers
  <2>3. run'["c"].pc = "grant"
    BY <1>0, <1>2, <2>2 DEF Attempts
  <2>4. /\ One(inbox["c"], "snapshot") => inbox'["c"] = <<>>
        /\ Two(inbox["c"], "snapshot", "grant") => One(inbox'["c"], "grant")
    BY <2>2, Boxes, Peers
  <2> QED  BY <2>1, <2>2, <2>3, <2>4 DEF Phase, Comparing, At
<1> QED  BY <1>1, <1>2, Peers

-----------------------------------------------------------------------------
(* The phases of a transfer.                                               *)

LEMMA MovesRuns ==
  ASSUME Types, NEW d \in Devices, Moves(d)
  PROVE  \A e \in Devices :
           /\ run'[e].id = run[e].id /\ run'[e].dir = run[e].dir /\ run'[e].seen = run[e].seen
           /\ run'[e].local = run[e].local /\ run'[e].remote = run[e].remote
           /\ Pull(e)' = Pull(e) /\ Push(e)' = Push(e)
<1>1. \A e \in Devices :
        /\ run'[e].id = run[e].id /\ run'[e].dir = run[e].dir /\ run'[e].seen = run[e].seen
        /\ run'[e].local = run[e].local /\ run'[e].remote = run[e].remote
  BY Peers DEF Moves, Keeps
<1> QED  BY <1>1 DEF Pull, Push

LEMMA SwapPhase ==
  ASSUME Types, PairingInv, SessionInv, up, NEW d \in Devices, Swap(d), Moves(d)
  PROVE  Phase'
<1>0. /\ Phase /\ run[d].pc = "swap" /\ inbox[d] # <<>> /\ delta' = delta
      /\ run'[d].pc = FirstStage(d) /\ run'[Peer(d)] = run[Peer(d)]
      /\ inbox'[d] = Tail(inbox[d])
      /\ Pull("p")' = Pull("p") /\ Pull("p") = Pull("c")
  BY SwapGoes, MovesRuns, SameDirection, Peers DEF SessionInv, Got, Moves, Keeps
<1>1. CASE d = "p"
  <2>1. /\ inbox["c"] = <<>> /\ delta
        /\ \/ run["c"].pc = "receive" /\ One(inbox["p"], "manifest") /\ Pull("p")
           \/ run["c"].pc = "send" /\ One(inbox["p"], "manifest") /\ ~Pull("p")
           \/ run["c"].pc = "ack" /\ Two(inbox["p"], "manifest", "chunk") /\ ~Pull("p")
           \/ run["c"].pc = "finish" /\ Two(inbox["p"], "manifest", "end") /\ ~Pull("p")
    BY <1>0, <1>1 DEF Phase, Greeting, Replied, Forgets, Comparing, Swapping,
       ServerSends, ClientSends, WholeMoves, At
  <2>2. /\ One(inbox["p"], "manifest") => inbox'["p"] = <<>>
        /\ Two(inbox["p"], "manifest", "chunk") => One(inbox'["p"], "chunk")
        /\ Two(inbox["p"], "manifest", "end") => One(inbox'["p"], "end")
        /\ inbox'["c"] = <<>> /\ run'["c"] = run["c"]
    <3>1. /\ inbox'["p"] = Tail(inbox["p"]) /\ inbox'["c"] = inbox["c"]
          /\ run'["c"] = run["c"]
      BY <1>0, <1>1, SwapGoes, Peers
    <3> QED  BY <2>1, <3>1, Boxes, Peers
  <2>3. run'["p"].pc = IF Pull("p") THEN "send" ELSE "receive"
    BY <1>0, <1>1 DEF FirstStage, Pull
  <2> QED  BY <1>0, <2>1, <2>2, <2>3 DEF Phase, ServerSends, ClientSends, At
<1>2. CASE d = "c"
  <2>1. At("swap", "swap") /\ inbox["p"] = <<>> /\ One(inbox["c"], "manifest") /\ delta
    BY <1>0, <1>2 DEF Phase, Greeting, Replied, Forgets, Comparing, Swapping,
       ServerSends, ClientSends, WholeMoves, At
  <2>2. inbox'["c"] = <<>> /\ One(inbox'["p"], "manifest") /\ run'["p"] = run["p"]
    <3>1. /\ inbox'["c"] = Tail(inbox["c"]) /\ Posted("c", <<Frame("manifest")>>)
          /\ run'["p"] = run["p"]
      BY <1>0, <1>2, SwapGoes, Peers
    <3>2. One(inbox'["p"], "manifest")
      BY <2>1, <3>1, PlainFrame, ReachedOne
    <3> QED  BY <2>1, <3>1, <3>2, Boxes, Peers
  <2>3. run'["c"].pc = IF Pull("c") THEN "receive" ELSE "send"
    BY <1>0, <1>2 DEF FirstStage, Pull
  <2> QED  BY <1>0, <2>1, <2>2, <2>3 DEF Phase, Swapping, At
<1> QED  BY <1>1, <1>2, Peers

LEMMA PreparePhase ==
  ASSUME Types, SessionInv, up, NEW d \in Devices, Prepare(d), Moves(d)
  PROVE  Phase'
<1>1. Phase /\ \A e \in Devices : run'[e].pc = run[e].pc /\ inbox'[e] = inbox[e]
  BY PrepareGoes, Peers DEF SessionInv, Moves, Keeps
<1>2. delta' = delta /\ \A e \in Devices : Pull(e)' = Pull(e) /\ Push(e)' = Push(e)
  BY MovesRuns DEF Moves
<1> QED
  BY <1>1, <1>2, Peers DEF Phase, Greeting, Replied, Forgets, Comparing, Swapping,
     ServerSends, ClientSends, WholeMoves, At

LEMMA SendPhase ==
  ASSUME Types, PairingInv, SessionInv, RoleInv, up, NEW d \in Devices,
         SendChunk(d) \/ SendEnd(d), Moves(d)
  PROVE  Phase'
<1>0. /\ Phase /\ run[d].pc = "send" /\ delta /\ delta' = delta
      /\ run'[Peer(d)] = run[Peer(d)]
      /\ inbox'[d] = inbox[d]
      /\ \A e \in Devices : Pull(e)' = Pull(e) /\ Push(e)' = Push(e)
      /\ Pull("p") = Pull("c") /\ Push("p") = Push("c")
  BY SendChunkGoes, SendEndGoes, MovesRuns, SameDirection, Peers
     DEF SessionInv, RoleInv, Moves, Keeps
<1>1. \/ /\ run'[d].pc = "ack"
         /\ \E f \in Frames : f.kind = "chunk" /\ Posted(d, <<f>>)
      \/ /\ run'[d].pc = (IF d = "p" /\ Push(d) THEN "receive" ELSE "finish")
         /\ \E f \in Frames : f.kind = "end" /\ Posted(d, <<f>>)
  <2>1. CASE SendChunk(d)
    BY <2>1, SendChunkGoes, ChunkFrame
  <2>2. CASE SendEnd(d)
    BY <2>2, SendEndGoes, PlainFrame
  <2> QED  BY <2>1, <2>2
<1>2. CASE d = "p"
  <2>1. run["c"].pc = "receive" /\ inbox["p"] = <<>> /\ inbox["c"] = <<>>
    BY <1>0, <1>2 DEF Phase, Greeting, Replied, Forgets, Comparing, Swapping,
       ServerSends, ClientSends, WholeMoves, At
  <2>2. \/ run'["p"].pc = "ack" /\ One(inbox'["c"], "chunk")
        \/ /\ run'["p"].pc = IF Push("p") THEN "receive" ELSE "finish"
           /\ One(inbox'["c"], "end")
    BY <1>1, <1>2, <2>1, ReachedOne
  <2>3. inbox'["p"] = <<>> /\ run'["c"] = run["c"]
    BY <1>0, <1>2, <2>1, Peers
  <2> QED  BY <1>0, <2>1, <2>2, <2>3, Peers DEF Phase, ServerSends, At
<1>3. CASE d = "c"
  <2>1. /\ inbox["c"] = <<>>
        /\ \/ run["p"].pc = "receive" /\ inbox["p"] = <<>>
           \/ run["p"].pc = "swap" /\ One(inbox["p"], "manifest") /\ ~Pull("p")
    BY <1>0, <1>3 DEF Phase, Greeting, Replied, Forgets, Comparing, Swapping,
       ServerSends, ClientSends, WholeMoves, At
  <2>2. \/ /\ run'["c"].pc = "ack"
           /\ inbox["p"] = <<>> => One(inbox'["p"], "chunk")
           /\ One(inbox["p"], "manifest") => Two(inbox'["p"], "manifest", "chunk")
        \/ /\ run'["c"].pc = "finish"
           /\ inbox["p"] = <<>> => One(inbox'["p"], "end")
           /\ One(inbox["p"], "manifest") => Two(inbox'["p"], "manifest", "end")
    BY <1>1, <1>3, <2>1, ReachedOne
  <2>3. inbox'["c"] = <<>> /\ run'["p"] = run["p"]
    BY <1>0, <1>3, <2>1, Peers
  <2> QED  BY <1>0, <2>1, <2>2, <2>3, Peers DEF Phase, Swapping, ClientSends, At
<1> QED  BY <1>2, <1>3, Peers

LEMMA AckPhase ==
  ASSUME Types, SessionInv, up, NEW d \in Devices, Ack(d), Moves(d)
  PROVE  Phase'
<1>0. /\ Phase /\ run[d].pc = "ack" /\ inbox[d] # <<>> /\ Head(inbox[d]).kind = "ack"
      /\ delta' = delta
      /\ run'[d].pc = (IF delta THEN "send" ELSE "finish") /\ run'[Peer(d)] = run[Peer(d)]
      /\ inbox'[d] = Tail(inbox[d]) /\ inbox'[Peer(d)] = inbox[Peer(d)]
  BY AckGoes DEF SessionInv, Got, Moves, Keeps
<1>1. CASE d = "p"
  <2>1. run["c"].pc = "receive" /\ One(inbox["p"], "ack") /\ inbox["c"] = <<>> /\ delta
    BY <1>0, <1>1 DEF Phase, Greeting, Replied, Forgets, Comparing, Swapping,
       ServerSends, ClientSends, WholeMoves, At
  <2>2. /\ run'["p"].pc = "send" /\ run'["c"] = run["c"]
        /\ inbox'["p"] = <<>> /\ inbox'["c"] = <<>>
    BY <1>0, <1>1, <2>1, Boxes, Peers
  <2> QED  BY <1>0, <2>1, <2>2 DEF Phase, ServerSends, At
<1>2. CASE d = "c"
  <2>1. /\ inbox["p"] = <<>> /\ One(inbox["c"], "ack")
        /\ run["p"].pc = IF delta THEN "receive" ELSE "request"
    BY <1>0, <1>2, Boxes DEF Phase, Greeting, Replied, Forgets, Comparing, Swapping,
       ServerSends, ClientSends, WholeMoves, At
  <2>2. /\ run'["c"].pc = (IF delta THEN "send" ELSE "finish") /\ run'["p"] = run["p"]
        /\ inbox'["p"] = <<>> /\ inbox'["c"] = <<>>
    BY <1>0, <1>2, <2>1, Boxes, Peers
  <2> QED  BY <1>0, <2>1, <2>2 DEF Phase, ClientSends, WholeMoves, At
<1> QED  BY <1>1, <1>2, Peers

LEMMA StorePhase ==
  ASSUME Types, Types', PairingInv, SessionInv, RoleInv, up, NEW d \in Devices, Store(d), Moves(d)
  PROVE  Phase'
<1>0. /\ Phase /\ inbox[d] # <<>> /\ delta' = delta
      /\ \/ run[d].pc = "receive" /\ Head(inbox[d]).kind = "chunk"
         \/ run[d].pc = "request" /\ Head(inbox[d]).kind = "push"
      /\ run'[Peer(d)] = run[Peer(d)]
      /\ inbox'[d] = Tail(inbox[d])
  BY StoreGoes DEF SessionInv, Storing, Got, Moves, Keeps
<1>1. \/ /\ delta \/ d = "p"
         /\ run'[d].pc = run[d].pc /\ \E f \in Frames : f.kind = "ack" /\ Posted(d, <<f>>)
      \/ /\ ~delta /\ d = "c" /\ run'[d].pc = "ack"
         /\ \E f \in Frames : f.kind = "push" /\ Posted(d, <<f>>)
      \/ /\ ~delta /\ d = "c" /\ run'[d].pc = "finish" /\ inbox'[Peer(d)] = inbox[Peer(d)]
  <2>1. held'[d] \in Manifests
    BY DEF Types
  <2> QED  BY <2>1, StoreGoes, PlainFrame, ChunkFrame
<1>2. CASE d = "p"
  <2>1. /\ inbox["c"] = <<>> /\ run["c"].pc = "ack"
        /\ \/ delta /\ run["p"].pc = "receive" /\ One(inbox["p"], "chunk")
           \/ ~delta /\ run["p"].pc = "request" /\ One(inbox["p"], "push")
    BY <1>0, <1>2, Boxes DEF Phase, Greeting, Replied, Forgets, Comparing, Swapping,
       ServerSends, ClientSends, WholeMoves, At
  <2>2. /\ run'["p"].pc = run["p"].pc /\ run'["c"] = run["c"]
        /\ inbox'["p"] = <<>> /\ One(inbox'["c"], "ack")
    <3>1. One(inbox'["c"], "ack") /\ run'["p"].pc = run["p"].pc
      BY <1>1, <1>2, <2>1, ReachedOne
    <3>2. inbox'["p"] = <<>> /\ run'["c"] = run["c"]
      BY <1>0, <1>2, <2>1, Boxes, Peers
    <3> QED  BY <3>1, <3>2
  <2> QED  BY <1>0, <2>1, <2>2 DEF Phase, ClientSends, WholeMoves, At
<1>3. CASE d = "c"
  <2>1. /\ inbox["p"] = <<>> /\ run["c"].pc = "receive" /\ One(inbox["c"], "chunk")
        /\ run["p"].pc = IF delta THEN "ack" ELSE "request"
    BY <1>0, <1>3, Boxes DEF RoleInv, Phase, Greeting, Replied, Forgets, Comparing, Swapping,
       ServerSends, ClientSends, WholeMoves, At
  <2>2. /\ inbox'["c"] = <<>> /\ run'["p"] = run["p"]
        /\ \/ delta /\ run'["c"].pc = "receive" /\ One(inbox'["p"], "ack")
           \/ ~delta /\ run'["c"].pc = "ack" /\ One(inbox'["p"], "push")
           \/ ~delta /\ run'["c"].pc = "finish" /\ inbox'["p"] = <<>>
    <3>1. /\ delta => run'["c"].pc = "receive" /\ One(inbox'["p"], "ack")
          /\ ~delta => \/ run'["c"].pc = "ack" /\ One(inbox'["p"], "push")
                       \/ run'["c"].pc = "finish" /\ inbox'["p"] = <<>>
      BY <1>1, <1>3, <2>1, ReachedOne, Peers
    <3>2. inbox'["c"] = <<>> /\ run'["p"] = run["p"]
      BY <1>0, <1>3, <2>1, Boxes, Peers
    <3> QED  BY <3>1, <3>2
  <2> QED  BY <1>0, <2>1, <2>2 DEF Phase, ServerSends, WholeMoves, At
<1> QED  BY <1>2, <1>3, Peers

LEMMA ReceiveEndPhase ==
  ASSUME Types, PairingInv, SessionInv, up, NEW d \in Devices, ReceiveEnd(d), Moves(d)
  PROVE  Phase'
<1>0. /\ Phase /\ run[d].pc = "receive" /\ inbox[d] # <<>> /\ Head(inbox[d]).kind = "end"
      /\ delta' = delta
      /\ run'[d].pc = (IF d = "c" /\ Push(d) THEN "send" ELSE "finish")
      /\ run'[Peer(d)] = run[Peer(d)]
      /\ inbox'[d] = Tail(inbox[d]) /\ inbox'[Peer(d)] = inbox[Peer(d)]
  BY ReceiveEndGoes DEF SessionInv, Got, Moves, Keeps
<1>1. CASE d = "p"
  <2>1. run["c"].pc = "finish" /\ One(inbox["p"], "end") /\ inbox["c"] = <<>> /\ delta
    BY <1>0, <1>1, Boxes DEF Phase, Greeting, Replied, Forgets, Comparing, Swapping,
       ServerSends, ClientSends, WholeMoves, At
  <2>2. /\ run'["p"].pc = "finish" /\ run'["c"] = run["c"]
        /\ inbox'["p"] = <<>> /\ inbox'["c"] = <<>>
    BY <1>0, <1>1, <2>1, Boxes, Peers
  <2> QED  BY <1>0, <2>1, <2>2 DEF Phase, ClientSends, At
<1>2. CASE d = "c"
  <2>1. /\ inbox["p"] = <<>> /\ One(inbox["c"], "end") /\ delta
        /\ run["p"].pc = IF Push("c") THEN "receive" ELSE "finish"
    BY <1>0, <1>2, Boxes DEF Phase, Greeting, Replied, Forgets, Comparing, Swapping,
       ServerSends, ClientSends, WholeMoves, At
  <2>2. /\ run'["c"].pc = (IF Push("c") THEN "send" ELSE "finish") /\ run'["p"] = run["p"]
        /\ inbox'["p"] = <<>> /\ inbox'["c"] = <<>>
    BY <1>0, <1>2, <2>1, Boxes, Peers
  <2> QED  BY <1>0, <2>1, <2>2 DEF Phase, ClientSends, At
<1> QED  BY <1>1, <1>2, Peers

LEMMA GrantPhase ==
  ASSUME Types, SessionInv, up, Grant, Moves("c")
  PROVE  Phase'
<1>0. /\ Phase /\ run["c"].pc = "grant" /\ inbox["c"] # <<>> /\ Head(inbox["c"]).kind = "grant"
      /\ delta' = delta /\ run'["p"] = run["p"] /\ inbox'["c"] = Tail(inbox["c"])
  BY GrantGoes, Peers DEF SessionInv, Got, Moves, Keeps
<1>1. run["p"].pc = "request" /\ inbox["p"] = <<>> /\ One(inbox["c"], "grant")
  BY <1>0, Boxes, Peers DEF Phase, Greeting, Replied, Forgets, Comparing, Swapping,
     ServerSends, ClientSends, WholeMoves, At
<1>2. inbox'["c"] = <<>>
  BY <1>0, <1>1, Boxes, Peers
<1>3. held["c"] \in Manifests
  BY Peers DEF Types
<1>4. \/ delta /\ run'["c"].pc = "swap" /\ One(inbox'["p"], "request")
      \/ ~delta /\ run'["c"].pc = "receive" /\ One(inbox'["p"], "pull")
      \/ ~delta /\ run'["c"].pc = "ack" /\ One(inbox'["p"], "push")
  <2>1. \A f \in Frames : Posted("c", <<f>>) => One(inbox'["p"], f.kind)
    BY <1>1, Reached, Peers
  <2> QED  BY <1>3, <2>1, GrantGoes, PlainFrame, ChunkFrame
<1> QED  BY <1>0, <1>1, <1>2, <1>4 DEF Phase, Swapping, WholeMoves, At

LEMMA RequestPhase ==
  ASSUME Types, SessionInv, up, Request, Moves("p")
  PROVE  Phase'
<1>0. /\ Phase /\ run["p"].pc = "request" /\ inbox["p"] # <<>>
      /\ Head(inbox["p"]).kind \in {"request", "pull"}
      /\ delta' = delta /\ run'["c"] = run["c"] /\ inbox'["p"] = Tail(inbox["p"])
  BY RequestGoes, Peers DEF SessionInv, Got, Moves, Keeps
<1>1. /\ inbox["c"] = <<>>
      /\ \/ delta /\ run["c"].pc = "swap" /\ One(inbox["p"], "request")
         \/ ~delta /\ run["c"].pc = "receive" /\ One(inbox["p"], "pull")
  BY <1>0, Boxes, Peers DEF Phase, Greeting, Replied, Forgets, Comparing, Swapping,
     ServerSends, ClientSends, WholeMoves, At
<1>2. inbox'["p"] = <<>>
  BY <1>1, <1>0, Boxes, Peers
<1>3. held["p"] \in Manifests
  BY Peers DEF Types
<1>4. \/ Head(inbox["p"]).kind = "request" /\ run'["p"].pc = "swap" /\ One(inbox'["c"], "manifest")
      \/ Head(inbox["p"]).kind = "pull" /\ run'["p"].pc = "request" /\ One(inbox'["c"], "chunk")
  <2>1. \A f \in Frames : Posted("p", <<f>>) => One(inbox'["c"], f.kind)
    BY <1>1, Reached, Peers
  <2> QED  BY <1>0, <1>3, <2>1, RequestGoes, PlainFrame, ChunkFrame DEF Got
<1>5. /\ One(inbox["p"], "request") => Head(inbox["p"]).kind = "request"
      /\ One(inbox["p"], "pull") => Head(inbox["p"]).kind = "pull"
  BY Boxes, Peers
<1> QED  BY <1>0, <1>1, <1>2, <1>4, <1>5 DEF Phase, Swapping, WholeMoves, At

LEMMA TransferPhase ==
  ASSUME Types, Types', PairingInv, SessionInv, RoleInv, up, NEW d \in Devices, TransferStep(d)
  PROVE  Phase'
BY TransferMoves, SwapPhase, PreparePhase, SendPhase, AckPhase, StorePhase, ReceiveEndPhase,
   GrantPhase, RequestPhase DEF TransferStep

-----------------------------------------------------------------------------
(* A device that goes on alone, and the session as a whole.                *)

LEMMA AwaitsStays ==
  ASSUME NEW d \in Devices, Awaits(d), run'[d].pc = run[d].pc, run'[d].dir = run[d].dir,
         inbox'[d] = inbox[d], delta' = delta
  PROVE  Awaits(d)'
BY DEF Awaits, Alone, Pull

LEMMA AwaitsNothing ==
  ASSUME NEW d \in Devices, inbox'[d] = <<>>
  PROVE  Awaits(d)'
BY DEF Awaits, Alone

LEMMA AloneTakes ==
  ASSUME Types, NEW d \in Devices, Awaits(d), inbox[d] # <<>>, run[d].pc \in Past
  PROVE  \/ Tail(inbox[d]) = <<>>
         \/ /\ d = "p" /\ run[d].pc = "swap" /\ ~Pull("p")
            /\ One(Tail(inbox[d]), "chunk") \/ One(Tail(inbox[d]), "end")
<1>1. /\ \A k : One(inbox[d], k) => Tail(inbox[d]) = <<>>
      /\ \A k, l : Two(inbox[d], k, l) => One(Tail(inbox[d]), l)
  BY Boxes
<1> QED  BY <1>1 DEF Awaits, Alone, Past

LEMMA TransferAwaits ==
  ASSUME Types, Types', SessionInv, RoleInv, ~up, NEW d \in Devices, TransferStep(d), Moves(d)
  PROVE  Awaits("p")' /\ Awaits("c")'
<1>0. /\ Awaits(d) /\ Awaits(Peer(d)) /\ delta' = delta /\ run[d].pc \in Past
      /\ run'[Peer(d)] = run[Peer(d)] /\ inbox'[Peer(d)] = inbox[Peer(d)]
      /\ run'[d].dir = run[d].dir
  BY Peers DEF SessionInv, Moves, Keeps
<1>1. Awaits(Peer(d))'
  BY <1>0, AwaitsStays, Peers
<1>2. Awaits(d)'
  <2>1. CASE Prepare(d)
    BY <1>0, <2>1, PrepareGoes, AwaitsStays
  <2>2. CASE SendChunk(d) \/ SendEnd(d)
    <3>1. inbox'[d] = inbox[d] /\ run[d].pc = "send"
      BY <2>2, SendChunkGoes, SendEndGoes
    <3>2. inbox[d] = <<>>
      BY <1>0, <3>1 DEF Awaits, Alone
    <3> QED  BY <3>1, <3>2, AwaitsNothing
  <2>3. CASE Swap(d)
    <3>1. /\ inbox[d] # <<>> /\ inbox'[d] = Tail(inbox[d]) /\ run'[d].pc = FirstStage(d)
          /\ run[d].pc = "swap" /\ delta
      BY <2>3, SwapGoes DEF Got, RoleInv
    <3>2. CASE Tail(inbox[d]) = <<>>
      BY <3>1, <3>2, AwaitsNothing
    <3>3. CASE /\ d = "p" /\ ~Pull("p")
               /\ One(Tail(inbox[d]), "chunk") \/ One(Tail(inbox[d]), "end")
      <4>1. run'[d].pc = "receive"
        BY <3>1, <3>3 DEF FirstStage, Pull
      <4> QED  BY <1>0, <3>1, <3>3, <4>1 DEF Awaits, Alone
    <3> QED  BY <1>0, <3>1, <3>2, <3>3, AloneTakes
  <2>4. CASE Ack(d) \/ Store(d) \/ ReceiveEnd(d) \/ (d = "c" /\ Grant) \/ (d = "p" /\ Request)
    <3>1. inbox[d] # <<>> /\ inbox'[d] = Tail(inbox[d]) /\ run[d].pc # "swap"
      <4>1. CASE Ack(d)
        BY <4>1, AckGoes DEF Got
      <4>2. CASE Store(d)
        BY <4>2, StoreGoes DEF Storing
      <4>3. CASE ReceiveEnd(d)
        BY <4>3, ReceiveEndGoes DEF Got
      <4>4. CASE d = "c" /\ Grant
        BY <4>4, GrantGoes DEF Got
      <4>5. CASE d = "p" /\ Request
        BY <4>5, RequestGoes DEF Got
      <4> QED  BY <2>4, <4>1, <4>2, <4>3, <4>4, <4>5
    <3> QED  BY <1>0, <3>1, AloneTakes, AwaitsNothing
  <2> QED  BY <2>1, <2>2, <2>3, <2>4 DEF TransferStep
<1> QED  BY <1>1, <1>2, Peers

(* A chunk that cannot be stored is refused where it is awaited. *)
LEMMA RefusedAwaits ==
  ASSUME Types, SessionInv, up, NEW d \in Devices, Storing(d), delta \/ d = "p"
  PROVE  run[Peer(d)].pc = "ack" /\ inbox[Peer(d)] = <<>>
<1>1. /\ Phase /\ inbox[d] # <<>>
      /\ \/ run[d].pc = "receive" /\ Head(inbox[d]).kind = "chunk"
         \/ run[d].pc = "request" /\ Head(inbox[d]).kind = "push"
  BY DEF SessionInv, Storing, Got
<1>2. CASE d = "p"
  BY <1>1, <1>2, Boxes, Peers DEF Phase, Greeting, Replied, Forgets, Comparing, Swapping,
     ServerSends, ClientSends, WholeMoves, At
<1>3. CASE d = "c" /\ delta
  BY <1>1, <1>3, Boxes, Peers DEF Phase, Greeting, Replied, Forgets, Comparing, Swapping,
     ServerSends, ClientSends, WholeMoves, At
<1> QED  BY <1>2, <1>3, Peers

(* What a step of d must do for the session to go on. *)
LEMMA GoesOn ==
  ASSUME SessionInv, NEW d \in Devices,
         run'[Peer(d)] = run[Peer(d)], run'[d].id = run[d].id, InSession(d),
         up' = up, delta' = delta, (InSession(d))',
         up => Phase',
         ~up => Awaits(d)' /\ inbox'[Peer(d)] = inbox[Peer(d)],
         (delta \in BOOLEAN)'
  PROVE  SessionInv'
<1>1. InSession(Peer(d))' = InSession(Peer(d))
  BY DEF InSession
<1>2. up' => (InSession("p") /\ InSession("c") /\ Phase)'
  BY <1>1, Peers DEF SessionInv
<1>3. (InSession("p") /\ InSession("c"))' => run'["p"].id = run'["c"].id
  BY <1>1, Peers DEF SessionInv
<1>4. up => (Awaits("p") /\ Awaits("c"))'
  BY PhaseAwaitsNext
<1>5. ~up => (Awaits("p") /\ Awaits("c"))'
  <2>1. ~up => Awaits(Peer(d))'
    BY AwaitsStays, Peers DEF SessionInv
  <2> QED  BY <2>1, Peers
<1>6. \A e \in Devices : (~InSession(e) => inbox[e] = <<>>)'
  <2>1. (~InSession(Peer(d)))' => ~up /\ inbox[Peer(d)] = <<>>
    BY <1>1, Peers DEF SessionInv
  <2> QED  BY <2>1, Peers
<1> QED  BY <1>2, <1>3, <1>4, <1>5, <1>6, Peers DEF SessionInv

LEMMA SessionHolds ==
  ASSUME Types, Types', PairingInv, SessionInv, RoleInv, VerdictInv, Next
  PROVE  SessionInv'
<1>0. (delta \in BOOLEAN)'
  BY DEF Types
<1>1. CASE Rests
  <2>1. run' = run /\ up' = up /\ inbox' = inbox /\ delta' = delta
    BY <1>1 DEF Rests
  <2> QED
    BY <2>1 DEF SessionInv, InSession, Awaits, Alone, Phase, Greeting, Replied, Forgets, Comparing,
       Swapping, ServerSends, ClientSends, WholeMoves, At, Pull, Push
<1>2. CASE Cut
  <2>1. run' = run /\ up' = FALSE /\ delta' = delta
    BY <1>2 DEF Cut
  <2>2. ASSUME NEW d \in Devices
        PROVE  Awaits(d)' /\ (~InSession(d) => inbox[d] = <<>>)'
    <3>1. /\ inbox[d] = <<>> => inbox'[d] = <<>>
          /\ \A k : One(inbox[d], k) => inbox'[d] = <<>> \/ One(inbox'[d], k)
          /\ \A k, l : Two(inbox[d], k, l) =>
               inbox'[d] = <<>> \/ One(inbox'[d], k) \/ Two(inbox'[d], k, l)
      BY <1>2, CutFrames
    <3>2. Awaits(d) /\ (~InSession(d) => inbox[d] = <<>>)
      BY DEF SessionInv
    <3>3. Awaits(d)'
      BY <2>1, <3>1, <3>2 DEF Awaits, Alone, Pull
    <3>4. (~InSession(d) => inbox[d] = <<>>)'
      BY <2>1, <3>1, <3>2 DEF InSession
    <3> QED  BY <3>3, <3>4
  <2> QED  BY <2>1, <2>2 DEF SessionInv, InSession
<1>3. CASE Join
  <2>1. Phase' /\ up' = TRUE
    BY <1>3, JoinPhase, JoinGoes
  <2>2. \A d \in Devices : (InSession(d))'
    BY <1>3, JoinGoes DEF InSession
  <2>3. run'["p"].id = run'["c"].id
    BY <1>3, JoinGoes, Peers
  <2>4. Awaits("p")' /\ Awaits("c")'
    BY <1>0, <2>1, PhaseAwaitsNext
  <2> QED  BY <2>1, <2>2, <2>3, <2>4, Peers DEF SessionInv
<1>4. ASSUME NEW d \in Devices, Start(d)
      PROVE  SessionInv'
  <2>1. /\ ~InSession(d) /\ (~InSession(d))' /\ run'[Peer(d)] = run[Peer(d)]
        /\ up' = up /\ inbox' = inbox /\ delta' = delta
    BY <1>4, StartGoes DEF InSession
  <2>2. ~up /\ inbox[d] = <<>>
    BY <2>1, Peers DEF SessionInv
  <2>3. Awaits(d)' /\ Awaits(Peer(d))'
    BY <2>1, <2>2, AwaitsNothing, AwaitsStays, Peers DEF SessionInv
  <2>4. (~InSession(Peer(d)) => inbox[Peer(d)] = <<>>)'
    BY <2>1, Peers DEF SessionInv, InSession
  <2> QED  BY <2>1, <2>2, <2>3, <2>4, Peers DEF SessionInv
<1>5. ASSUME NEW d \in Devices, Ends(d)
      PROVE  SessionInv'
  <2>1. /\ (~InSession(d))' /\ run'[Peer(d)] = run[Peer(d)]
        /\ up' = FALSE /\ inbox'[d] = <<>> /\ delta' = delta
    BY <1>5 DEF Ends, InSession, Idle
  <2>2. /\ Awaits(Peer(d)) /\ (~InSession(Peer(d)) => inbox[Peer(d)] = <<>>)
        /\ inbox[Peer(d)] \in Seq(Frames)
    BY Peers DEF SessionInv, Types
  <2>3. Awaits(Peer(d))' /\ (~InSession(Peer(d)) => inbox[Peer(d)] = <<>>)'
    <3>1. CASE inbox'[Peer(d)] = inbox[Peer(d)]
      BY <2>1, <2>2, <3>1, AwaitsStays, Peers DEF InSession
    <3>2. CASE /\ up /\ Storing(d) /\ (delta \/ d = "p")
               /\ inbox'[Peer(d)] = inbox[Peer(d)] \o <<Frame("refused")>>
      <4>1. run'[Peer(d)].pc = "ack" /\ inbox[Peer(d)] = <<>>
        BY <2>1, <3>2, RefusedAwaits
      <4>2. One(inbox'[Peer(d)], "refused")
        BY <2>2, <3>2, <4>1, PlainFrame, OnePut
      <4> QED  BY <4>1, <4>2 DEF Awaits, Alone, InSession
    <3> QED  BY <1>5, <3>1, <3>2 DEF Ends
  <2>4. Awaits(d)'
    BY <2>1, AwaitsNothing
  <2> QED  BY <2>1, <2>3, <2>4, Peers DEF SessionInv
<1>6. ASSUME NEW d \in Devices, Hello(d), Current(d)
      PROVE  SessionInv'
  <2>1. /\ run'[Peer(d)] = run[Peer(d)] /\ run'[d].id = run[d].id
        /\ InSession(d) /\ (InSession(d))' /\ run[d].pc = "hello" /\ run'[d].pc = "greet"
        /\ up' = up /\ delta' = delta /\ inbox'[d] = inbox[d]
    BY <1>6, HelloGoes DEF InSession
  <2>2. ~up => inbox'[Peer(d)] = inbox[Peer(d)]
    BY <1>6, HelloGoes, Peers DEF Posted
  <2>3. ~up => Awaits(d)'
    BY <2>1 DEF SessionInv, Awaits, Alone
  <2> QED  BY <1>0, <1>6, <2>1, <2>2, <2>3, HelloPhase, GoesOn
<1>7. ASSUME NEW d \in Devices, Greet(d)
      PROVE  SessionInv'
  <2>0. /\ run[d] \in Attempts /\ run[d].pc = "greet" /\ inbox[d] # <<>>
        /\ inbox[d] \in Seq(Frames) /\ InSession(d)
    BY <1>7, GreetReads DEF Types, InSession
  <2>1. Awaits(d)
    BY DEF SessionInv
  <2>2. \/ Tail(inbox[d]) = <<>>
        \/ d = "p" /\ Two(inbox[d], "status", "forgotten") /\ One(Tail(inbox[d]), "forgotten")
        \/ d = "p" /\ Two(inbox[d], "status", "snapshot") /\ One(Tail(inbox[d]), "snapshot")
    BY <2>0, <2>1, Boxes DEF Awaits, Alone
  <2>3. d = "p" =>
          /\ Accords(verdict["c"], run["p"].seen, Head(inbox["p"]))
          /\ Two(inbox[d], "status", "forgotten") => verdict["c"] = "forget"
          /\ Two(inbox[d], "status", "snapshot") => verdict["c"] = "none"
    <3>1. CASE d = "p"
      <4>1. \A f \in FramesOf(inbox["p"]) :
              /\ f.kind = "status" => Accords(verdict["c"], run["p"].seen, f)
              /\ f.kind = "forgotten" => verdict["c"] = "forget"
              /\ f.kind = "snapshot" => verdict["c"] = "none"
        BY <2>0, <3>1 DEF VerdictInv
      <4>2. Head(inbox["p"]) \in FramesOf(inbox["p"]) /\ Head(inbox["p"]).kind = "status"
        BY <1>7, <3>1, GreetReads
      <4> QED  BY <2>0, <3>1, <4>1, <4>2, TwoMembers
    <3> QED  BY <3>1
  <2>4. CASE Forgetting(d)
    <3>1. /\ run'[d] = [run[d] EXCEPT !.pc = "forget"] /\ run'[Peer(d)] = run[Peer(d)]
          /\ up' = up /\ delta' = delta
          /\ inbox'[d] = Tail(inbox[d]) /\ (~up => inbox'[Peer(d)] = inbox[Peer(d)])
      BY <1>7, <2>4, GreetForgets, GreetReads DEF Posted
    <3>2. run'[d].pc = "forget" /\ run'[d].id = run[d].id
      BY <2>0, <3>1 DEF Attempts
    <3>3. ~(d = "p" /\ Two(inbox[d], "status", "snapshot"))
      BY <2>3, <2>4 DEF Forgetting, Accords
    <3>4. Awaits(d)'
      BY <2>2, <3>1, <3>2, <3>3 DEF Awaits, Alone
    <3> QED  BY <1>0, <1>7, <2>0, <2>4, <3>1, <3>2, <3>4, GreetPhase, GoesOn DEF InSession
  <2>5. CASE ~Forgetting(d) /\ Current(d) /\ Agreed(d)
    <3>1. /\ run'[d] = [run[d] EXCEPT !.pc = "compare", !.local = held[d]]
          /\ run'[Peer(d)] = run[Peer(d)]
          /\ up' = up /\ delta' = delta
          /\ inbox'[d] = Tail(inbox[d]) /\ (~up => inbox'[Peer(d)] = inbox[Peer(d)])
      BY <1>7, <2>5, GreetAgrees, GreetReads DEF Posted
    <3>2. run'[d].pc = "compare" /\ run'[d].id = run[d].id
      BY <2>0, <3>1 DEF Attempts
    <3>3. ~(d = "p" /\ Two(inbox[d], "status", "forgotten"))
      BY <2>3, <2>5 DEF Forgetting, Accords
    <3>4. Awaits(d)'
      BY <2>2, <3>1, <3>2, <3>3 DEF Awaits, Alone
    <3> QED  BY <1>0, <1>7, <2>0, <2>5, <3>1, <3>2, <3>4, GreetPhase, GoesOn DEF InSession
  <2>6. CASE ~Forgetting(d) /\ ~(Current(d) /\ Agreed(d))
    <3>1. /\ run'[d] = Idle /\ run'[Peer(d)] = run[Peer(d)] /\ up' = FALSE /\ delta' = delta
          /\ inbox'[d] = <<>> /\ Posted(d, GreetReply(d))
      BY <1>7, <2>6, GreetLeaves, GreetReads
    <3>2. /\ Awaits(Peer(d)) /\ (~InSession(Peer(d)) => inbox[Peer(d)] = <<>>)
          /\ inbox[Peer(d)] \in Seq(Frames)
      BY Peers DEF SessionInv, Types
    <3>3. \/ inbox'[Peer(d)] = inbox[Peer(d)]
          \/ d = "c" /\ up /\ inbox'["p"] = inbox["p"] \o <<Status(run["c"].seen)>>
      <4>1. CASE d = "p"
        <5>1. Posted(d, <<>>)
          BY <3>1, <4>1, Replies
        <5> QED  BY <5>1, PostsNone
      <4>2. CASE d = "c"
        <5>1. Posted("c", <<Status(run["c"].seen)>>)
          BY <3>1, <4>2, Replies
        <5> QED  BY <4>2, <5>1, Peers DEF Posted
      <4> QED  BY <4>1, <4>2, Peers
    <3>4. Awaits(Peer(d))' /\ (~InSession(Peer(d)) => inbox[Peer(d)] = <<>>)'
      <4>1. CASE inbox'[Peer(d)] = inbox[Peer(d)]
        BY <3>1, <3>2, <4>1, AwaitsStays, Peers DEF InSession
      <4>2. CASE d = "c" /\ up /\ inbox'["p"] = inbox["p"] \o <<Status(run["c"].seen)>>
        <5>1. run["p"].pc = "greet" /\ inbox["p"] = <<>>
          BY <2>0, <4>2 DEF SessionInv, Phase, Greeting, Replied, Forgets, Comparing, Swapping,
             ServerSends, ClientSends, WholeMoves, At
        <5>2. Status(run["c"].seen) \in Frames /\ Status(run["c"].seen).kind = "status"
          BY Said, Peers DEF Status
        <5>3. One(inbox'["p"], "status")
          <6>1. inbox["p"] \in Seq(Frames)
            BY <3>2, <4>2, Peers
          <6> QED  BY <4>2, <5>1, <5>2, <6>1, OnePut
        <5> QED  BY <3>1, <4>2, <5>1, <5>3, Peers DEF Awaits, Alone, InSession
      <4> QED  BY <3>3, <4>1, <4>2
    <3>5. Awaits(d)' /\ (~InSession(d))'
      BY <3>1, AwaitsNothing DEF InSession, Idle
    <3> QED  BY <3>1, <3>4, <3>5, Peers DEF SessionInv
  <2> QED  BY <2>4, <2>5, <2>6
<1>8. ASSUME NEW d \in Devices, Compare(d)
      PROVE  SessionInv'
  <2>0. run[d] \in Attempts /\ run[d].pc = "compare" /\ inbox[d] # <<>> /\ InSession(d)
    BY <1>8, CompareReads DEF Types, InSession
  <2>1. CASE Changed(d)
    <3>1. /\ run'[d] = [run[d] EXCEPT !.pc = IF d = "p" THEN "request" ELSE "grant",
                                      !.remote = Head(inbox[d]).digest]
          /\ run'[Peer(d)] = run[Peer(d)]
          /\ up' = up /\ delta' = delta
          /\ inbox'[d] = Tail(inbox[d]) /\ (~up => inbox'[Peer(d)] = inbox[Peer(d)])
      BY <1>8, <2>1, CompareDiffers, CompareReads, Peers DEF Posted
    <3>2. run'[d].pc = (IF d = "p" THEN "request" ELSE "grant") /\ run'[d].id = run[d].id
      BY <2>0, <3>1 DEF Attempts
    <3>3. Awaits(d)'
      <4>1. \/ Tail(inbox[d]) = <<>>
            \/ d = "c" /\ One(Tail(inbox[d]), "grant")
        BY <2>0, Boxes DEF SessionInv, Awaits, Alone
      <4> QED  BY <3>1, <3>2, <4>1 DEF Awaits, Alone
    <3>4. (InSession(d))'
      BY <3>2 DEF InSession
    <3> QED  BY <1>0, <1>8, <2>0, <2>1, <3>1, <3>2, <3>3, <3>4, ComparePhase, GoesOn
  <2>2. CASE ~Changed(d)
    <3>1. /\ run'[d] = Idle /\ run'[Peer(d)] = run[Peer(d)] /\ up' = FALSE /\ delta' = delta
          /\ inbox'[d] = <<>> /\ inbox'[Peer(d)] = inbox[Peer(d)]
      BY <1>8, <2>2, CompareLeaves, CompareReads
    <3>2. Awaits(Peer(d))' /\ (~InSession(Peer(d)) => inbox[Peer(d)] = <<>>)'
      BY <3>1, AwaitsStays, Peers DEF SessionInv, InSession
    <3>3. Awaits(d)' /\ (~InSession(d))'
      BY <3>1, AwaitsNothing DEF InSession, Idle
    <3> QED  BY <3>1, <3>2, <3>3, Peers DEF SessionInv
  <2> QED  BY <2>1, <2>2
<1>9. ASSUME NEW d \in Devices, TransferStep(d)
      PROVE  SessionInv'
  <2>1. Moves(d)
    BY <1>9, TransferMoves
  <2>2. /\ run'[Peer(d)] = run[Peer(d)] /\ run'[d].id = run[d].id /\ up' = up /\ delta' = delta
        /\ run[d].pc \in Past /\ run'[d].pc \in Past
        /\ ~up => inbox'[Peer(d)] = inbox[Peer(d)]
    BY <2>1 DEF Moves, Keeps
  <2>3. InSession(d) /\ (InSession(d))'
    BY <2>2 DEF InSession, Past
  <2>4. ~up => Awaits(d)'
    BY <1>9, <2>1, TransferAwaits, Peers
  <2>5. up => Phase'
    BY <1>9, TransferPhase
  <2> QED  BY <1>0, <2>2, <2>3, <2>4, <2>5, GoesOn
<1> QED  BY <1>1, <1>2, <1>3, <1>4, <1>5, <1>6, <1>7, <1>8, <1>9, Classified

-----------------------------------------------------------------------------
(* What a step does to one attempt, and which snapshots it sends.          *)

Agrees(d) == Greet(d) /\ ~Forgetting(d) /\ Current(d) /\ Agreed(d)

Attempted(d) ==
  \/ run'[d] = run[d]
  \/ run'[d].pc \in {"off", "join"} /\ run'[d].remote = Unknown
  \/ Join /\ run[d].pc = "join" /\ run'[d].pc = "hello" /\ run'[d].remote = run[d].remote
  \/ /\ Hello(d) /\ Current(d)
     /\ run[d].pc = "hello" /\ run'[d].pc = "greet"
     /\ run'[d].seen = rec[d] /\ run'[d].remote = run[d].remote
     /\ run'[d].id = run[d].id /\ run'[d].dir = run[d].dir
  \/ /\ Greet(d)
     /\ run[d].pc = "greet" /\ run'[d].pc = "forget"
     /\ run'[d].seen = run[d].seen /\ run'[d].remote = run[d].remote
     /\ run'[d].id = run[d].id /\ run'[d].dir = run[d].dir
  \/ /\ Agrees(d)
     /\ run[d].pc = "greet" /\ run'[d].pc = "compare" /\ Active(run[d].seen)
     /\ run'[d].seen = run[d].seen /\ run'[d].remote = run[d].remote /\ run'[d].local = held[d]
     /\ run'[d].id = run[d].id /\ run'[d].dir = run[d].dir
  \/ /\ Compare(d) /\ Changed(d)
     /\ run[d].pc = "compare" /\ run'[d].pc = (IF d = "p" THEN "request" ELSE "grant")
     /\ run'[d].seen = run[d].seen /\ run'[d].local = run[d].local
     /\ run'[d].remote = Head(inbox[d]).digest
     /\ run'[d].id = run[d].id /\ run'[d].dir = run[d].dir
  \/ Moves(d) /\ TransferStep(d)

LEMMA Attempts1 ==
  ASSUME Types, Types', Next
  PROVE  \A d \in Devices : Attempted(d)
<1>1. ASSUME NEW d \in Devices, run'[Peer(d)] = run[Peer(d)], Attempted(d)
      PROVE  \A e \in Devices : Attempted(e)
  <2>1. Attempted(Peer(d))
    BY <1>1 DEF Attempted
  <2> QED  BY <1>1, <2>1, Peers
<1>2. CASE Rests \/ Cut
  <2>1. run' = run
    BY <1>2 DEF Rests, Cut
  <2> QED  BY <2>1 DEF Attempted
<1>3. CASE Join
  BY <1>3, JoinGoes DEF Attempted
<1>4. ASSUME NEW d \in Devices, Start(d)
      PROVE  \A e \in Devices : Attempted(e)
  <2>1. run'[d].pc \in {"off", "join"} /\ run'[d].remote = Unknown /\ run'[Peer(d)] = run[Peer(d)]
    BY <1>4, StartGoes
  <2>2. Attempted(d)
    BY <2>1 DEF Attempted
  <2> QED  BY <1>1, <2>1, <2>2
<1>5. ASSUME NEW d \in Devices, run'[d] = Idle, run'[Peer(d)] = run[Peer(d)]
      PROVE  \A e \in Devices : Attempted(e)
  <2>1. Idle.pc = "off" /\ Idle.remote = Unknown
    BY DEF Idle
  <2>2. Attempted(d)
    BY <1>5, <2>1 DEF Attempted
  <2> QED  BY <1>1, <1>5, <2>2
<1>6. ASSUME NEW d \in Devices, Ends(d)
      PROVE  \A e \in Devices : Attempted(e)
  BY <1>5, <1>6 DEF Ends
<1>7. ASSUME NEW d \in Devices, Hello(d), Current(d)
      PROVE  \A e \in Devices : Attempted(e)
  <2>1. Attempted(d)
    BY <1>7, HelloGoes DEF Attempted
  <2> QED  BY <1>1, <1>7, <2>1, HelloGoes
<1>8. ASSUME NEW d \in Devices, Greet(d)
      PROVE  \A e \in Devices : Attempted(e)
  <2>0. run[d] \in Attempts /\ run[d].pc = "greet"
    BY <1>8, GreetReads DEF Types
  <2>1. CASE Forgetting(d)
    <3>1. run'[d] = [run[d] EXCEPT !.pc = "forget"] /\ run'[Peer(d)] = run[Peer(d)]
      BY <1>8, <2>1, GreetForgets
    <3>2. /\ run'[d].pc = "forget"
          /\ run'[d].seen = run[d].seen /\ run'[d].remote = run[d].remote
          /\ run'[d].id = run[d].id /\ run'[d].dir = run[d].dir
      BY <2>0, <3>1 DEF Attempts
    <3>3. Attempted(d)
      BY <1>8, <2>0, <3>2 DEF Attempted
    <3> QED  BY <1>1, <3>1, <3>3
  <2>2. CASE ~Forgetting(d) /\ Current(d) /\ Agreed(d)
    <3>1. /\ run'[d] = [run[d] EXCEPT !.pc = "compare", !.local = held[d]]
          /\ run'[Peer(d)] = run[Peer(d)]
      BY <1>8, <2>2, GreetAgrees
    <3>2. /\ run'[d].pc = "compare" /\ run'[d].local = held[d]
          /\ run'[d].seen = run[d].seen /\ run'[d].remote = run[d].remote
          /\ run'[d].id = run[d].id /\ run'[d].dir = run[d].dir
      BY <2>0, <3>1 DEF Attempts
    <3>3. Agrees(d) /\ Active(run[d].seen)
      BY <1>8, <2>2 DEF Agrees, Agreed
    <3>4. Attempted(d)
      BY <2>0, <3>2, <3>3 DEF Attempted
    <3> QED  BY <1>1, <3>1, <3>4
  <2>3. CASE ~Forgetting(d) /\ ~(Current(d) /\ Agreed(d))
    BY <1>5, <1>8, <2>3, GreetLeaves
  <2> QED  BY <2>1, <2>2, <2>3
<1>9. ASSUME NEW d \in Devices, Compare(d)
      PROVE  \A e \in Devices : Attempted(e)
  <2>0. run[d] \in Attempts /\ run[d].pc = "compare"
    BY <1>9, CompareReads DEF Types
  <2>1. CASE Changed(d)
    <3>1. /\ run'[d] = [run[d] EXCEPT !.pc = IF d = "p" THEN "request" ELSE "grant",
                                      !.remote = Head(inbox[d]).digest]
          /\ run'[Peer(d)] = run[Peer(d)]
      BY <1>9, <2>1, CompareDiffers
    <3>2. /\ run'[d].pc = (IF d = "p" THEN "request" ELSE "grant")
          /\ run'[d].seen = run[d].seen /\ run'[d].local = run[d].local
          /\ run'[d].remote = Head(inbox[d]).digest
          /\ run'[d].id = run[d].id /\ run'[d].dir = run[d].dir
      BY <2>0, <3>1 DEF Attempts
    <3>3. Attempted(d)
      BY <1>9, <2>0, <2>1, <3>2 DEF Attempted
    <3> QED  BY <1>1, <3>1, <3>3
  <2>2. CASE ~Changed(d)
    BY <1>5, <1>9, <2>2, CompareLeaves
  <2> QED  BY <2>1, <2>2
<1>10. ASSUME NEW d \in Devices, TransferStep(d)
       PROVE  \A e \in Devices : Attempted(e)
  <2>1. Moves(d)
    BY <1>10, TransferMoves
  <2>2. Attempted(d)
    BY <1>10, <2>1 DEF Attempted
  <2> QED  BY <1>1, <2>1, <2>2 DEF Moves, Keeps
<1> QED
  BY <1>2, <1>3, <1>4, <1>6, <1>7, <1>8, <1>9, <1>10, Classified

LEMMA PostedFrames ==
  ASSUME Types, NEW d \in Devices, NEW fs \in Seq(Frames), Posted(d, fs)
  PROVE  FramesOf(inbox'[Peer(d)]) \subseteq FramesOf(inbox[Peer(d)]) \cup FramesOf(fs)
<1>1. inbox[Peer(d)] \in Seq(Frames)
  BY Peers DEF Types
<1> QED  BY <1>1, Put DEF Posted

(* What a device that greets can say.                                      *)
Replying(d) == IF d = "c" THEN {Status(run[d].seen)} ELSE {}

LEMMA Greetings ==
  ASSUME Types, NEW d \in Devices
  PROVE  /\ FramesOf(GreetReply(d)) = Replying(d)
         /\ \A f \in Frames :
              /\ Append(GreetReply(d), f) \in Seq(Frames)
              /\ FramesOf(Append(GreetReply(d), f)) = Replying(d) \cup {f}
<1>1. Status(run[d].seen) \in Frames /\ \A f \in Frames : Append(GreetReply(d), f) \in Seq(Frames)
  BY Said
<1>2. CASE d = "p"
  <2>1. FramesOf(GreetReply(d)) = {} /\ Replying(d) = {}
    BY <1>2, Replies, These DEF Replying
  <2>2. ASSUME NEW f \in Frames
        PROVE  FramesOf(Append(GreetReply(d), f)) = {f}
    BY <1>2, Replies, These
  <2> QED  BY <1>1, <2>1, <2>2
<1>3. CASE d = "c"
  <2>1. FramesOf(GreetReply(d)) = {Status(run[d].seen)} /\ Replying(d) = {Status(run[d].seen)}
    BY <1>1, <1>3, Replies, These DEF Replying
  <2>2. ASSUME NEW f \in Frames
        PROVE  FramesOf(Append(GreetReply(d), f)) = {Status(run[d].seen), f}
    BY <1>1, <1>3, Replies, These
  <2> QED  BY <1>1, <2>1, <2>2
<1> QED  BY <1>2, <1>3, Peers

(* The new frames e sends in a step, by the stage it leaves and reaches.   *)
Comes(e, f) ==
  /\ up /\ run'[Peer(e)] = run[Peer(e)]
  /\ \/ /\ e = "p" /\ Hello(e) /\ run[e].pc = "hello" /\ run'[e].pc = "greet"
        /\ f = Status(run'[e].seen)
     \/ /\ e = "c" /\ Greet(e) /\ run[e].pc = "greet" /\ run'[e].pc \in {"forget", "compare", "off"}
        /\ f = Status(run[e].seen)
     \/ /\ Greet(e) /\ Forgetting(e) /\ run[e].pc = "greet" /\ run'[e].pc = "forget"
        /\ f = Frame("forgotten")
     \/ /\ Agrees(e) /\ run[e].pc = "greet" /\ run'[e].pc = "compare"
        /\ f = Snapshot(e, held[e])
     \/ /\ e = "p" /\ Compare(e) /\ run[e].pc = "compare" /\ run'[e].pc = "request"
        /\ f = Frame("grant")
     \/ /\ TransferStep(e) /\ Moves(e) /\ run[e].pc \in Past /\ run'[e].pc \in Past
        /\ f.kind \in Transfer
     \/ Ends(e) /\ Storing(e) /\ run'[e].pc = "off" /\ f.kind = "refused"

LEMMA NothingPosted ==
  ASSUME ~up, NEW d \in Devices, NEW fs, Posted(d, fs)
  PROVE  inbox'[Peer(d)] = inbox[Peer(d)]
BY DEF Posted

LEMMA FramesCome ==
  ASSUME Types, Types', Next
  PROVE  \A d \in Devices : \A f \in FramesOf(inbox'[d]) : f \in FramesOf(inbox[d]) \/ Comes(Peer(d), f)
<1> DEFINE Goal == \A d \in Devices : \A f \in FramesOf(inbox'[d]) :
                     f \in FramesOf(inbox[d]) \/ Comes(Peer(d), f)
<1> DEFINE Old(e) == FramesOf(inbox'[e]) \subseteq FramesOf(inbox[e])
<1> DEFINE New(e) == \A f \in FramesOf(inbox'[Peer(e)]) : f \in FramesOf(inbox[Peer(e)]) \/ Comes(e, f)
<1>1. ASSUME NEW e \in Devices, Old(e), New(e)
      PROVE  Goal
  <2> SUFFICES ASSUME NEW d \in Devices, NEW f \in FramesOf(inbox'[d])
               PROVE  f \in FramesOf(inbox[d]) \/ Comes(Peer(d), f)
    OBVIOUS
  <2>1. CASE d = e
    BY <1>1, <2>1
  <2>2. CASE d = Peer(e)
    <3>1. Peer(d) = e
      BY <2>2, Peers
    <3> QED  BY <1>1, <2>2, <3>1
  <2> QED  BY <2>1, <2>2, Peers
<1>2. CASE Rests \/ Join
  <2>1. inbox' = inbox
    BY <1>2, JoinGoes DEF Rests
  <2> QED  BY <2>1
<1>3. CASE Cut
  BY <1>3, CutFrames
<1>4. ASSUME NEW e \in Devices, Start(e)
      PROVE  Goal
  BY <1>4, StartGoes
<1>5. ASSUME NEW e \in Devices, Ends(e)
      PROVE  Goal
  <2>1. run'[e].pc = "off" /\ run'[Peer(e)] = run[Peer(e)]
    BY <1>5 DEF Ends, Idle
  <2>2. Old(e) /\ New(e)
    BY <1>5, <2>1, EndsFrames DEF Comes
  <2> QED  BY <1>1, <2>2
<1>6. ASSUME NEW e \in Devices, Hello(e), Current(e)
      PROVE  Goal
  <2>0. /\ Status(rec[e]) \in Frames /\ run[e].pc = "hello" /\ run'[e].pc = "greet"
        /\ run'[e].seen = rec[e] /\ run'[Peer(e)] = run[Peer(e)]
    BY <1>6, Said, HelloGoes
  <2>1. Old(e)
    BY <1>6, HelloGoes
  <2>2. New(e)
    <3>1. CASE e = "p"
      <4>1. Posted(e, <<Status(rec[e])>>)
        BY <1>6, <3>1, HelloGoes
      <4>2. FramesOf(inbox'[Peer(e)]) \subseteq FramesOf(inbox[Peer(e)]) \cup {Status(rec[e])}
        BY <2>0, <4>1, PostedFrames, These
      <4> QED  BY <1>6, <2>0, <3>1, <4>1, <4>2, NothingPosted DEF Comes
    <3>2. CASE e = "c"
      BY <1>6, <3>2, HelloGoes
    <3> QED  BY <3>1, <3>2, Peers
  <2> QED  BY <1>1, <2>1, <2>2
<1>7. ASSUME NEW e \in Devices, Greet(e)
      PROVE  Goal
  <2>0. /\ FramesOf(Tail(inbox[e])) \subseteq FramesOf(inbox[e]) /\ FramesOf(<<>>) = {}
        /\ run[e].pc = "greet" /\ run[e] \in Attempts
    BY <1>7, GreetReads, FirstTaken, These DEF Types
  <2>1. CASE Forgetting(e)
    <3>1. /\ inbox'[e] = Tail(inbox[e]) /\ Posted(e, Append(GreetReply(e), Frame("forgotten")))
          /\ run'[e] = [run[e] EXCEPT !.pc = "forget"] /\ run'[Peer(e)] = run[Peer(e)]
      BY <1>7, <2>1, GreetForgets
    <3>2. run'[e].pc = "forget"
      BY <2>0, <3>1 DEF Attempts
    <3>3. FramesOf(inbox'[Peer(e)])
            \subseteq FramesOf(inbox[Peer(e)]) \cup Replying(e) \cup {Frame("forgotten")}
      <4>1. /\ Append(GreetReply(e), Frame("forgotten")) \in Seq(Frames)
            /\ FramesOf(Append(GreetReply(e), Frame("forgotten"))) \subseteq Replying(e) \cup {Frame("forgotten")}
        BY PlainFrame, Greetings
      <4> QED  BY <3>1, <4>1, PostedFrames
    <3>4. New(e)
      <4>1. CASE ~up
        BY <3>1, <4>1, NothingPosted
      <4>2. CASE up
        BY <1>7, <2>0, <2>1, <3>1, <3>2, <3>3, <4>2 DEF Comes, Replying
      <4> QED  BY <4>1, <4>2
    <3> QED  BY <1>1, <2>0, <3>1, <3>4
  <2>2. CASE ~Forgetting(e) /\ Current(e) /\ Agreed(e)
    <3>1. /\ inbox'[e] = Tail(inbox[e]) /\ Posted(e, Append(GreetReply(e), Snapshot(e, held[e])))
          /\ run'[e] = [run[e] EXCEPT !.pc = "compare", !.local = held[e]]
          /\ run'[Peer(e)] = run[Peer(e)]
      BY <1>7, <2>2, GreetAgrees
    <3>2. run'[e].pc = "compare" /\ Agrees(e)
      BY <1>7, <2>0, <2>2, <3>1 DEF Attempts, Agrees
    <3>3. FramesOf(inbox'[Peer(e)])
            \subseteq FramesOf(inbox[Peer(e)]) \cup Replying(e) \cup {Snapshot(e, held[e])}
      <4>1. /\ Append(GreetReply(e), Snapshot(e, held[e])) \in Seq(Frames)
            /\ FramesOf(Append(GreetReply(e), Snapshot(e, held[e])))
                 \subseteq Replying(e) \cup {Snapshot(e, held[e])}
        BY Said, Greetings
      <4> QED  BY <3>1, <4>1, PostedFrames
    <3>4. New(e)
      <4>1. CASE ~up
        BY <3>1, <4>1, NothingPosted
      <4>2. CASE up
        BY <1>7, <2>0, <3>1, <3>2, <3>3, <4>2 DEF Comes, Replying
      <4> QED  BY <4>1, <4>2
    <3> QED  BY <1>1, <2>0, <3>1, <3>4
  <2>3. CASE ~Forgetting(e) /\ ~(Current(e) /\ Agreed(e))
    <3>0. /\ inbox'[e] = <<>> /\ Posted(e, GreetReply(e))
          /\ run'[e] = Idle /\ run'[Peer(e)] = run[Peer(e)]
      BY <1>7, <2>3, GreetLeaves
    <3>1. /\ inbox'[e] = <<>> /\ Posted(e, GreetReply(e))
          /\ run'[e].pc = "off" /\ run'[Peer(e)] = run[Peer(e)]
      BY <3>0 DEF Idle
    <3>2. FramesOf(inbox'[Peer(e)]) \subseteq FramesOf(inbox[Peer(e)]) \cup Replying(e)
      BY <3>1, PostedFrames, Greetings, Said
    <3>3. New(e)
      <4>1. CASE ~up
        BY <3>1, <4>1, NothingPosted
      <4>2. CASE up
        BY <1>7, <2>0, <3>1, <3>2, <4>2 DEF Comes, Replying
      <4> QED  BY <4>1, <4>2
    <3> QED  BY <1>1, <2>0, <3>1, <3>3
  <2> QED  BY <2>1, <2>2, <2>3
<1>8. ASSUME NEW e \in Devices, Compare(e)
      PROVE  Goal
  <2>0. /\ FramesOf(Tail(inbox[e])) \subseteq FramesOf(inbox[e]) /\ FramesOf(<<>>) = {}
        /\ Frame("grant") \in Frames /\ run[e].pc = "compare" /\ run[e] \in Attempts
    BY <1>8, CompareReads, FirstTaken, These, PlainFrame DEF Types
  <2>1. CASE Changed(e)
    <3>1. Old(e)
      BY <1>8, <2>0, <2>1, CompareDiffers
    <3>2. /\ run'[e] = [run[e] EXCEPT !.pc = IF e = "p" THEN "request" ELSE "grant",
                                      !.remote = Head(inbox[e]).digest]
          /\ run'[Peer(e)] = run[Peer(e)]
      BY <1>8, <2>1, CompareDiffers
    <3>3. run'[e].pc = IF e = "p" THEN "request" ELSE "grant"
      BY <2>0, <3>2 DEF Attempts
    <3>4. New(e)
      <4>1. CASE e = "p"
        <5>1. Posted(e, <<Frame("grant")>>)
          BY <1>8, <2>1, <4>1, CompareDiffers
        <5>2. FramesOf(inbox'[Peer(e)]) \subseteq FramesOf(inbox[Peer(e)]) \cup {Frame("grant")}
          BY <2>0, <5>1, PostedFrames, These
        <5>3. CASE ~up
          BY <5>1, <5>3, NothingPosted
        <5>4. CASE up
          BY <1>8, <2>0, <3>2, <3>3, <4>1, <5>2, <5>4 DEF Comes
        <5> QED  BY <5>3, <5>4
      <4>2. CASE e = "c"
        BY <1>8, <2>1, <4>2, CompareDiffers
      <4> QED  BY <4>1, <4>2, Peers
    <3> QED  BY <1>1, <3>1, <3>4
  <2>2. CASE ~Changed(e)
    <3>1. inbox'[e] = <<>> /\ inbox'[Peer(e)] = inbox[Peer(e)]
      BY <1>8, <2>2, CompareLeaves
    <3> QED  BY <1>1, <2>0, <3>1
  <2> QED  BY <2>1, <2>2
<1>9. ASSUME NEW e \in Devices, TransferStep(e)
      PROVE  Goal
  <2>1. Moves(e)
    BY <1>9, TransferMoves
  <2>2. run[e].pc \in Past /\ run'[e].pc \in Past /\ run'[Peer(e)] = run[Peer(e)]
    BY <2>1 DEF Moves, Keeps
  <2>3. Old(e) /\ New(e)
    BY <1>9, <2>1, <2>2, MovesFrames DEF Comes
  <2> QED  BY <1>1, <2>3
<1> QED  BY <1>2, <1>3, <1>4, <1>5, <1>6, <1>7, <1>8, <1>9, Classified

(* How the verdict of a device changes.                                    *)
Decided(d) ==
  \/ verdict'[d] = verdict[d]
  \/ Join /\ verdict'[d] = "none"
  \/ /\ Greet(d) /\ run[d].pc = "greet" /\ run'[d].pc \in {"forget", "off"}
     /\ run'[Peer(d)] = run[Peer(d)]
     /\ \/ Forgetting(d) /\ verdict'[d] = "forget"
        \/ ~Forgetting(d) /\ ~Agreed(d) /\ verdict'[d] = "idle"
  \/ /\ Compare(d) /\ run[d].pc = "compare" /\ run'[d].pc \in {"request", "grant", "off"}
     /\ run'[Peer(d)] = run[Peer(d)]
     /\ verdict'[d] = IF Changed(d) THEN "changed" ELSE "same"

LEMMA Decides ==
  ASSUME Types, Types', Next
  PROVE  \A d \in Devices : Decided(d)
<1>0. verdict \in [Devices -> {"none", "forget", "idle", "same", "changed"}]
  BY DEF Types
<1>1. CASE verdict' = verdict
  BY <1>1 DEF Decided
<1>2. ASSUME NEW e \in Devices, verdict'[Peer(e)] = verdict[Peer(e)], Decided(e)
      PROVE  \A d \in Devices : Decided(d)
  <2>1. Decided(Peer(e))
    BY <1>2 DEF Decided
  <2> QED  BY <1>2, <2>1, Peers
<1>3. CASE Join
  BY <1>3, JoinGoes DEF Decided
<1>4. ASSUME NEW e \in Devices, Greet(e)
      PROVE  \A d \in Devices : Decided(d)
  <2>0. run[e].pc = "greet" /\ run[e] \in Attempts
    BY <1>4, GreetReads DEF Types
  <2>1. CASE Forgetting(e)
    <3>1. /\ verdict'[e] = "forget" /\ verdict'[Peer(e)] = verdict[Peer(e)]
          /\ run'[Peer(e)] = run[Peer(e)] /\ run'[e] = [run[e] EXCEPT !.pc = "forget"]
      BY <1>0, <1>4, <2>1, GreetForgets, Peers
    <3>2. run'[e].pc = "forget"
      BY <2>0, <3>1 DEF Attempts
    <3>3. Decided(e)
      BY <1>4, <2>0, <2>1, <3>1, <3>2 DEF Decided
    <3> QED  BY <1>2, <3>1, <3>3
  <2>2. CASE ~Forgetting(e) /\ Current(e) /\ Agreed(e)
    BY <1>1, <1>4, <2>2, GreetAgrees
  <2>3. CASE ~Forgetting(e) /\ ~(Current(e) /\ Agreed(e))
    <3>1. /\ run'[e] = Idle /\ run'[Peer(e)] = run[Peer(e)]
          /\ verdict' = verdict \/ (~Agreed(e) /\ verdict' = [verdict EXCEPT ![e] = "idle"])
      BY <1>4, <2>3, GreetLeaves
    <3>2. ASSUME ~Agreed(e), verdict' = [verdict EXCEPT ![e] = "idle"]
          PROVE  \A d \in Devices : Decided(d)
      <4>1. verdict'[e] = "idle" /\ verdict'[Peer(e)] = verdict[Peer(e)] /\ run'[e].pc = "off"
        BY <1>0, <3>1, <3>2, Peers DEF Idle
      <4>2. Decided(e)
        BY <1>4, <2>0, <2>3, <3>1, <3>2, <4>1 DEF Decided
      <4> QED  BY <1>2, <4>1, <4>2
    <3> QED  BY <1>1, <3>1, <3>2
  <2> QED  BY <2>1, <2>2, <2>3
<1>5. ASSUME NEW e \in Devices, Compare(e)
      PROVE  \A d \in Devices : Decided(d)
  <2>0. run[e].pc = "compare" /\ run[e] \in Attempts
    BY <1>5, CompareReads DEF Types
  <2>1. /\ verdict'[e] = (IF Changed(e) THEN "changed" ELSE "same")
        /\ verdict'[Peer(e)] = verdict[Peer(e)]
    BY <1>0, <1>5, CompareReads, Peers
  <2>2. run'[e].pc \in {"request", "grant", "off"} /\ run'[Peer(e)] = run[Peer(e)]
    <3>1. CASE Changed(e)
      <4>1. /\ run'[e] = [run[e] EXCEPT !.pc = IF e = "p" THEN "request" ELSE "grant",
                                        !.remote = Head(inbox[e]).digest]
            /\ run'[Peer(e)] = run[Peer(e)]
        BY <1>5, <3>1, CompareDiffers
      <4> QED  BY <2>0, <4>1 DEF Attempts
    <3>2. CASE ~Changed(e)
      <4>1. run'[e] = Idle /\ run'[Peer(e)] = run[Peer(e)]
        BY <1>5, <3>2, CompareLeaves
      <4> QED  BY <4>1 DEF Idle
    <3> QED  BY <3>1, <3>2
  <2>3. Decided(e)
    BY <1>5, <2>0, <2>1, <2>2 DEF Decided
  <2> QED  BY <1>2, <2>1, <2>3
<1> QED
  BY <1>1, <1>3, <1>4, <1>5, Classified, StartGoes, HelloGoes, TransferMoves
     DEF Rests, Cut, Ends, Moves

-----------------------------------------------------------------------------
(* Stages and rows.                                                        *)

LEMMA RoleHolds ==
  ASSUME Types, Types', SessionInv, RoleInv, Next
  PROVE  RoleInv'
<1>0. delta' = delta
  BY Classified, GreetReads, CompareReads, HelloGoes, StartGoes, JoinGoes, TransferMoves
     DEF Rests, Cut, Ends, Moves
<1> DEFINE Role(d, pc) ==
      /\ pc # (IF d = "p" THEN "grant" ELSE "request")
      /\ pc \in {"swap", "send"} => delta
      /\ d = "p" /\ pc \in {"ack", "receive", "finish"} => delta
<1>1. \A d \in Devices : Role(d, run[d].pc)
  BY Peers DEF RoleInv
<1>2. ASSUME NEW d \in Devices
      PROVE  Role(d, run'[d].pc)
  <2>1. CASE TransferStep(d)
    <3>1. CASE Swap(d)
      BY <3>1, <1>1, SwapGoes DEF FirstStage
    <3>2. CASE Prepare(d)
      BY <3>2, <1>1, PrepareGoes
    <3>3. CASE SendChunk(d)
      BY <3>3, <1>1, SendChunkGoes
    <3>4. CASE SendEnd(d)
      BY <3>4, <1>1, SendEndGoes
    <3>5. CASE Ack(d)
      BY <3>5, <1>1, AckGoes
    <3>6. CASE Store(d)
      <4>1. run'[d].pc = run[d].pc \/ (d = "c" /\ run'[d].pc \in {"ack", "finish"})
        BY <3>6, StoreGoes
      <4> QED  BY <4>1, <1>1
    <3>7. CASE ReceiveEnd(d)
      <4>1. run[d].pc = "receive" /\ inbox[d] # <<>> /\ Head(inbox[d]).kind = "end"
        BY <3>7, ReceiveEndGoes DEF Got
      <4>2. delta
        <5>1. Awaits(d) /\ \A k : One(inbox[d], k) => Head(inbox[d]).kind = k
          BY Boxes DEF SessionInv
        <5> QED  BY <4>1, <5>1 DEF Awaits, Alone
      <4>3. run'[d].pc \in {"send", "finish"}
        BY <3>7, ReceiveEndGoes
      <4> QED  BY <4>2, <4>3
    <3>8. CASE d = "c" /\ Grant
      BY <3>8, GrantGoes
    <3>9. CASE d = "p" /\ Request
      <4>1. run["p"].pc = "request" /\ inbox["p"] # <<>>
        BY <3>9, RequestGoes DEF Got
      <4>2. Head(inbox["p"]).kind = "request" => delta
        BY <4>1, Boxes, Peers DEF SessionInv, Awaits, Alone
      <4>3. (run'["p"].pc = "swap" /\ Head(inbox["p"]).kind = "request") \/ run' = run
        BY <3>9, RequestGoes DEF Got
      <4> QED  BY <1>1, <3>9, <4>2, <4>3
    <3> QED
      BY <2>1, <3>1, <3>2, <3>3, <3>4, <3>5, <3>6, <3>7, <3>8, <3>9 DEF TransferStep
  <2>2. CASE run'[d].pc \in {"off", "join", "hello", "greet", "forget", "compare"}
    BY <2>2
  <2>3. CASE run'[d].pc = (IF d = "p" THEN "request" ELSE "grant")
    BY <2>3
  <2>4. CASE run'[d] = run[d]
    BY <1>1, <2>4
  <2> QED  BY <2>1, <2>2, <2>3, <2>4, Attempts1 DEF Attempted
<1> QED  BY <1>0, <1>2, Peers DEF RoleInv

LEMMA LateKept ==
  ASSUME Types, Types', Next
  PROVE  \A d \in Devices : late[d] => late'[d] \/ run'[d].pc \in {"off", "join"}
<1> DEFINE Goal == \A d \in Devices : late[d] => late'[d] \/ run'[d].pc \in {"off", "join"}
<1>1. ASSUME NEW d \in Devices,
             late'[Peer(d)] = late[Peer(d)],
             late'[d] \/ run'[d].pc \in {"off", "join"}
      PROVE  Goal
  BY <1>1, Peers
<1>2. CASE late' = late
  BY <1>2
<1>3. ASSUME NEW d \in Devices, Start(d)
      PROVE  Goal
  <2>1. late'[Peer(d)] = late[Peer(d)]
    BY <1>3, Peers DEF Start, Types
  <2> QED  BY <1>1, <1>3, <2>1, StartGoes
<1>4. ASSUME NEW d \in Devices, Tick(d)
      PROVE  Goal
  <2>1. late'[Peer(d)] = late[Peer(d)]
    BY <1>4, Peers DEF Tick, Types
  <2>2. run'[d] = Idle
    BY <1>4, Leaving, These DEF Tick, Cancelled, Leave
  <2> QED  BY <1>1, <2>1, <2>2 DEF Idle
<1>5. ASSUME NEW d \in Devices, run' = run, late' = [late EXCEPT ![d] = run[d].pc # "off"]
      PROVE  Goal
  <2>1. late'[Peer(d)] = late[Peer(d)] /\ (late'[d] \/ run'[d].pc = "off")
    BY <1>5, Peers DEF Types
  <2> QED  BY <1>1, <2>1
<1>6. ASSUME NEW d \in Devices, Control(d)
      PROVE  Goal
  <2>1. Command(d) => late' = late \/ (run' = run /\ late' = [late EXCEPT ![d] = run[d].pc # "off"])
    BY DEF Command, CancelPeer
  <2>2. \A dir \in NewDirections : RequestPair(d, dir) =>
          run' = run /\ late' = [late EXCEPT ![d] = run[d].pc # "off"]
    BY DEF RequestPair
  <2> QED  BY <1>2, <1>5, <1>6, <2>1, <2>2 DEF Control, SetEnabled, Forget, Remove
<1>7. CASE AcceptPair
  <2>1. Peer(pairing.asker) \in Devices
    BY Peers DEF Types
  <2> QED  BY <1>5, <1>7, <2>1 DEF AcceptPair
<1>8. \A d \in Devices : Session(d) => late' = late
  BY DEF Session, Hello, Greet, Forgotten, Compare, Swap, Prepare, SendChunk,
     SendEnd, Ack, Refused, Store, ReceiveEnd, Closed, Grant, Finish, Request, untouched
<1>9. \A d \in Devices : Upset(d) \/ OrphanEnds(d) => late' = late
  BY DEF Upset, StoreFails, LoseRelay, Fails, OrphanEnds
<1>10. \A d \in Devices, k \in Keys : Edit(d, k) => late' = late
  BY DEF Edit
<1>11. Join \/ Cut \/ AckLost => late' = late
  BY DEF Join, Cut, AckLost
<1> QED
  BY <1>2, <1>3, <1>4, <1>6, <1>7, <1>8, <1>9, <1>10, <1>11 DEF Next

(* A row that changes under an attempt marks it, or ends it.               *)
LEMMA RowKept ==
  ASSUME Types, Types', Next
  PROVE  \A d \in Devices :
           \/ rec'[d].id = rec[d].id /\ Version(rec'[d]) = Version(rec[d])
           \/ late'[d] \/ run'[d].pc = "off"
<1>1. CASE rec' = rec
  BY <1>1
<1>2. ASSUME NEW d \in Devices, rec'[Peer(d)] = rec[Peer(d)], Saves(d) \/ Rewrites(d)
      PROVE  \A e \in Devices :
               \/ rec'[e].id = rec[e].id /\ Version(rec'[e]) = Version(rec[e])
               \/ late'[e] \/ run'[e].pc = "off"
  <2>1. \/ rec'[d].id = rec[d].id /\ Version(rec'[d]) = Version(rec[d])
        \/ late'[d] \/ run'[d].pc = "off"
    BY <1>2, SavedRow DEF Saves, Rewrites, Unseen, Version
  <2>2. rec'[Peer(d)].id = rec[Peer(d)].id /\ Version(rec'[Peer(d)]) = Version(rec[Peer(d)])
    BY <1>2 DEF Version
  <2> QED  BY <2>1, <2>2, Peers
<1> QED  BY <1>1, <1>2, RowsChange

LEMMA SeenHolds ==
  ASSUME Types, Types', PairingInv, SeenInv, Next
  PROVE  SeenInv'
<1> SUFFICES ASSUME NEW d \in Devices, run'[d].pc \notin {"off", "join", "hello"}
             PROVE  /\ run'[d].seen.id = run'[d].id /\ run'[d].seen.dir = run'[d].dir
                    /\ \/ late'[d]
                       \/ rec'[d].id = run'[d].id /\ Version(rec'[d]) = Version(run'[d].seen)
                    /\ run'[d].pc \in Compared => Active(run'[d].seen)
  BY DEF SeenInv, InSession, Current, Version
<1>1. CASE /\ run[d].pc \notin {"off", "join", "hello"}
           /\ run'[d].seen = run[d].seen /\ run'[d].id = run[d].id /\ run'[d].dir = run[d].dir
           /\ run'[d].pc \in Compared => run[d].pc \in Compared \/ Active(run[d].seen)
  <2>1. /\ run[d].seen.id = run[d].id /\ run[d].seen.dir = run[d].dir
        /\ late[d] \/ (rec[d].id = run[d].id /\ Version(rec[d]) = Version(run[d].seen))
        /\ run[d].pc \in Compared => Active(run[d].seen)
    BY <1>1 DEF SeenInv, InSession, Current
  <2>2. late[d] => late'[d]
    BY LateKept
  <2>3. \/ rec'[d].id = rec[d].id /\ Version(rec'[d]) = Version(rec[d])
        \/ late'[d]
    BY RowKept
  <2> QED  BY <1>1, <2>1, <2>2, <2>3
<1>2. CASE Hello(d) /\ Current(d)
  <2>1. /\ run'[d].pc = "greet" /\ run'[d].seen = rec[d] /\ rec' = rec
        /\ run'[d].id = run[d].id /\ run'[d].dir = run[d].dir
    BY <1>2, HelloGoes
  <2>2. rec[d].id = run[d].id /\ rec[d].dir = run[d].dir
    BY <1>2, OneDirection DEF Current
  <2> QED  BY <2>1, <2>2 DEF Compared, Past
<1>3. CASE Greet(d) /\ run[d].pc = "greet" /\ run'[d].pc = "forget"
           /\ run'[d].seen = run[d].seen /\ run'[d].id = run[d].id /\ run'[d].dir = run[d].dir
  BY <1>1, <1>3 DEF Compared, Past
<1>4. CASE Moves(d)
  BY <1>1, <1>4 DEF Moves, Keeps, Compared, Past
<1>5. CASE run'[d] = run[d]
  BY <1>1, <1>5
<1>6. CASE /\ run[d].pc = "greet" /\ run'[d].pc = "compare" /\ Active(run[d].seen)
           /\ run'[d].seen = run[d].seen /\ run'[d].id = run[d].id /\ run'[d].dir = run[d].dir
  BY <1>1, <1>6
<1>7. CASE /\ run[d].pc = "compare"
           /\ run'[d].seen = run[d].seen /\ run'[d].id = run[d].id /\ run'[d].dir = run[d].dir
  BY <1>1, <1>7 DEF Compared
<1> QED  BY <1>2, <1>3, <1>4, <1>5, <1>6, <1>7, Attempts1 DEF Attempted

-----------------------------------------------------------------------------
(* What the devices tell each other.                                       *)

LEMMA Reaches ==
  ASSUME Types, Types', Next, NEW d \in Devices
  PROVE  /\ run'[d].pc = "hello" => run'[d] = run[d] \/ Join
         /\ run'[d].pc = "greet" => run'[d] = run[d] \/ (run[d].pc = "hello" /\ run'[d].seen = rec[d])
         /\ run'[d].pc = "compare" =>
              \/ run'[d] = run[d]
              \/ /\ Agrees(d) /\ run[d].pc = "greet"
                 /\ run'[d].local = held[d] /\ run'[d].seen = run[d].seen
         /\ run'[d].pc \in Past =>
              /\ run[d].pc \in Compared
              /\ run'[d].local = run[d].local /\ run'[d].seen = run[d].seen /\ run'[d].dir = run[d].dir
              /\ run[d].pc \in Past => run'[d].remote = run[d].remote
              /\ run[d].pc = "compare" =>
                   Compare(d) /\ Changed(d) /\ run'[d].remote = Head(inbox[d]).digest
<1>1. Attempted(d)
  BY Attempts1
<1> QED  BY <1>1 DEF Attempted, Moves, Keeps, Past, Compared

(* Before they join both inboxes are empty.                                *)
LEMMA JoinEmpty ==
  ASSUME Types, SessionInv, Join
  PROVE  \A d \in Devices : inbox[d] = <<>> /\ FramesOf(inbox[d]) = {}
<1>1. \A d \in Devices : inbox[d] = <<>>
  BY JoinGoes DEF SessionInv, InSession
<1> QED  BY <1>1, These

LEMMA StatusHolds ==
  ASSUME Types, Types', SessionInv, StatusInv, Next
  PROVE  StatusInv'
<1>0. \A d \in Devices : inbox[d] = <<>> => FramesOf(inbox[d]) = {}
  BY These
<1>1. ASSUME run'["p"].pc = "hello"
      PROVE  inbox'["c"] = <<>>
  <2>1. ASSUME NEW f \in FramesOf(inbox'["c"])
        PROVE  FALSE
    <3>1. ~Comes("p", f)
      BY <1>1 DEF Comes, Past
    <3>2. f \in FramesOf(inbox["c"])
      BY <3>1, FramesCome, Peers
    <3>3. run["p"].pc = "hello" \/ Join
      BY <1>1, Reaches, Peers
    <3> QED  BY <1>0, <3>2, <3>3, JoinEmpty, Peers DEF StatusInv
  <2> QED  BY <2>1, Empty, Peers DEF Types
<1>2. ASSUME run'["p"].pc = "greet", NEW f \in FramesOf(inbox'["c"])
      PROVE  f = Status(run'["p"].seen)
  <2>1. CASE Comes("p", f)
    BY <1>2, <2>1 DEF Comes, Past
  <2>2. CASE f \in FramesOf(inbox["c"])
    <3>1. run'["p"] = run["p"] \/ run["p"].pc = "hello"
      BY <1>2, Reaches, Peers
    <3> QED  BY <1>0, <1>2, <2>2, <3>1, Peers DEF StatusInv
  <2> QED  BY <2>1, <2>2, FramesCome, Peers
<1>3. ASSUME run'["c"].pc \in {"hello", "greet"}
      PROVE  inbox'["p"] = <<>>
  <2>1. ASSUME NEW f \in FramesOf(inbox'["p"])
        PROVE  FALSE
    <3>1. ~Comes("c", f)
      BY <1>3 DEF Comes, Past
    <3>2. f \in FramesOf(inbox["p"])
      BY <3>1, FramesCome, Peers
    <3>3. run["c"].pc \in {"hello", "greet"} \/ Join
      BY <1>3, Reaches, Peers
    <3> QED  BY <1>0, <3>2, <3>3, JoinEmpty, Peers DEF StatusInv
  <2> QED  BY <2>1, Empty, Peers DEF Types
<1>4. \A f \in FramesOf(inbox'["c"]) : run'["p"].pc = "greet" => f = Status(run'["p"].seen)
  BY <1>2
<1> QED  BY <1>1, <1>3, <1>4 DEF StatusInv

(* A device that reads its first frame has one.                            *)
LEMMA Reading ==
  ASSUME Types, NEW d \in Devices, Greet(d) \/ Compare(d)
  PROVE  /\ inbox[d] # <<>> /\ Head(inbox[d]) \in FramesOf(inbox[d])
         /\ Greet(d) => run[d].pc = "greet" /\ Head(inbox[d]).kind = "status"
         /\ Compare(d) => run[d].pc = "compare" /\ Head(inbox[d]).kind = "snapshot"
BY GreetReads, CompareReads

(* Until p's status is read c neither decides nor compares, and p decides  *)
(* only after c did.                                                       *)
LEMMA InTurn ==
  ASSUME Types, StatusInv
  PROVE  /\ run["c"].pc \in {"hello", "greet"} => ~Greet("p") /\ ~Compare("p")
         /\ run["p"].pc = "hello" => ~Greet("c") /\ ~Compare("c")
         /\ run["p"].pc = "greet" => ~Compare("c")
<1>1. \A r \in Records : Status(r).kind = "status"
  BY DEF Status
<1>2. run["p"].seen \in Records
  BY Peers DEF Types, Attempts
<1> QED  BY <1>1, <1>2, Reading, Peers DEF StatusInv

LEMMA VerdictHolds ==
  ASSUME Types, Types', SessionInv, StatusInv, VerdictInv, Next
  PROVE  VerdictInv'
<1>1. ASSUME NEW d \in Devices, run'[d].pc \in {"hello", "greet", "compare"}
      PROVE  verdict'[d] = "none"
  <2>1. (run[d].pc \in {"hello", "greet", "compare"}) \/ Join
    BY <1>1, Reaches
  <2>2. Join => verdict'[d] = "none"
    BY JoinGoes
  <2>3. verdict'[d] = verdict[d] \/ verdict'[d] = "none"
    BY <1>1, Decides DEF Decided
  <2> QED  BY <2>1, <2>2, <2>3 DEF VerdictInv
<1>2. ASSUME run'["c"].pc \in {"hello", "greet"}
      PROVE  verdict'["p"] = "none"
  <2>1. (run["c"].pc \in {"hello", "greet"}) \/ Join
    BY <1>2, Reaches, Peers
  <2>2. Join => verdict'["p"] = "none"
    BY JoinGoes, Peers
  <2>3. run["c"].pc \in {"hello", "greet"} => verdict'["p"] = verdict["p"] \/ verdict'["p"] = "none"
    BY InTurn, Decides, Peers DEF Decided
  <2> QED  BY <2>1, <2>2, <2>3 DEF VerdictInv
<1>3. ASSUME run'["p"].pc = "hello"
      PROVE  verdict'["c"] = "none"
  <2>1. run["p"].pc = "hello" \/ Join
    BY <1>3, Reaches, Peers
  <2>2. Join => verdict'["c"] = "none"
    BY JoinGoes, Peers
  <2>3. run["p"].pc = "hello" => verdict'["c"] = verdict["c"] \/ verdict'["c"] = "none"
    BY InTurn, Decides, Peers DEF Decided
  <2> QED  BY <2>1, <2>2, <2>3 DEF VerdictInv
<1> DEFINE Fits(v, r, f) ==
      /\ f.kind = "status" => Accords(v, r, f)
      /\ f.kind = "forgotten" => v = "forget"
      /\ f.kind = "snapshot" => v = "none"
<1>4. ASSUME run'["p"].pc = "greet", NEW f \in FramesOf(inbox'["p"])
      PROVE  Fits(verdict'["c"], run'["p"].seen, f)
  <2>1. CASE Comes("c", f) /\ (f.kind \in {"status", "forgotten", "snapshot"})
    <3>1. /\ Greet("c") /\ run["c"].pc = "greet" /\ run'["p"] = run["p"]
          /\ \/ f = Status(run["c"].seen)
             \/ Forgetting("c") /\ f = Frame("forgotten")
             \/ Agrees("c") /\ f = Snapshot("c", held["c"])
      BY <2>1, Peers DEF Comes, Agrees, Transfer
    <3>2. verdict["c"] = "none" /\ Head(inbox["c"]) = Status(run["p"].seen)
      BY <1>4, <3>1, Reading, Peers DEF VerdictInv, StatusInv
    <3>3. CASE Forgetting("c")
      <4>1. verdict'["c"] = "forget"
        BY <3>1, <3>3, GreetForgets, Peers DEF Types
      <4>2. f = Status(run["c"].seen) \/ f = Frame("forgotten")
        BY <3>1, <3>3 DEF Agrees
      <4> QED  BY <3>1, <3>2, <3>3, <4>1, <4>2 DEF Forgetting, Accords, Status, Frame
    <3>4. CASE ~Forgetting("c")
      <4>1. verdict'["c"] = "none" \/ (~Agreed("c") /\ verdict'["c"] = "idle")
        BY <3>1, <3>2, <3>4, Decides, Peers DEF Decided
      <4>2. Agrees("c") => verdict'["c"] = "none"
        BY <3>2, GreetAgrees, Peers DEF Agrees
      <4>3. CASE f = Status(run["c"].seen)
        BY <3>1, <3>2, <3>4, <4>1, <4>3 DEF Forgetting, Agreed, Accords, Status
      <4>4. CASE Agrees("c") /\ f = Snapshot("c", held["c"])
        BY <4>2, <4>4 DEF Snapshot
      <4> QED  BY <3>1, <3>4, <4>3, <4>4
    <3> QED  BY <3>3, <3>4
  <2>2. CASE f \in FramesOf(inbox["p"])
    <3>1. inbox["p"] # <<>>
      BY <2>2, These
    <3>2. run["p"].pc # "hello"
      BY <3>1, Peers DEF SessionInv, Awaits, Alone
    <3>3. run'["p"] = run["p"]
      BY <1>4, <3>2, Reaches, Peers
    <3>4. run["c"].pc # "greet" /\ ~Compare("c")
      BY <1>4, <3>1, <3>3, InTurn DEF StatusInv
    <3>5. ~Join
      BY <1>4, <3>3, JoinGoes, Peers
    <3>6. verdict'["c"] = verdict["c"]
      BY <3>4, <3>5, Decides, Peers DEF Decided
    <3> QED  BY <1>4, <2>2, <3>3, <3>6 DEF VerdictInv
  <2> QED  BY <2>1, <2>2, FramesCome, Peers
<1>5. \A f \in FramesOf(inbox'["p"]) : run'["p"].pc = "greet" => Fits(verdict'["c"], run'["p"].seen, f)
  BY <1>4
<1> QED  BY <1>1, <1>2, <1>3, <1>5 DEF VerdictInv, Accords

(* No snapshot reaches a device before the other one read its status.      *)
LEMMA NoSnapshotYet ==
  ASSUME Types, StatusInv, NEW d \in Devices, run[d].pc = "greet",
         NEW f \in FramesOf(inbox[Peer(d)])
  PROVE  f.kind # "snapshot"
<1>1. Status(run["p"].seen).kind = "status"
  BY DEF Status
<1> QED  BY <1>1, These, Peers DEF StatusInv

(* The two devices compare alike.                                          *)
LEMMA SameComparison ==
  ASSUME NEW d \in Devices, NEW f, NEW g,
         f = Snapshot(Peer(d), run[Peer(d)].local), g = Snapshot(d, run[d].local)
  PROVE  Differs(d, f) = Differs(Peer(d), g)
BY DEF Differs, Snapshot

LEMMA SnapshotHolds ==
  ASSUME Types, Types', StatusInv, VerdictInv, SnapshotInv, Next
  PROVE  SnapshotInv'
<1>1. ASSUME NEW d \in Devices, run'[d].pc \in Compared,
             NEW f \in FramesOf(inbox'[Peer(d)]), f.kind = "snapshot"
      PROVE  f = [kind |-> "snapshot", digest |-> run'[d].local,
                  last_local |-> run'[d].seen.local, last_remote |-> run'[d].seen.remote]
  <2>1. CASE Comes(d, f)
    <3>1. /\ run[d].pc = "greet" /\ run'[d].pc = "compare" /\ f = Snapshot(d, held[d])
      BY <1>1, <2>1 DEF Comes, Status, Frame, Transfer
    <3>2. run'[d].local = held[d] /\ run'[d].seen = run[d].seen
      BY <3>1, Reaches
    <3> QED  BY <3>1, <3>2 DEF Snapshot
  <2>2. CASE f \in FramesOf(inbox[Peer(d)])
    <3>1. run[d].pc # "greet"
      BY <1>1, <2>2, NoSnapshotYet
    <3>2. run[d].pc \in Compared /\ run'[d].local = run[d].local /\ run'[d].seen = run[d].seen
      BY <1>1, <3>1, Reaches DEF Compared
    <3> QED  BY <1>1, <2>2, <3>2 DEF SnapshotInv, Snapshot
  <2> QED  BY <2>1, <2>2, FramesCome, Peers
<1>2. ASSUME NEW d \in Devices, run'[d].pc = "compare",
             NEW f \in FramesOf(inbox'[d]), f.kind = "snapshot"
      PROVE  verdict'[Peer(d)] \in {"none", IF Differs(d, f)' THEN "changed" ELSE "same"}
  <2>1. CASE Comes(Peer(d), f)
    <3>1. Agrees(Peer(d)) /\ run[Peer(d)].pc = "greet"
      BY <1>2, <2>1 DEF Comes, Status, Frame, Transfer
    <3>2. verdict'[Peer(d)] = verdict[Peer(d)]
      BY <3>1, GreetAgrees, Peers DEF Agrees
    <3> QED  BY <3>1, <3>2, Peers DEF VerdictInv
  <2>2. CASE f \in FramesOf(inbox[d])
    <3>1. CASE run'[d] = run[d]
      <4>1. verdict[Peer(d)] \in {"none", IF Differs(d, f)' THEN "changed" ELSE "same"}
        BY <1>2, <2>2, <3>1 DEF SnapshotInv, Differs
      <4>2. run[Peer(d)].pc # "greet"
        BY <1>2, <2>2, NoSnapshotYet, Peers
      <4>3. CASE verdict'[Peer(d)] \in {verdict[Peer(d)], "none"}
        BY <4>1, <4>3
      <4>4. CASE /\ Compare(Peer(d)) /\ run[Peer(d)].pc = "compare"
                 /\ verdict'[Peer(d)] = IF Changed(Peer(d)) THEN "changed" ELSE "same"
        <5> DEFINE g == Head(inbox[Peer(d)])
        <5>1. g \in FramesOf(inbox[Peer(d)]) /\ g.kind = "snapshot" /\ Changed(Peer(d)) = Differs(Peer(d), g)
          BY <4>4, Reading, CompareReads, Peers
        <5>2. g = Snapshot(d, run[d].local)
          BY <1>2, <3>1, <5>1 DEF SnapshotInv, Compared
        <5>3. f = Snapshot(Peer(d), run[Peer(d)].local)
          <6>1. f \in FramesOf(inbox[Peer(Peer(d))]) /\ Peer(d) \in Devices
            BY <2>2, Peers
          <6> QED  BY <1>2, <4>4, <6>1 DEF SnapshotInv, Compared
        <5> HIDE DEF g
        <5>4. Differs(d, f) = Changed(Peer(d))
          BY <5>1, <5>2, <5>3, SameComparison
        <5>5. Differs(d, f)' = Differs(d, f)
          BY <3>1 DEF Differs
        <5> QED  BY <4>4, <5>4, <5>5
      <4> QED  BY <4>2, <4>3, <4>4, Decides, Peers DEF Decided
    <3>2. CASE Agrees(d) /\ run[d].pc = "greet" /\ run'[d].pc = "compare"
      <4>1. verdict[Peer(d)] = "none"
        <5>1. CASE d = "p"
          BY <1>2, <2>2, <3>2, <5>1, Peers DEF VerdictInv
        <5>2. CASE d = "c"
          BY <3>2, <5>2, Peers DEF VerdictInv
        <5> QED  BY <5>1, <5>2, Peers
      <4>2. run'[d] # run[d]
        BY <3>2
      <4>3. verdict'[Peer(d)] = verdict[Peer(d)] \/ verdict'[Peer(d)] = "none"
        BY <4>2, Decides, Peers DEF Decided
      <4> QED  BY <4>1, <4>3
    <3> QED  BY <1>2, <3>1, <3>2, Reaches
  <2> QED  BY <2>1, <2>2, FramesCome
<1> QED  BY <1>1, <1>2 DEF SnapshotInv, Snapshot

LEMMA SameDecisionHolds ==
  ASSUME Types, Types', StatusInv, VerdictInv, SnapshotInv, SameDecision, Next
  PROVE  SameDecision'
<1> SUFFICES ASSUME verdict'["p"] # "none", verdict'["c"] # "none"
             PROVE  verdict'["p"] = verdict'["c"]
  BY DEF SameDecision
<1>0. ~Join /\ Decided("p") /\ Decided("c")
  BY Decides, JoinGoes, Peers
<1>1. CASE verdict'["p"] = verdict["p"] /\ verdict'["c"] = verdict["c"]
  BY <1>1 DEF SameDecision
<1>2. CASE Greet("p") /\ run[ "p"].pc = "greet" /\ verdict'["p"] # verdict["p"]
  <2>1. run["c"].pc # "greet" /\ ~Compare("c")
    BY <1>2, InTurn
  <2>2. verdict'["c"] = verdict["c"]
    BY <1>0, <2>1 DEF Decided
  <2>3. Accords(verdict["c"], run["p"].seen, Head(inbox["p"]))
    BY <1>2, Reading, Peers DEF VerdictInv
  <2>4. \/ Forgetting("p") /\ verdict'["p"] = "forget"
        \/ ~Forgetting("p") /\ verdict'["p"] = "idle"
    BY <1>0, <1>2 DEF Decided
  <2> QED  BY <2>2, <2>3, <2>4 DEF Forgetting, Accords
<1>3. CASE Greet("c") /\ run["c"].pc = "greet"
  <2>1. ~Greet("p") /\ ~Compare("p") /\ verdict["p"] = "none"
    BY <1>3, InTurn DEF VerdictInv
  <2> QED  BY <1>0, <2>1 DEF Decided
<1>4. ASSUME NEW d \in Devices, Compare(d), run[d].pc = "compare",
             verdict'[d] = IF Changed(d) THEN "changed" ELSE "same",
             verdict'[Peer(d)] = verdict[Peer(d)]
      PROVE  verdict'["p"] = verdict'["c"]
  <2>1. /\ Head(inbox[d]) \in FramesOf(inbox[d]) /\ Head(inbox[d]).kind = "snapshot"
        /\ Changed(d) = Differs(d, Head(inbox[d]))
    BY <1>4, CompareReads
  <2>2. verdict[Peer(d)] \in {"none", verdict'[d]}
    BY <1>4, <2>1 DEF SnapshotInv
  <2> QED  BY <1>4, <2>2, Peers
<1>5. CASE Compare("p") /\ run["p"].pc = "compare" /\ verdict'["p"] # verdict["p"]
  <2>1. /\ verdict'["p"] = (IF Changed("p") THEN "changed" ELSE "same")
        /\ run'["p"] # run["p"]
    BY <1>0, <1>5 DEF Decided
  <2>2. verdict'["c"] = verdict["c"]
    BY <1>0, <2>1, Peers DEF Decided
  <2> QED  BY <1>4, <1>5, <2>1, <2>2, Peers
<1>6. CASE Compare("c") /\ run["c"].pc = "compare" /\ verdict'["c"] # verdict["c"]
  <2>1. /\ verdict'["c"] = (IF Changed("c") THEN "changed" ELSE "same")
        /\ run'["c"] # run["c"]
    BY <1>0, <1>6 DEF Decided
  <2>2. verdict'["p"] = verdict["p"]
    BY <1>0, <2>1, Peers DEF Decided
  <2> QED  BY <1>4, <1>6, <2>1, <2>2, Peers
<1> QED  BY <1>0, <1>1, <1>2, <1>3, <1>5, <1>6 DEF Decided

-----------------------------------------------------------------------------
(* What the manifests say of what is held.                                 *)

LEMMA UpBefore ==
  ASSUME Types, Types', Next
  PROVE  up' => up \/ Join
BY Classified, StartGoes, HelloGoes, GreetForgets, GreetAgrees, GreetLeaves, CompareDiffers,
   CompareLeaves, TransferMoves DEF Rests, Cut, Ends, Moves

LEMMA BoundHolds ==
  ASSUME Types, Types', BoundInv, Next
  PROVE  BoundInv'
<1>0. \A d \in Devices : held[d] \in Manifests /\ held'[d] \in Manifests /\ Le(held[d], held'[d])
  BY HeldGrows DEF Types
<1>g. \A m \in Manifests, d \in Devices : Le(m, held[d]) => Le(m, held'[d])
  BY <1>0, LeTransitive
<1>1. ASSUME NEW d \in Devices, run'[d].pc \in Compared
      PROVE  run'[d].local \in Manifests /\ Le(run'[d].local, held'[d])
  <2>1. CASE run[d].pc \in Compared /\ run'[d].local = run[d].local
    BY <1>g, <2>1 DEF BoundInv
  <2>2. CASE run'[d].local = held[d]
    BY <1>0, <2>2
  <2> QED  BY <1>1, <2>1, <2>2, Reaches DEF Compared
<1>2. ASSUME NEW d \in Devices, run'[d].pc \in Past
      PROVE  run'[d].remote \in Manifests /\ Le(run'[d].remote, held'[Peer(d)])
  <2>1. CASE run[d].pc \in Past /\ run'[d].remote = run[d].remote
    BY <1>g, <2>1, Peers DEF BoundInv
  <2>2. CASE Compare(d) /\ run'[d].remote = Head(inbox[d]).digest
    <3>1. /\ Head(inbox[d]) \in FramesOf(inbox[d]) /\ Head(inbox[d]).kind = "snapshot"
          /\ Head(inbox[d]).digest \in Manifests
      BY <2>2, CompareReads DEF SnapshotFrames
    <3> QED  BY <1>g, <2>2, <3>1, Peers DEF BoundInv
  <2> QED  BY <1>2, <2>1, <2>2, Reaches DEF Compared
<1>3. ASSUME NEW d \in Devices, run'[d].pc \notin Past
      PROVE  run'[d].remote = Unknown
  <2>1. Attempted(d)
    BY Attempts1
  <2>2. run[d].pc \notin Past => run[d].remote = Unknown
    BY DEF BoundInv
  <2> QED  BY <1>3, <2>1, <2>2 DEF Attempted, Moves, Keeps, Past
<1>4. ASSUME NEW d \in Devices, NEW f \in FramesOf(inbox'[d]), f.kind = "snapshot"
      PROVE  Le(f.digest, held'[Peer(d)])
  <2>1. CASE Comes(Peer(d), f)
    <3>1. f = Snapshot(Peer(d), held[Peer(d)])
      BY <1>4, <2>1 DEF Comes, Status, Frame, Transfer
    <3> QED  BY <1>0, <3>1, Peers DEF Snapshot
  <2>2. CASE f \in FramesOf(inbox[d])
    <3>1. f \in Frames
      BY <2>2 DEF Types, FramesOf
    <3>2. f.digest \in Manifests
      BY <1>4, <3>1, FrameTypes DEF SnapshotFrames
    <3> QED  BY <1>4, <1>g, <2>2, <3>2, Peers DEF BoundInv
  <2> QED  BY <2>1, <2>2, FramesCome
<1> QED  BY <1>1, <1>2, <1>3, <1>4 DEF BoundInv

(* While the connection lasts nobody is in the transfer, or at comparing,   *)
(* before c has read p's status.                                           *)
LEMMA GreetingFirst ==
  ASSUME SessionInv, up
  PROVE  /\ run["c"].pc = "greet" => run["p"].pc \in {"hello", "greet"}
         /\ run["p"].pc = "greet" => run["c"].pc \notin Past
BY DEF SessionInv, Phase, Greeting, Replied, Forgets, Comparing, Swapping, ServerSends, ClientSends,
   WholeMoves, At, Past

LEMMA MirrorHolds ==
  ASSUME Types, Types', SessionInv, SnapshotInv, MirrorInv, Next
  PROVE  MirrorInv'
<1> SUFFICES ASSUME NEW d \in Devices, up', run'[d].pc \in Past, run'[Peer(d)].pc \in Compared
             PROVE  run'[d].remote = run'[Peer(d)].local
  BY DEF MirrorInv
<1>1. up
  <2>1. ~Join
    BY JoinGoes DEF Past
  <2> QED  BY <2>1, UpBefore
<1>2. CASE run[d].pc \in Past /\ run'[d].remote = run[d].remote
  <2>1. run[Peer(d)].pc # "greet"
    BY <1>1, <1>2, GreetingFirst, Peers DEF Past
  <2>2. run[Peer(d)].pc \in Compared /\ run'[Peer(d)].local = run[Peer(d)].local
    BY <2>1, Reaches, Peers DEF Compared
  <2> QED  BY <1>1, <1>2, <2>2 DEF MirrorInv
<1>3. CASE Compare(d) /\ Changed(d) /\ run'[d].remote = Head(inbox[d]).digest
  <2>1. run'[Peer(d)] = run[Peer(d)]
    BY <1>3, CompareDiffers
  <2>2. Head(inbox[d]) \in FramesOf(inbox[Peer(Peer(d))]) /\ Head(inbox[d]).kind = "snapshot"
    BY <1>3, CompareReads, Peers
  <2>3. Head(inbox[d]) = Snapshot(Peer(d), run[Peer(d)].local)
    BY <2>1, <2>2, Peers DEF SnapshotInv
  <2> QED  BY <1>3, <2>1, <2>3 DEF Snapshot
<1> QED  BY <1>2, <1>3, Reaches DEF Compared

-----------------------------------------------------------------------------
(* What an earlier checkpoint says of the session.                         *)

LEMMA StaysAcknowledged ==
  ASSUME Types, Types', Next, NEW r, AcknowledgedIn(r, held)
  PROVE  AcknowledgedIn(r, held')
<1>1. \A d \in Devices : held[d] \in Manifests /\ held'[d] \in Manifests /\ Le(held[d], held'[d])
  BY HeldGrows DEF Types
<1>2. \A m \in Manifests, d \in Devices : Le(m, held[d]) => Le(m, held'[d])
  BY <1>1, LeTransitive
<1> QED  BY <1>2, Peers DEF AcknowledgedIn

LEMMA OnlyOne ==
  ASSUME NEW s \in Seq(Frames), NEW k, One(s, k), NEW f \in FramesOf(s)
  PROVE  f.kind = k
BY DEF One, FramesOf

LEMMA Directed ==
  ASSUME NEW d \in Devices
  PROVE  /\ run[d].dir \in Directions => Pull(d) = SendsUnder(run[d].dir, "p")
         /\ run[d].dir \in Directions => Push(d) = SendsUnder(run[d].dir, "c")
BY DEF Pull, Push, SendsUnder, Directions

LEMMA SinceHolds ==
  ASSUME Types, Types', PairingInv, SessionInv, SessionInv', SeenInv, CheckpointInv, SinceInv, Next
  PROVE  SinceInv'
<1>0. \A d \in Devices : held[d] \in Manifests /\ held'[d] \in Manifests /\ Le(held[d], held'[d])
  BY HeldGrows DEF Types
<1>1. ASSUME run'["c"].pc \notin {"off", "join", "hello"}
      PROVE  AcknowledgedIn(run'["c"].seen, held')
  <2>1. Attempted("c")
    BY Attempts1, Peers
  <2>2. CASE run["c"].pc \notin {"off", "join", "hello"} /\ run'["c"].seen = run["c"].seen
    BY <2>2, StaysAcknowledged DEF SinceInv, Acknowledged
  <2>3. CASE run'["c"].seen = rec["c"]
    BY <2>3, StaysAcknowledged DEF CheckpointInv, Acknowledged
  <2> QED  BY <1>1, <2>1, <2>2, <2>3 DEF Attempted, Moves, Keeps, Past
<1>2. ASSUME run["c"].pc \notin {"off", "join", "hello"}, run["c"].seen.local # Unknown
      PROVE  /\ run["c"].seen.local \in Manifests /\ run["c"].seen.remote \in Manifests
             /\ Pull("c") => Le(run["c"].seen.remote, held["c"])
             /\ Push("c") => Le(run["c"].seen.local, held["p"])
  <2>1. run["c"].seen.dir = run["c"].dir /\ run["c"].dir \in Directions
    BY <1>2, Peers DEF SeenInv, InSession, Types, Attempts
  <2> QED  BY <1>2, <2>1, Directed, Peers DEF SinceInv, Acknowledged, AcknowledgedIn
<1>3. ASSUME run'["c"].pc \in Compared, run'["c"].seen.local # Unknown
      PROVE  /\ (Pull("c"))' => Le(run'["c"].seen.remote, run'["c"].local)
             /\ (Push("c"))' => \A f \in FramesOf(inbox'["c"]) :
                  f.kind = "snapshot" => Le(run'["c"].seen.local, f.digest)
  <2>1. \/ /\ run["c"].pc \in Compared /\ run'["c"].local = run["c"].local
        \/ /\ run["c"].pc = "greet" /\ run'["c"].local = held["c"]
    BY <1>3, Reaches, Peers DEF Compared
  <2>2. run'["c"].seen = run["c"].seen /\ run'["c"].dir = run["c"].dir
    <3>1. Attempted("c")
      BY Attempts1, Peers
    <3> QED  BY <1>3, <3>1 DEF Attempted, Moves, Keeps, Compared, Past
  <2>3. (Pull("c"))' = Pull("c") /\ (Push("c"))' = Push("c")
    BY <2>2 DEF Pull, Push
  <2>4. run["c"].pc \notin {"off", "join", "hello"}
    BY <2>1 DEF Compared, Past
  <2>5. Pull("c") => Le(run'["c"].seen.remote, run'["c"].local)
    BY <1>2, <1>3, <2>1, <2>2, <2>4 DEF SinceInv
  <2>6. ASSUME Push("c"), NEW f \in FramesOf(inbox'["c"]), f.kind = "snapshot"
        PROVE  Le(run'["c"].seen.local, f.digest)
    <3>1. CASE Comes("p", f)
      <4>1. f = Snapshot("p", held["p"])
        BY <2>6, <3>1 DEF Comes, Status, Frame, Transfer
      <4> QED  BY <1>2, <1>3, <2>2, <2>4, <2>6, <4>1 DEF Snapshot
    <3>2. CASE f \in FramesOf(inbox["c"])
      <4>1. run["c"].pc # "greet"
        <5>1. inbox["c"] = <<>> \/ One(inbox["c"], "status") \/ run["c"].pc # "greet"
          BY Peers DEF SessionInv, Awaits, Alone
        <5>2. inbox["c"] # <<>> /\ ~One(inbox["c"], "status")
          BY <2>6, <3>2, These, OnlyOne, Peers DEF Types
        <5> QED  BY <5>1, <5>2
      <4> QED  BY <1>3, <2>1, <2>2, <2>6, <3>2, <4>1 DEF SinceInv
    <3> QED  BY <3>1, <3>2, FramesCome, Peers
  <2> QED  BY <2>3, <2>5, <2>6
<1>4. ASSUME NEW f \in FramesOf(inbox'["p"]), f.kind = "snapshot", f.last_local # Unknown
      PROVE  /\ (Pull("p"))' => Le(f.last_remote, f.digest)
             /\ (Push("p"))' => /\ run'["p"].pc = "greet" => Le(f.last_local, held'["p"])
                                /\ run'["p"].pc = "compare" => Le(f.last_local, run'["p"].local)
  <2>1. CASE Comes("c", f)
    <3>1. /\ up /\ Agrees("c") /\ run["c"].pc = "greet" /\ f = Snapshot("c", held["c"])
          /\ run'["p"] = run["p"]
      BY <1>4, <2>1, Peers DEF Comes, Status, Frame, Transfer
    <3>2. held' = held
      BY <3>1, GreetReads, Peers DEF Agrees
    <3>3. Pull("p") = Pull("c") /\ Push("p") = Push("c")
      BY <3>1, SameDirection DEF SessionInv
    <3>4. run["p"].pc # "compare"
      BY <3>1, GreetingFirst
    <3>5. (Pull("p"))' = Pull("p") /\ (Push("p"))' = Push("p")
      BY <3>1 DEF Pull, Push
    <3>6. /\ f.last_local = run["c"].seen.local /\ f.last_remote = run["c"].seen.remote
          /\ f.digest = held["c"]
      BY <3>1 DEF Snapshot
    <3>7. /\ Pull("c") => Le(f.last_remote, f.digest)
          /\ Push("c") => Le(f.last_local, held["p"])
      BY <1>2, <1>4, <3>1, <3>6
    <3> QED  BY <3>1, <3>2, <3>3, <3>4, <3>5, <3>7
  <2>2. CASE f \in FramesOf(inbox["p"])
    <3>1. inbox'["p"] # <<>> /\ inbox["p"] # <<>>
      BY <1>4, <2>2, These
    <3>2. run'["p"].pc \notin {"off", "join"} /\ run["p"].pc \notin {"off", "join", "hello"}
      <4>1. run'["p"].pc \notin {"off", "join"}
        BY <3>1, Peers DEF SessionInv, InSession
      <4>2. run["p"].pc \notin {"off", "join"}
        BY <3>1, Peers DEF SessionInv, InSession
      <4>3. run["p"].pc # "hello"
        BY <3>1, Peers DEF SessionInv, Awaits, Alone
      <4> QED  BY <4>1, <4>2, <4>3
    <3>3. run'["p"].dir = run["p"].dir
      <4>1. Attempted("p")
        BY Attempts1, Peers
      <4> QED  BY <3>2, <4>1 DEF Attempted, Moves, Keeps
    <3>4. (Pull("p"))' = Pull("p") /\ (Push("p"))' = Push("p")
      BY <3>3 DEF Pull, Push
    <3>5. Pull("p") => Le(f.last_remote, f.digest)
      BY <1>4, <2>2 DEF SinceInv
    <3>6. Push("p") /\ run'["p"].pc = "greet" => Le(f.last_local, held'["p"])
      <4>1. run'["p"].pc = "greet" => run["p"].pc = "greet"
        BY <3>2, Reaches, Peers
      <4>2. f.last_local \in Manifests
        <5>1. f \in Frames
          BY <2>2, Peers DEF Types, FramesOf
        <5> QED  BY <1>4, <5>1, FrameTypes DEF SnapshotFrames
      <4>3. Push("p") /\ run["p"].pc = "greet" => Le(f.last_local, held["p"])
        BY <1>4, <2>2 DEF SinceInv
      <4> QED  BY <1>0, <4>1, <4>2, <4>3, LeTransitive, Peers
    <3>7. Push("p") /\ run'["p"].pc = "compare" => Le(f.last_local, run'["p"].local)
      <4>1. run'["p"].pc = "compare" =>
              \/ run["p"].pc = "compare" /\ run'["p"].local = run["p"].local
              \/ run["p"].pc = "greet" /\ run'["p"].local = held["p"]
        BY Reaches, Peers
      <4> QED  BY <1>4, <2>2, <4>1 DEF SinceInv
    <3> QED  BY <3>4, <3>5, <3>6, <3>7
  <2> QED  BY <2>1, <2>2, FramesCome, Peers
<1> QED  BY <1>1, <1>3, <1>4 DEF SinceInv, Acknowledged

LEMMA CheckpointHolds ==
  ASSUME Types, Types', PairingInv, BoundInv, TransferInv, CheckpointInv, Next
  PROVE  CheckpointInv'
<1>1. AcknowledgedIn(rec["c"], held')
  BY StaysAcknowledged DEF CheckpointInv, Acknowledged
<1>2. CASE rec'["c"] = rec["c"]
  BY <1>1, <1>2 DEF CheckpointInv, Acknowledged
<1>3. CASE Saves("c")
  <2>1. /\ run["c"].pc = "finish" /\ Checkpoint("c") /\ held' = held
    BY <1>3 DEF Saves, Ends
  <2>2. CASE /\ Current("c") /\ rec'["c"].dir = rec["c"].dir
             /\ rec'["c"].local = (IF run["c"].remote = Unknown THEN Unknown ELSE run["c"].local)
             /\ rec'["c"].remote = run["c"].remote
    <3>1. rec["c"].dir = run["c"].dir /\ run["c"].dir \in Directions
      BY <2>2, OneDirection, Peers DEF Current, Types, Attempts
    <3>2. run["c"].local \in Manifests /\ run["c"].remote \in Manifests
      BY <2>1, Peers DEF BoundInv, Compared, Past
    <3>3. /\ Pull("c") => Le(run["c"].remote, held["c"])
          /\ Push("c") => Le(run["c"].local, held["p"])
      BY <2>1, Peers DEF TransferInv, Received, Delivered
    <3> QED  BY <2>1, <2>2, <3>1, <3>2, <3>3, Directed, Peers DEF CheckpointInv, Acknowledged, AcknowledgedIn
  <2> QED  BY <1>2, <2>1, <2>2, SavedRow, Peers
<1>4. CASE Rewrites("c")
  <2>1. CASE rec'["c"].local = Unknown
    BY <2>1 DEF CheckpointInv, Acknowledged, AcknowledgedIn
  <2>2. CASE rec'["c"].dir = rec["c"].dir /\ rec'["c"].local = rec["c"].local /\ rec'["c"].remote = rec["c"].remote
    BY <1>1, <2>2 DEF CheckpointInv, Acknowledged, AcknowledgedIn
  <2>3. /\ Absent.local = Unknown
        /\ \A id \in Pairings, dir \in Directions : Record(id, dir).local = Unknown
    BY DEF Absent, Record
  <2> QED  BY <1>4, <2>1, <2>2, <2>3 DEF Rewrites
<1> QED  BY <1>2, <1>3, <1>4, RowsChange, Peers

-----------------------------------------------------------------------------
(* The frames of the transfer.                                             *)

LEMMA OneOfTwo ==
  ASSUME NEW s \in Seq(Frames), NEW k, NEW l, Two(s, k, l), NEW f \in FramesOf(s)
  PROVE  f.kind \in {k, l}
<1>1. PICK i \in 1..Len(s) : f = s[i]
  BY DEF FramesOf
<1>2. i = 1 \/ i = 2
  BY <1>1 DEF Two
<1> QED  BY <1>1, <1>2 DEF Two

(* Where a frame of the transfer is awaited.                               *)
LEMMA AwaitedAt ==
  ASSUME Types, SessionInv, NEW d \in Devices, NEW f \in FramesOf(inbox[d])
  PROVE  /\ f.kind \in {"chunk", "end"} => run[d].pc \in {"swap", "receive"}
         /\ f.kind \in {"ack", "refused"} => run[d].pc = "ack"
         /\ f.kind = "push" => run[d].pc = "request" /\ ~delta
         /\ f.kind = "pull" => run[d].pc = "request" /\ ~delta
<1>1. inbox[d] \in Seq(Frames) /\ inbox[d] # <<>>
  BY These DEF Types
<1>2. /\ \A k : One(inbox[d], k) => f.kind = k
      /\ \A k, l : Two(inbox[d], k, l) => f.kind \in {k, l}
  BY <1>1, OnlyOne, OneOfTwo
<1>3. Awaits(d)
  BY DEF SessionInv
<1> QED  BY <1>1, <1>2, <1>3 DEF Awaits, Alone

(* The frames a step of the transfer sends.                                *)
Carried(e, f) ==
  \/ f.kind \in {"request", "pull", "manifest"}
  \/ SendEnd(e) /\ f.kind = "end"
  \/ Store(e) /\ (delta \/ e = "p") /\ f.kind = "ack"
  \/ SendChunk(e) /\ f = Chunk("chunk", run[e].ahead)
  \/ e = "p" /\ Request /\ Got("p", "pull") /\ f = Chunk("chunk", held["p"])
  \/ e = "c" /\ Grant /\ ~delta /\ f = Chunk("push", held["c"])
  \/ e = "c" /\ Store("c") /\ ~delta /\ f = Chunk("push", held'["c"])

LEMMA Carries ==
  ASSUME Types, Types', NEW e \in Devices, TransferStep(e)
  PROVE  \A f \in FramesOf(inbox'[Peer(e)]) : f \in FramesOf(inbox[Peer(e)]) \/ Carried(e, f)
<1> DEFINE Goal == \A f \in FramesOf(inbox'[Peer(e)]) : f \in FramesOf(inbox[Peer(e)]) \/ Carried(e, f)
<1>0. held[e] \in Manifests /\ held'[e] \in Manifests
  BY DEF Types
<1>1. ASSUME NEW f \in Frames, Posted(e, <<f>>), Carried(e, f)
      PROVE  Goal
  <2>1. FramesOf(inbox'[Peer(e)]) \subseteq FramesOf(inbox[Peer(e)]) \cup {f}
    BY <1>1, PostedFrames, These
  <2> QED  BY <1>1, <2>1
<1>2. CASE inbox'[Peer(e)] = inbox[Peer(e)]
  BY <1>2
<1>k. \A k \in {"request", "pull", "manifest", "end", "ack"} : Frame(k) \in Frames /\ Frame(k).kind = k
  BY PlainFrame
<1>m. \A r \in Manifests : Chunk("chunk", r) \in Frames /\ Chunk("push", r) \in Frames
  BY ChunkFrame
<1>3. CASE Swap(e)
  <2>1. Posted(e, <<Frame("manifest")>>) \/ inbox'[Peer(e)] = inbox[Peer(e)]
    BY <1>3, SwapGoes, Peers
  <2> QED  BY <1>1, <1>2, <1>k, <2>1 DEF Carried
<1>4. CASE Prepare(e)
  BY <1>2, <1>4, PrepareGoes
<1>5. CASE SendChunk(e)
  <2>1. Posted(e, <<Chunk("chunk", run[e].ahead)>>) /\ run[e].ahead \in Manifests
    BY <1>5, SendChunkGoes
  <2> QED  BY <1>1, <1>5, <1>m, <2>1 DEF Carried
<1>6. CASE SendEnd(e)
  <2>1. Posted(e, <<Frame("end")>>)
    BY <1>6, SendEndGoes
  <2> QED  BY <1>1, <1>6, <1>k, <2>1 DEF Carried
<1>7. CASE Ack(e)
  BY <1>2, <1>7, AckGoes
<1>8. CASE Store(e)
  <2>1. \/ (delta \/ e = "p") /\ Posted(e, <<Frame("ack")>>)
        \/ ~delta /\ e = "c" /\ Posted(e, <<Chunk("push", held'[e])>>)
        \/ inbox'[Peer(e)] = inbox[Peer(e)]
    BY <1>8, StoreGoes
  <2>2. ASSUME delta \/ e = "p", Posted(e, <<Frame("ack")>>)
        PROVE  Goal
    <3>1. Carried(e, Frame("ack"))
      BY <1>8, <1>k, <2>2 DEF Carried
    <3> QED  BY <1>1, <1>k, <2>2, <3>1
  <2>3. ASSUME ~delta, e = "c", Posted(e, <<Chunk("push", held'[e])>>)
        PROVE  Goal
    <3>1. Carried(e, Chunk("push", held'[e]))
      BY <1>8, <2>3 DEF Carried
    <3> QED  BY <1>0, <1>1, <1>m, <2>3, <3>1
  <2> QED  BY <1>2, <2>1, <2>2, <2>3
<1>9. CASE ReceiveEnd(e)
  BY <1>2, <1>9, ReceiveEndGoes
<1>10. CASE e = "c" /\ Grant
  <2>1. \/ Posted("c", <<Frame("request")>>)
        \/ Posted("c", <<Frame("pull")>>)
        \/ ~delta /\ Posted("c", <<Chunk("push", held["c"])>>)
    BY <1>10, GrantGoes
  <2>2. Carried(e, Frame("request")) /\ Carried(e, Frame("pull"))
    BY <1>k DEF Carried
  <2>3. ~delta => Carried(e, Chunk("push", held["c"]))
    BY <1>10 DEF Carried
  <2> QED  BY <1>0, <1>1, <1>10, <1>k, <1>m, <2>1, <2>2, <2>3
<1>11. CASE e = "p" /\ Request
  <2>1. \/ Posted("p", <<Frame("manifest")>>)
        \/ Got("p", "pull") /\ Posted("p", <<Chunk("chunk", held["p"])>>)
    BY <1>11, RequestGoes
  <2>2. Carried(e, Frame("manifest"))
    BY <1>k DEF Carried
  <2>3. Got("p", "pull") => Carried(e, Chunk("chunk", held["p"]))
    BY <1>11 DEF Carried
  <2> QED  BY <1>0, <1>1, <1>11, <1>k, <1>m, <2>1, <2>2, <2>3
<1> QED
  BY <1>3, <1>4, <1>5, <1>6, <1>7, <1>8, <1>9, <1>10, <1>11 DEF TransferStep

(* So do the new frames of those kinds.                                    *)
LEMMA NewFrames ==
  ASSUME Types, Types', Next, NEW d \in Devices, NEW f \in FramesOf(inbox'[d]),
         f.kind \in {"chunk", "push", "end", "ack"}
  PROVE  \/ f \in FramesOf(inbox[d])
         \/ /\ up /\ run'[d] = run[d]
            /\ TransferStep(Peer(d)) /\ Moves(Peer(d)) /\ Carried(Peer(d), f)
<1> SUFFICES ASSUME f \notin FramesOf(inbox[d])
             PROVE  /\ up /\ run'[d] = run[d]
                    /\ TransferStep(Peer(d)) /\ Moves(Peer(d)) /\ Carried(Peer(d), f)
  OBVIOUS
<1>1. Comes(Peer(d), f)
  BY FramesCome
<1>2. up /\ run'[d] = run[d] /\ TransferStep(Peer(d)) /\ Moves(Peer(d))
  BY <1>1, Peers DEF Comes, Status, Frame, Snapshot
<1>3. f \in FramesOf(inbox'[Peer(Peer(d))]) /\ f \notin FramesOf(inbox[Peer(Peer(d))]) /\ Peer(d) \in Devices
  BY Peers
<1>4. Carried(Peer(d), f)
  BY <1>2, <1>3, Carries
<1> QED  BY <1>2, <1>4

(* The other device while one sends.                                       *)
LEMMA SendingPhase ==
  ASSUME Types, SessionInv, up, NEW d \in Devices, run[d].pc = "send"
  PROVE  /\ run[Peer(d)].pc \in {"swap", "receive"}
         /\ inbox[d] = <<>>
         /\ \A f \in FramesOf(inbox[Peer(d)]) : f.kind = "manifest"
<1>1. /\ Phase /\ inbox["p"] \in Seq(Frames) /\ FramesOf(<<>>) = {}
  BY These, Peers DEF SessionInv, Types
<1>2. \A f \in FramesOf(inbox["p"]) : One(inbox["p"], "manifest") => f.kind = "manifest"
  BY <1>1, OnlyOne
<1>3. CASE d = "p"
  BY <1>1, <1>3, Peers DEF Phase, Greeting, Replied, Forgets, Comparing, Swapping,
     ServerSends, ClientSends, WholeMoves, At
<1>4. CASE d = "c"
  <2>1. /\ run["p"].pc \in {"swap", "receive"} /\ inbox["c"] = <<>>
        /\ inbox["p"] = <<>> \/ One(inbox["p"], "manifest")
    BY <1>1, <1>4 DEF Phase, Greeting, Replied, Forgets, Comparing, Swapping,
       ServerSends, ClientSends, WholeMoves, At
  <2> QED  BY <1>1, <1>2, <1>4, <2>1, Peers
<1> QED  BY <1>3, <1>4, Peers

(* Who waits for an answer of p, or has sent its workspace to it.          *)
LEMMA WholePhase ==
  ASSUME Types, SessionInv, up, run["p"].pc = "request", Got("p", "pull") \/ Got("p", "push")
  PROVE  run["c"].pc \in {"receive", "ack"}
<1>1. /\ Phase /\ inbox["p"] # <<>> /\ Head(inbox["p"]).kind \in {"pull", "push"}
      /\ \A k : One(inbox["p"], k) => Head(inbox["p"]).kind = k
  BY Boxes, Peers DEF SessionInv, Got
<1> QED
  BY <1>1 DEF Phase, Greeting, Replied, Forgets, Comparing, Swapping,
     ServerSends, ClientSends, WholeMoves, At

LEMMA PushPhase ==
  ASSUME Types, SessionInv, up, NEW f \in FramesOf(inbox["p"]), f.kind = "push"
  PROVE  run["c"].pc = "ack"
<1>1. /\ Phase /\ inbox["p"] \in Seq(Frames) /\ inbox["p"] # <<>>
      /\ run["p"].pc = "request" /\ ~delta
  BY AwaitedAt, These, Peers DEF SessionInv, Types
<1>2. \A k : One(inbox["p"], k) => k = "push"
  BY <1>1, OnlyOne
<1> QED
  BY <1>1, <1>2 DEF Phase, Greeting, Replied, Forgets, Comparing, WholeMoves, At

-----------------------------------------------------------------------------
(* The records of a transfer.                                              *)

LEMMA Orders ==
  ASSUME Types, Types', Next
  PROVE  /\ \A d \in Devices : held[d] \in Manifests /\ held'[d] \in Manifests /\ Le(held[d], held'[d])
         /\ \A m \in Manifests, d \in Devices : Le(m, held[d]) => Le(m, held'[d])
         /\ \A m \in Manifests, k \in Keys : m[k] \in Nat
<1>1. \A d \in Devices : held[d] \in Manifests /\ held'[d] \in Manifests /\ Le(held[d], held'[d])
  BY HeldGrows DEF Types
<1>2. \A m \in Manifests, d \in Devices : Le(m, held[d]) => Le(m, held'[d])
  BY <1>1, LeTransitive
<1>3. \A m \in Manifests, k \in Keys : m[k] \in Nat
  BY Numbers DEF Manifests
<1> QED  BY <1>1, <1>2, <1>3

(* A device that stores comes to hold all that is in the frame.            *)
LEMMA Stored ==
  ASSUME Types, Types', NEW d \in Devices, Store(d)
  PROVE  /\ Head(inbox[d]) \in FramesOf(inbox[d]) /\ Head(inbox[d]).records \in Manifests
         /\ Le(Head(inbox[d]).records, held'[d])
         /\ \/ run[d].pc = "receive" /\ Head(inbox[d]).kind = "chunk"
            \/ run[d].pc = "request" /\ Head(inbox[d]).kind = "push"
<1>1. /\ Storing(d) /\ Head(inbox[d]) \in FramesOf(inbox[d])
      /\ Head(inbox[d]).records \in Manifests /\ held[d] \in Manifests
      /\ held'[d] = Newest(held[d], Head(inbox[d]).records)
  BY StoreGoes DEF Types
<1> QED  BY <1>1, NewestIsNewer DEF Storing, Got

(* Nothing left to send, nothing prepared and nothing on its way.          *)
LEMMA AllSent ==
  ASSUME SendInv, delta, NEW d \in Devices, run[d].pc = "send", run[d].todo = {}, run[d].ahead = Unknown
  PROVE  Delivered(d)
<1>1. \A k \in Keys : run[d].local[k] <= held[Peer(d)][k]
  BY DEF SendInv, ToSend, Flying
<1> QED  BY <1>1 DEF Delivered, Le

InTransfer(d) ==
  \/ run[d].pc \in {"send", "ack"}
  \/ run[d].pc = "receive" /\ d = "c" /\ Push("c")

LEMMA KeepsSending ==
  ASSUME Types, Types', SessionInv, SendInv, Next, delta, NEW d \in Devices, run'[d] = run[d],
         InTransfer(d), NEW k \in Keys, run[d].local \in Manifests
  PROVE  ToSend(d, k)'
<1>1. ToSend(d, k)
  BY DEF SendInv, InTransfer
<1>2. run[d].local[k] <= held[Peer(d)][k] => run[d].local[k] <= held'[Peer(d)][k]
  BY Orders, Peers DEF Le
<1>3. CASE Flying(d, k) /\ \E f \in FramesOf(inbox'[d]) : f.kind = "ack"
  <2>1. PICK f \in FramesOf(inbox'[d]) : f.kind = "ack"
    BY <1>3
  <2>2. f \notin FramesOf(inbox[d])
    BY <1>3, <2>1 DEF Flying
  <2>3. up /\ Carried(Peer(d), f)
    BY <2>1, <2>2, NewFrames
  <2>4. Store(Peer(d))
    BY <2>1, <2>3 DEF Carried, Chunk
  <2>5. Head(inbox[Peer(d)]).kind = "chunk"
    BY <2>4, Stored, AwaitedAt, Peers
  <2>6. run[d].local[k] <= Head(inbox[Peer(d)]).records[k]
    BY <1>3, <2>3, <2>4, <2>5, Stored, Peers DEF Flying
  <2>7. Head(inbox[Peer(d)]).records[k] <= held'[Peer(d)][k] /\ Head(inbox[Peer(d)]).records \in Manifests
    BY <2>4, Stored, Peers DEF Le
  <2>8. run[d].local[k] <= held'[Peer(d)][k]
    <3>1. /\ run[d].local[k] \in Nat /\ Head(inbox[Peer(d)]).records[k] \in Nat
          /\ held'[Peer(d)][k] \in Nat
      BY <2>7, Orders, Peers
    <3> QED  BY <2>6, <2>7, <3>1
  <2> QED  BY <2>8 DEF ToSend
<1>4. CASE Flying(d, k) /\ ~(\E f \in FramesOf(inbox'[d]) : f.kind = "ack")
  <2>1. ASSUME up', NEW f \in FramesOf(inbox'[Peer(d)]), f.kind = "chunk"
        PROVE  run[d].local[k] <= f.records[k]
    <3>1. up
      BY <1>4, <2>1, UpBefore, JoinGoes DEF Flying
    <3>2. f \in FramesOf(inbox[Peer(d)])
      <4>1. ASSUME Carried(Peer(Peer(d)), f), TransferStep(Peer(Peer(d)))
            PROVE  FALSE
        <5>1. SendChunk(d) \/ (d = "p" /\ Request)
          BY <2>1, <4>1, Peers DEF Carried, Chunk
        <5> QED  BY <1>4, <5>1, SendChunkGoes, RequestGoes DEF Flying
      <4> QED  BY <2>1, <4>1, NewFrames, Peers
    <3> QED  BY <1>4, <2>1, <3>1, <3>2 DEF Flying
  <2> QED  BY <1>4, <2>1 DEF ToSend, Flying
<1> QED  BY <1>1, <1>2, <1>3, <1>4 DEF ToSend

LEMMA GoesOnSending ==
  ASSUME Types, Types', SessionInv, SendInv, BoundInv, Next, delta, delta', NEW d \in Devices,
         TransferStep(d), Moves(d), (InTransfer(d))', NEW k \in Keys
  PROVE  ToSend(d, k)'
<1>0. /\ run'[d].local = run[d].local /\ run'[d].remote = run[d].remote /\ run'[d].dir = run[d].dir
      /\ run[d].pc \in Past /\ up' = up
      /\ Pull("c")' = Pull("c") /\ Push("c")' = Push("c") /\ Pull("p")' = Pull("p")
  BY MovesRuns, Peers DEF Moves
<1>1. /\ run[d].local \in Manifests /\ run[d].remote \in Manifests /\ run[d] \in Attempts
      /\ Le(run[d].local, held[d]) /\ Le(run[d].remote, held[Peer(d)])
  BY <1>0 DEF BoundInv, Compared, Types
<1>2. run[d].local[k] <= held[Peer(d)][k] => run[d].local[k] <= held'[Peer(d)][k]
  BY <1>1, Orders, Peers DEF Le
<1>3. CASE Swap(d)
  <2>1. /\ run[d].pc = "swap" /\ run'[d].pc = FirstStage(d)
        /\ run'[d].todo = (IF Sends(d) THEN Wanted(run[d].local, run[d].remote) ELSE {})
    BY <1>3, SwapGoes
  <2>2. Sends(d)
    <3>1. CASE d = "p"
      BY <1>0, <2>1, <3>1 DEF InTransfer, FirstStage, Sends, SendsUnder, Pull
    <3>2. CASE d = "c"
      <4>1. run[d].dir \in Directions
        BY <1>1 DEF Attempts
      <4> QED  BY <1>0, <2>1, <3>2, <4>1 DEF InTransfer, FirstStage, Sends, SendsUnder, Pull, Push, Directions
    <3> QED  BY <3>1, <3>2, Peers
  <2>3. CASE k \in run'[d].todo
    BY <2>3 DEF ToSend
  <2>4. CASE k \notin run'[d].todo
    <3>1. run[d].local[k] \in Nat /\ run[d].remote[k] \in Nat /\ held[Peer(d)][k] \in Nat
      BY <1>1, Orders, Peers
    <3>2. run[d].local[k] <= run[d].remote[k]
      BY <2>1, <2>2, <2>4, <3>1 DEF Wanted
    <3>3. run[d].remote[k] <= held[Peer(d)][k]
      BY <1>1 DEF Le
    <3>4. run[d].local[k] <= held[Peer(d)][k]
      BY <3>1, <3>2, <3>3
    <3> QED  BY <1>0, <1>2, <3>4 DEF ToSend
  <2> QED  BY <2>3, <2>4
<1>4. CASE Prepare(d)
  <2>1. run[d].pc \in {"send", "ack"} /\ run'[d].pc = run[d].pc /\ run[d].ahead = Unknown /\ inbox' = inbox
    BY <1>4, PrepareGoes
  <2>2. PICK j \in run[d].todo : run'[d].todo = run[d].todo \ {j} /\ run'[d].ahead = Only(j, held[d][j])
    BY <1>4, PrepareGoes
  <2>3. ToSend(d, k)
    BY <2>1 DEF SendInv
  <2>4. CASE k = j
    <3>1. run'[d].ahead[k] = held[d][k] /\ DOMAIN run'[d].ahead = Keys
      BY <2>2, <2>4 DEF Only
    <3>2. run'[d].ahead # Unknown
      <4>1. DOMAIN Unknown = {}
        BY DEF Unknown
      <4> QED  BY <3>1, <4>1
    <3>3. run[d].local[k] <= held[d][k]
      BY <1>1 DEF Le
    <3> QED  BY <1>0, <3>1, <3>2, <3>3 DEF ToSend
  <2>5. CASE k # j
    <3>1. k \in run[d].todo => k \in run'[d].todo
      BY <2>2, <2>5
    <3>2. Flying(d, k) => Flying(d, k)'
      BY <1>0, <2>1 DEF Flying
    <3> QED  BY <1>0, <1>2, <2>1, <2>3, <3>1, <3>2 DEF ToSend
  <2> QED  BY <2>4, <2>5
<1>5. CASE SendChunk(d)
  <2>1. /\ run[d].pc = "send" /\ run'[d].pc = "ack" /\ run'[d].todo = run[d].todo
        /\ run[d].ahead \in Manifests /\ inbox'[d] = inbox[d]
    BY <1>5, SendChunkGoes
  <2>2. ToSend(d, k)
    BY <2>1 DEF SendInv
  <2>3. CASE run[d].local[k] <= run[d].ahead[k]
    <3>1. \A f \in FramesOf(inbox'[d]) : f.kind # "ack"
      BY <2>1, AwaitedAt
    <3>2. ASSUME up', NEW f \in FramesOf(inbox'[Peer(d)]), f.kind = "chunk"
          PROVE  run'[d].local[k] <= f.records[k]
      <4>1. f \notin FramesOf(inbox[Peer(d)])
        BY <1>0, <2>1, <3>2, SendingPhase
      <4>2. Carried(d, f)
        BY <3>2, <4>1, Carries
      <4>3. f = Chunk("chunk", run[d].ahead)
        BY <2>1, <3>2, <4>2, RequestGoes DEF Carried, Chunk
      <4> QED  BY <1>0, <2>3, <4>3 DEF Chunk
    <3> QED  BY <2>1, <3>1, <3>2 DEF ToSend, Flying
  <2> QED  BY <1>0, <1>2, <2>1, <2>2, <2>3 DEF ToSend, Flying
<1>6. CASE SendEnd(d)
  BY <1>6, SendEndGoes DEF InTransfer
<1>7. CASE Ack(d)
  <2>1. /\ run[d].pc = "ack" /\ Got(d, "ack")
        /\ run'[d].ahead = run[d].ahead /\ run'[d].todo = run[d].todo
    BY <1>7, AckGoes
  <2>2. ~Flying(d, k)
    BY <2>1, Read DEF Flying
  <2> QED  BY <1>0, <1>2, <2>1, <2>2 DEF SendInv, ToSend
<1>8. CASE Store(d)
  <2>1. /\ run'[d].pc = run[d].pc /\ run[d].pc \in {"receive", "request"}
        /\ run'[d].ahead = run[d].ahead /\ run'[d].todo = run[d].todo
    BY <1>8, StoreGoes DEF Storing
  <2>2. ToSend(d, k)
    BY <1>0, <2>1 DEF SendInv, InTransfer
  <2> QED  BY <1>0, <1>2, <2>1, <2>2 DEF ToSend, Flying
<1>9. CASE ReceiveEnd(d)
  <2>1. /\ run[d].pc = "receive" /\ run'[d].pc = (IF d = "c" /\ Push(d) THEN "send" ELSE "finish")
        /\ run'[d].ahead = run[d].ahead /\ run'[d].todo = run[d].todo
    BY <1>9, ReceiveEndGoes
  <2>2. ToSend(d, k)
    BY <2>1 DEF SendInv, InTransfer
  <2> QED  BY <1>0, <1>2, <2>1, <2>2 DEF ToSend, Flying
<1>10. CASE d = "c" /\ Grant
  BY <1>10, GrantGoes DEF InTransfer
<1>11. CASE d = "p" /\ Request
  BY <1>11, RequestGoes DEF InTransfer
<1> QED
  BY <1>3, <1>4, <1>5, <1>6, <1>7, <1>8, <1>9, <1>10, <1>11 DEF TransferStep

LEMMA SendHolds ==
  ASSUME Types, Types', SessionInv, RoleInv, SendInv, BoundInv, Next
  PROVE  SendInv'
<1>0. delta' = delta
  BY Classified, GreetReads, CompareReads, HelloGoes, StartGoes, JoinGoes, TransferMoves
     DEF Rests, Cut, Ends, Moves
<1> SUFFICES ASSUME delta, NEW d \in Devices, (InTransfer(d))', NEW k \in Keys
             PROVE  ToSend(d, k)'
  BY <1>0 DEF SendInv, InTransfer
<1>1. CASE run'[d] = run[d]
  <2>1. InTransfer(d)
    <3>1. d = "c" => Push("c")' = Push("c")
      BY <1>1 DEF Push
    <3> QED  BY <1>1, <3>1 DEF InTransfer
  <2>2. run[d].local \in Manifests
    BY <2>1 DEF BoundInv, InTransfer, Compared, Past
  <2> QED  BY <1>1, <2>1, <2>2, KeepsSending
<1>2. CASE TransferStep(d) /\ Moves(d)
  BY <1>0, <1>2, GoesOnSending
<1> QED  BY <1>1, <1>2, Attempts1 DEF Attempted, InTransfer

-----------------------------------------------------------------------------
(* What the frames and the stages of a transfer say.                       *)

LEMMA SpeaksAlike ==
  ASSUME Types, Types', Next
  PROVE  delta' = delta
BY Classified, GreetReads, CompareReads, HelloGoes, StartGoes, JoinGoes, TransferMoves
   DEF Rests, Cut, Ends, Moves

(* An attempt within the transfer keeps its manifests and its direction,   *)
(* and what was stored of them stays stored.                               *)
LEMMA TransferKept ==
  ASSUME Types, Types', BoundInv, Next, NEW d \in Devices,
         \/ run'[d].pc \in {"swap", "send", "ack", "receive", "finish"}
         \/ run[d].pc \in Past /\ run'[d].pc \notin {"off", "join"}
  PROVE  /\ run[d].pc \in Past
         /\ run'[d].local = run[d].local /\ run'[d].remote = run[d].remote
         /\ run[d].local \in Manifests /\ run[d].remote \in Manifests
         /\ Pull(d)' = Pull(d) /\ Push(d)' = Push(d)
         /\ run'[d] = run[d] \/ (TransferStep(d) /\ Moves(d))
         /\ Delivered(d) => Delivered(d)'
         /\ Received(d) => Received(d)'
<1>1. run'[d] = run[d] \/ (TransferStep(d) /\ Moves(d))
  BY Attempts1 DEF Attempted, Past
<1>2. /\ run[d].pc \in Past /\ run'[d].dir = run[d].dir
      /\ run'[d].local = run[d].local /\ run'[d].remote = run[d].remote
  BY <1>1 DEF Moves, Keeps, Past
<1>3. run[d].local \in Manifests /\ run[d].remote \in Manifests
  BY <1>2 DEF BoundInv, Compared
<1>4. Pull(d)' = Pull(d) /\ Push(d)' = Push(d)
  BY <1>2 DEF Pull, Push
<1>5. /\ Delivered(d) => Delivered(d)'
      /\ Received(d) => Received(d)'
  BY <1>2, <1>3, Orders, Peers DEF Delivered, Received
<1> QED  BY <1>1, <1>2, <1>3, <1>4, <1>5

LEMMA FramesMean ==
  ASSUME Types, Types', SessionInv, SessionInv', RoleInv, BoundInv, MirrorInv, SendInv, TransferInv,
         Next, NEW d \in Devices, NEW f \in FramesOf(inbox'[d])
  PROVE  /\ f.kind = "end" => Received(d)'
         /\ f.kind = "ack" /\ ~delta => Delivered(d)'
         /\ f.kind = "chunk" /\ ~delta => Le(run'[d].remote, f.records)
<1>1. CASE f \in FramesOf(inbox[d])
  <2>1. inbox'[d] # <<>>
    BY These
  <2>2. run'[d].pc \notin {"off", "join"}
    BY <2>1 DEF SessionInv, InSession
  <2>3. f.kind \in {"end", "ack", "chunk"} => run[d].pc \in Past
    BY <1>1, AwaitedAt DEF Past
  <2>4. /\ f.kind = "end" => Received(d)
        /\ f.kind = "ack" /\ ~delta => Delivered(d)
        /\ f.kind = "chunk" /\ ~delta => Le(run[d].remote, f.records)
    BY <1>1 DEF TransferInv
  <2> QED  BY <2>2, <2>3, <2>4, TransferKept
<1>2. ASSUME f \notin FramesOf(inbox[d]), f.kind \in {"end", "ack", "chunk"}
      PROVE  /\ up /\ run'[d] = run[d] /\ Carried(Peer(d), f)
  BY <1>2, NewFrames
<1>3. ASSUME f \notin FramesOf(inbox[d]), f.kind = "end"
      PROVE  Received(d)'
  <2>1. SendEnd(Peer(d)) /\ up /\ run'[d] = run[d] /\ Peer(d) \in Devices /\ Peer(Peer(d)) = d
    BY <1>2, <1>3, Peers DEF Carried, Chunk
  <2>2. /\ run[Peer(d)].pc = "send" /\ run[Peer(d)].ahead = Unknown /\ run[Peer(d)].todo = {}
    BY <2>1, SendEndGoes
  <2>3. run[d].pc \in {"swap", "receive"}
    BY <2>1, <2>2, SendingPhase
  <2>4. run[d].remote = run[Peer(d)].local
    BY <2>1, <2>2, <2>3 DEF MirrorInv, Past, Compared
  <2>5. Delivered(Peer(d))
    BY <2>1, <2>2, AllSent DEF RoleInv
  <2>6. Received(d)
    BY <2>1, <2>4, <2>5 DEF Delivered, Received
  <2> QED  BY <2>1, <2>3, <2>6, TransferKept DEF Past
<1>4. ASSUME f \notin FramesOf(inbox[d]), f.kind = "ack", ~delta
      PROVE  Delivered(d)'
  <2>1. d = "c" /\ Store("p") /\ up /\ run'["c"] = run["c"]
    BY <1>2, <1>4, Peers DEF Carried, Chunk
  <2> DEFINE g == Head(inbox["p"])
  <2>2. g \in FramesOf(inbox["p"]) /\ g.records \in Manifests /\ Le(g.records, held'["p"])
        /\ g.kind = "push"
    BY <1>4, <2>1, Stored, Peers DEF RoleInv
  <2>3. Le(run["c"].local, g.records)
    BY <2>1, <2>2 DEF TransferInv
  <2>4. run["c"].local \in Manifests
    BY <2>1, <2>2, PushPhase, Peers DEF BoundInv, Compared, Past
  <2> HIDE DEF g
  <2>5. held'["p"] \in Manifests
    BY Orders, Peers
  <2>6. Le(run["c"].local, held'["p"])
    BY <2>2, <2>3, <2>4, <2>5, LeTransitive
  <2> QED  BY <2>1, <2>6, Peers DEF Delivered
<1>5. ASSUME f \notin FramesOf(inbox[d]), f.kind = "chunk", ~delta
      PROVE  Le(run'[d].remote, f.records)
  <2>1. ~SendChunk(Peer(d))
    BY <1>5, SendChunkGoes, Peers DEF RoleInv
  <2>2. /\ d = "c" /\ Request /\ Got("p", "pull") /\ f = Chunk("chunk", held["p"])
        /\ up /\ run'["c"] = run["c"]
    BY <1>2, <1>5, <2>1, Peers DEF Carried, Chunk
  <2>3. run["c"].pc \in {"receive", "ack"}
    BY <2>2, RequestGoes, WholePhase
  <2> QED  BY <2>2, <2>3, Peers DEF BoundInv, Past, Chunk
<1> QED  BY <1>1, <1>3, <1>4, <1>5

LEMMA PushMeans ==
  ASSUME Types, Types', SessionInv, SessionInv', BoundInv, TransferInv,
         Next, up', NEW f \in FramesOf(inbox'["p"]), f.kind = "push"
  PROVE  Le(run'["c"].local, f.records)
<1>1. run'["c"].pc \notin {"off", "join"}
  BY DEF SessionInv, InSession
<1>2. CASE f \in FramesOf(inbox["p"])
  <2>1. up
    <3>1. ~Join
      BY <1>2, AwaitedAt, JoinGoes, Peers
    <3> QED  BY <3>1, UpBefore
  <2>2. run["c"].pc = "ack" /\ Le(run["c"].local, f.records)
    BY <1>2, <2>1, PushPhase DEF TransferInv
  <2> QED  BY <1>1, <2>2, TransferKept, Peers DEF Past
<1>3. CASE f \notin FramesOf(inbox["p"])
  <2>1. TransferStep("c") /\ Moves("c") /\ Carried("c", f)
    BY <1>3, NewFrames, Peers
  <2>2. /\ run["c"].pc \in Past /\ run'["c"].local = run["c"].local
        /\ run["c"].local \in Manifests /\ Le(run["c"].local, held["c"])
    BY <2>1, Peers DEF Moves, Keeps, BoundInv, Compared
  <2>3. f.records = held["c"] \/ f.records = held'["c"]
    BY <2>1, RequestGoes DEF Carried, Chunk
  <2> QED  BY <2>2, <2>3, Orders, Peers
<1> QED  BY <1>2, <1>3

LEMMA ClientReceived ==
  ASSUME Types, Types', SessionInv, RoleInv, BoundInv, TransferInv, Next,
         run'["c"].pc \in {"send", "ack", "finish"}, Pull("c")'
  PROVE  Received("c")'
<1>1. /\ Received("c") => Received("c")'
      /\ Pull("c") /\ run["c"].remote \in Manifests /\ run'["c"].remote = run["c"].remote
      /\ run'["c"] = run["c"] \/ TransferStep("c")
  BY TransferKept, Peers
<1>2. CASE run["c"].pc \in {"send", "ack", "finish"}
  BY <1>1, <1>2 DEF TransferInv
<1>3. CASE Store("c")
  <2> DEFINE f == Head(inbox["c"])
  <2>1. /\ run["c"].pc = "receive" /\ f \in FramesOf(inbox["c"]) /\ f.kind = "chunk"
        /\ f.records \in Manifests /\ Le(f.records, held'["c"])
    BY <1>3, Stored, Peers DEF RoleInv
  <2>2. ~delta
    BY <1>3, <2>1, StoreGoes, Peers
  <2>3. Le(run["c"].remote, f.records)
    BY <2>1, <2>2, Peers DEF TransferInv
  <2>4. held'["c"] \in Manifests
    BY Orders, Peers
  <2> HIDE DEF f
  <2>5. Le(run["c"].remote, held'["c"])
    BY <1>1, <2>1, <2>3, <2>4, LeTransitive
  <2> QED  BY <1>1, <2>5 DEF Received
<1>4. CASE ReceiveEnd("c")
  <2>1. Head(inbox["c"]) \in FramesOf(inbox["c"]) /\ Head(inbox["c"]).kind = "end"
    BY <1>4, ReceiveEndGoes, Read, Peers
  <2> QED  BY <1>1, <2>1, Peers DEF TransferInv
<1>5. CASE Swap("c")
  BY <1>1, <1>5, SwapGoes, Peers DEF FirstStage
<1>6. CASE Grant
  BY <1>1, <1>6, GrantGoes
<1>7. CASE Prepare("c") \/ SendChunk("c") \/ SendEnd("c") \/ Ack("c")
  BY <1>2, <1>7, PrepareGoes, SendChunkGoes, SendEndGoes, AckGoes, Peers
<1> QED
  BY <1>1, <1>2, <1>3, <1>4, <1>5, <1>6, <1>7 DEF TransferStep

LEMMA ClientDelivered ==
  ASSUME Types, Types', RoleInv, BoundInv, SendInv, TransferInv, Next,
         run'["c"].pc = "finish", Push("c")'
  PROVE  Delivered("c")'
<1>1. /\ Delivered("c") => Delivered("c")'
      /\ Push("c")
      /\ run'["c"] = run["c"] \/ TransferStep("c")
  BY TransferKept, Peers
<1>2. CASE run'["c"] = run["c"]
  BY <1>1, <1>2 DEF TransferInv
<1>3. CASE SendEnd("c")
  <2>1. run["c"].pc = "send" /\ run["c"].todo = {} /\ run["c"].ahead = Unknown
    BY <1>3, SendEndGoes, Peers
  <2> QED  BY <1>1, <2>1, AllSent, Peers DEF RoleInv
<1>4. CASE Ack("c")
  <2>1. Head(inbox["c"]) \in FramesOf(inbox["c"]) /\ Head(inbox["c"]).kind = "ack" /\ ~delta
    BY <1>4, AckGoes, Read, Peers
  <2> QED  BY <1>1, <2>1, Peers DEF TransferInv
<1>5. CASE Store("c")
  BY <1>1, <1>5, StoreGoes, Peers DEF Storing
<1>6. CASE Swap("c") \/ Prepare("c") \/ SendChunk("c") \/ ReceiveEnd("c") \/ Grant
  BY <1>1, <1>6, SwapGoes, PrepareGoes, SendChunkGoes, ReceiveEndGoes, GrantGoes, Peers DEF FirstStage
<1> QED
  BY <1>1, <1>2, <1>3, <1>4, <1>5, <1>6 DEF TransferStep

LEMMA ServerDelivered ==
  ASSUME Types, Types', RoleInv, BoundInv, SendInv, TransferInv, Next,
         run'["p"].pc \in {"receive", "finish"}, Pull("p")'
  PROVE  Delivered("p")'
<1>1. /\ Delivered("p") => Delivered("p")'
      /\ Pull("p")
      /\ run'["p"] = run["p"] \/ TransferStep("p")
  BY TransferKept, Peers
<1>2. CASE run["p"].pc \in {"receive", "finish"}
  BY <1>1, <1>2 DEF TransferInv
<1>3. CASE SendEnd("p")
  <2>1. run["p"].pc = "send" /\ run["p"].todo = {} /\ run["p"].ahead = Unknown
    BY <1>3, SendEndGoes, Peers
  <2> QED  BY <1>1, <2>1, AllSent, Peers DEF RoleInv
<1>4. CASE Ack("p")
  BY <1>4, AckGoes, Peers DEF RoleInv
<1>5. CASE Store("p")
  BY <1>2, <1>5, StoreGoes, Peers DEF Storing
<1>6. CASE Swap("p") \/ Prepare("p") \/ SendChunk("p") \/ ReceiveEnd("p") \/ Request
  BY <1>1, <1>2, <1>6, SwapGoes, PrepareGoes, SendChunkGoes, ReceiveEndGoes, RequestGoes, Peers
     DEF FirstStage
<1> QED
  BY <1>1, <1>2, <1>3, <1>4, <1>5, <1>6 DEF TransferStep

LEMMA ServerReceived ==
  ASSUME Types, Types', RoleInv, BoundInv, TransferInv, Next,
         run'["p"].pc = "finish", Push("p")'
  PROVE  Received("p")'
<1>1. /\ Received("p") => Received("p")'
      /\ Push("p")
      /\ run'["p"] = run["p"] \/ TransferStep("p")
  BY TransferKept, Peers
<1>2. CASE run["p"].pc = "finish"
  BY <1>1, <1>2 DEF TransferInv
<1>3. CASE ReceiveEnd("p")
  <2>1. Head(inbox["p"]) \in FramesOf(inbox["p"]) /\ Head(inbox["p"]).kind = "end"
    BY <1>3, ReceiveEndGoes, Read, Peers
  <2> QED  BY <1>1, <2>1, Peers DEF TransferInv
<1>4. CASE Ack("p")
  BY <1>4, AckGoes, Peers DEF RoleInv
<1>5. CASE Store("p")
  BY <1>2, <1>5, StoreGoes, Peers DEF Storing
<1>6. CASE Swap("p") \/ Prepare("p") \/ SendChunk("p") \/ SendEnd("p") \/ Request
  BY <1>1, <1>2, <1>6, SwapGoes, PrepareGoes, SendChunkGoes, SendEndGoes, RequestGoes, Peers
     DEF FirstStage
<1> QED
  BY <1>1, <1>2, <1>3, <1>4, <1>5, <1>6 DEF TransferStep

LEMMA TransferHolds ==
  ASSUME Types, Types', SessionInv, SessionInv', RoleInv, BoundInv, MirrorInv, SendInv, TransferInv,
         Next
  PROVE  TransferInv'
<1>0. delta' = delta
  BY SpeaksAlike
<1>1. \A d \in Devices : \A f \in FramesOf(inbox'[d]) :
        /\ f.kind = "end" => Received(d)'
        /\ f.kind = "ack" /\ ~delta => Delivered(d)'
        /\ f.kind = "chunk" /\ ~delta => Le(run'[d].remote, f.records)
  BY FramesMean
<1>2. up' => \A f \in FramesOf(inbox'["p"]) : f.kind = "push" => Le(run'["c"].local, f.records)
  BY PushMeans
<1>3. run'["c"].pc \in {"send", "ack", "finish"} /\ Pull("c")' => Received("c")'
  BY ClientReceived
<1>4. run'["c"].pc = "finish" /\ Push("c")' => Delivered("c")'
  BY ClientDelivered
<1>5. run'["p"].pc \in {"receive", "finish"} /\ Pull("p")' => Delivered("p")'
  BY ServerDelivered
<1>6. run'["p"].pc = "finish" /\ Push("p")' => Received("p")'
  BY ServerReceived
<1> QED  BY <1>0, <1>1, <1>2, <1>3, <1>4, <1>5, <1>6 DEF TransferInv

-----------------------------------------------------------------------------
(* The invariant.                                                          *)

LEMMA InitTypes ==
  ASSUME Init
  PROVE  Types
<1>1. /\ 1 \in Pairings /\ 1 \in Versions /\ 0 \in Versions
      /\ 0 \in 0..MaxEvents
  BY SyncPairsAssumption DEF Pairings, Versions
<1>2. Absent \in Records
  BY DEF Absent, Record, Records, Directions, States
<1>3. Idle \in Attempts
  BY <1>2 DEF Idle, Attempts, Stages, Directions, States
<1>4. rec \in [Devices -> Records]
  <2>1. PICK dir \in FirstDirections : rec = [d \in Devices |-> Record(1, dir)]
    BY DEF Init
  <2>2. Record(1, dir) \in Records
    BY <1>1, SyncPairsAssumption DEF Record, Records, States
  <2> QED  BY <2>1, <2>2
<1>5. held \in [Devices -> Manifests]
  <2>1. PICK o \in Devices : held = [d \in Devices |-> [k \in Keys |-> IF d = o THEN 1 ELSE 0]]
    BY DEF Init
  <2>2. \A d \in Devices : [k \in Keys |-> IF d = o THEN 1 ELSE 0] \in Manifests
    BY <1>1 DEF Manifests
  <2> QED  BY <2>1, <2>2
<1>6. run \in [Devices -> Attempts]
  BY <1>3 DEF Init
<1>7. pairing \in [id : Pairings \cup {0}, dir : Directions, asker : Devices]
  BY DEF Init, NoPairing, Directions, Devices
<1>8. /\ inbox \in [Devices -> Seq(Frames)]
      /\ verdict \in [Devices -> {"none", "forget", "idle", "same", "changed"}]
      /\ late \in [Devices -> BOOLEAN]
      /\ orphan \in [Devices -> Manifests \cup {Unknown}]
      /\ up \in BOOLEAN /\ delta \in BOOLEAN /\ events \in 0..MaxEvents
  BY <1>1, These DEF Init
<1> QED  BY <1>4, <1>5, <1>6, <1>7, <1>8 DEF Types

LEMMA InitInv ==
  ASSUME Init
  PROVE  IInv
<1>1. Types
  BY InitTypes
<1>2. PICK dir \in FirstDirections : rec = [d \in Devices |-> Record(1, dir)]
  BY DEF Init
<1>3. \A d \in Devices : /\ rec[d].id = 1 /\ rec[d].dir = dir /\ rec[d].state = "active"
                         /\ rec[d].local = Unknown
  BY <1>2 DEF Record
<1>4. \A d \in Devices : /\ run[d].pc = "off" /\ run[d].id = 0 /\ run[d].dir = "both"
                         /\ run[d].remote = Unknown
                         /\ inbox[d] = <<>> /\ verdict[d] = "none"
  BY DEF Init, Idle
<1>5. ~up /\ events = 0 /\ pairing.id = 0 /\ pairing.dir = "both"
  BY DEF Init, NoPairing
<1>6. \A d \in Devices : FramesOf(inbox[d]) = {} /\ FramesOf(inbox[Peer(d)]) = {}
  BY <1>4, These, Peers
<1>7. \A d \in Devices : run[d].pc \notin Compared /\ run[d].pc \notin Past /\ ~InSession(d)
  BY <1>4 DEF Compared, Past, InSession
<1>8. RowInv
  BY <1>3 DEF RowInv
<1>9. PairingInv
  <2>1. \A n \in Named : n = <<0, "both">> \/ n = <<1, dir>>
    BY <1>3, <1>4, <1>5 DEF Named
  <2> QED  BY <1>5, <2>1 DEF PairingInv
<1>10. SessionInv
  BY <1>4, <1>5, <1>7, Peers DEF SessionInv, Awaits, Alone
<1>11. RoleInv /\ SeenInv /\ StatusInv /\ VerdictInv
  BY <1>4, <1>7, Peers DEF RoleInv, SeenInv, StatusInv, VerdictInv
<1>12. SnapshotInv /\ BoundInv /\ MirrorInv
  BY <1>4, <1>5, <1>6, <1>7 DEF SnapshotInv, BoundInv, MirrorInv
<1>13. SendInv /\ TransferInv
  BY <1>4, <1>5, <1>6, Peers DEF SendInv, TransferInv
<1>14. CheckpointInv /\ SinceInv
  BY <1>3, <1>4, <1>6, <1>7, Peers DEF CheckpointInv, SinceInv, Acknowledged, AcknowledgedIn
<1>15. SameDecision
  BY <1>4, Peers DEF SameDecision
<1> QED
  BY <1>1, <1>8, <1>9, <1>10, <1>11, <1>12, <1>13, <1>14, <1>15 DEF IInv

LEMMA StepInv ==
  ASSUME IInv, Next
  PROVE  IInv'
<1>1. /\ Types /\ RowInv /\ PairingInv /\ SessionInv /\ RoleInv /\ SeenInv
      /\ StatusInv /\ VerdictInv /\ SnapshotInv /\ BoundInv /\ MirrorInv
      /\ SendInv /\ TransferInv /\ CheckpointInv /\ SinceInv /\ SameDecision
  BY DEF IInv
<1>2. Types'
  BY <1>1, TypesHold
<1>3. RowInv' /\ PairingInv' /\ SessionInv'
  BY <1>1, <1>2, RowHolds, PairingHolds, SessionHolds
<1>4. RoleInv' /\ SeenInv' /\ StatusInv'
  BY <1>1, <1>2, RoleHolds, SeenHolds, StatusHolds
<1>5. VerdictInv' /\ SnapshotInv' /\ SameDecision'
  BY <1>1, <1>2, VerdictHolds, SnapshotHolds, SameDecisionHolds
<1>6. BoundInv' /\ MirrorInv' /\ SendInv'
  BY <1>1, <1>2, BoundHolds, MirrorHolds, SendHolds
<1>7. TransferInv' /\ CheckpointInv' /\ SinceInv'
  BY <1>1, <1>2, <1>3, TransferHolds, CheckpointHolds, SinceHolds
<1> QED  BY <1>2, <1>3, <1>4, <1>5, <1>6, <1>7 DEF IInv

LEMMA StillInv ==
  ASSUME IInv, UNCHANGED vars
  PROVE  IInv'
<1>1. UNCHANGED <<rec, pairing, held, run, up, inbox, verdict, late, orphan, delta, events>>
  BY DEF vars
<1>2. Types' /\ RowInv' /\ RoleInv' /\ StatusInv' /\ VerdictInv' /\ SameDecision'
  BY <1>1 DEF IInv, Types, RowInv, RoleInv, StatusInv, VerdictInv, SameDecision
<1>3. PairingInv'
  <2>1. Named' = Named
    BY <1>1 DEF Named
  <2> QED  BY <1>1, <2>1 DEF IInv, PairingInv
<1>4. SessionInv'
  <2>1. Phase' = Phase
    BY <1>1 DEF Phase, Greeting, Replied, Forgets, Comparing, Swapping, ServerSends, ClientSends,
       WholeMoves, At, Pull, Push
  <2>2. \A d \in Devices : Awaits(d)' = Awaits(d) /\ InSession(d)' = InSession(d)
    BY <1>1 DEF Awaits, Alone, InSession, Pull
  <2> QED  BY <1>1, <2>1, <2>2, Peers DEF IInv, SessionInv
<1>5. SeenInv'
  BY <1>1 DEF IInv, SeenInv, InSession, Current
<1>6. SnapshotInv'
  BY <1>1 DEF IInv, SnapshotInv, Snapshot, Differs
<1>7. BoundInv' /\ MirrorInv'
  BY <1>1 DEF IInv, BoundInv, MirrorInv
<1>8. SendInv'
  <2>1. \A d \in Devices, k \in Keys : ToSend(d, k)' = ToSend(d, k)
    BY <1>1 DEF ToSend, Flying
  <2> QED  BY <1>1, <2>1 DEF IInv, SendInv, Push
<1>9. TransferInv'
  <2>1. \A d \in Devices : Delivered(d)' = Delivered(d) /\ Received(d)' = Received(d)
    BY <1>1 DEF Delivered, Received
  <2>2. \A d \in Devices : Pull(d)' = Pull(d) /\ Push(d)' = Push(d)
    BY <1>1 DEF Pull, Push
  <2> QED  BY <1>1, <2>1, <2>2, Peers DEF IInv, TransferInv
<1>10. CheckpointInv' /\ SinceInv'
  <2>1. CheckpointInv /\ SinceInv
    BY DEF IInv
  <2> QED  BY <1>1, <2>1 DEF CheckpointInv, SinceInv, Acknowledged, AcknowledgedIn, Pull, Push
<1> QED
  BY <1>2, <1>3, <1>4, <1>5, <1>6, <1>7, <1>8, <1>9, <1>10 DEF IInv

LEMMA Invariance == Spec => []IInv
<1>1. Init => IInv
  BY InitInv
<1>2. IInv /\ [Next]_vars => IInv'
  BY StepInv, StillInv
<1> QED  BY <1>1, <1>2, PTL DEF Spec

-----------------------------------------------------------------------------
(* The theorems.                                                           *)

LEMMA WellTyped == IInv => TypeOK
<1> SUFFICES ASSUME IInv
             PROVE  TypeOK
  OBVIOUS
<1>1. Types /\ RowInv /\ SessionInv
  BY DEF IInv
<1>2. ASSUME NEW d \in Devices
      PROVE  Len(inbox[d]) <= 3
  <2>1. inbox[d] = <<>> \/ Len(inbox[d]) \in {1, 2}
    BY <1>1 DEF SessionInv, Awaits, Alone, One, Two
  <2>2. CASE inbox[d] = <<>>
    <3>1. Len(inbox[d]) = 0
      BY <2>2
    <3> QED  BY <3>1
  <2>3. CASE Len(inbox[d]) \in {1, 2}
    <3>1. \A n \in {1, 2} : n <= 3
      OBVIOUS
    <3> QED  BY <2>3, <3>1, Zenon
  <2> QED  BY <2>1, <2>2, <2>3
<1>3. ASSUME NEW d \in Devices
      PROVE  /\ up => run[d].pc \notin {"off", "join"}
             /\ run[d].pc \in {"off", "join"} => inbox[d] = <<>>
  BY <1>1, Peers DEF SessionInv, InSession
<1> QED  BY <1>1, <1>2, <1>3 DEF TypeOK, Types, RowInv

(* Every state of the rows, the attempts and the inboxes is well formed:   *)
(* an attempt that is not connected has nothing in its inbox, a row is     *)
(* there or absent in all its fields, and no inbox grows beyond what one   *)
(* exchange puts there.                                                    *)
THEOREM TypeCorrect == Spec => []TypeOK
BY Invariance, WellTyped, PTL

(* Both endpoints make the same decision, whatever commands, new pairings, *)
(* failures and missed checkpoints there were.                             *)
THEOREM DevicesDecideAlike == Spec => []SameDecision
<1>1. IInv => SameDecision
  BY DEF IInv
<1> QED  BY <1>1, Invariance, PTL

LEMMA StoringIsAllowed ==
  ASSUME IInv, Next, NEW d \in Devices
  PROVE  StoresByPermission(d)
<1>1. Types /\ Types' /\ SeenInv
  BY TypesHold DEF IInv
<1> SUFFICES ASSUME held'[d] # held[d], events' = events, orphan' = orphan
             PROVE  late[d] \/ (Active(rec[d]) /\ Current(d))
  BY DEF StoresByPermission
<1>2. \E e \in Devices : Store(e)
  <2>1. ASSUME NEW e \in Devices, Session(e)
        PROVE  Store(e)
    <3>1. Store(e) \/ held' = held
      BY <2>1 DEF Session, Hello, Greet, Forgotten, Compare, Swap, Prepare, SendChunk, SendEnd, Ack,
         Refused, ReceiveEnd, Closed, Grant, Finish, Request, untouched
    <3> QED  BY <3>1
  <2>2. ASSUME NEW e \in Devices, Upset(e) \/ Control(e) \/ Start(e) \/ Tick(e)
        PROVE  FALSE
    BY <2>2 DEF Upset, StoreFails, LoseRelay, Fails, Control, SetEnabled, Forget, Remove, Command,
       RequestPair, Start, Tick
  <2>3. ASSUME NEW e \in Devices, OrphanEnds(e)
        PROVE  FALSE
    BY <1>1, <2>3 DEF OrphanEnds, Types
  <2>4. ASSUME NEW e \in Devices, NEW k \in Keys, Edit(e, k)
        PROVE  FALSE
    <3>1. events \in Nat /\ events' = events + 1
      BY <1>1, <2>4 DEF Types, Edit, Event
    <3> QED  BY <3>1
  <2>5. ~(Join \/ Cut \/ AcceptPair \/ AckLost)
    BY DEF Join, Cut, AcceptPair, AckLost
  <2> QED  BY <2>1, <2>2, <2>3, <2>4, <2>5 DEF Next
<1>3. PICK e \in Devices : Store(e)
  BY <1>2
<1>4. e = d
  <2>1. held'[Peer(e)] = held[Peer(e)]
    BY <1>1, <1>3, StoreGoes
  <2> QED  BY <2>1, Peers
<1>5. run[d].pc \in {"receive", "request"}
  BY <1>1, <1>3, <1>4, Stored
<1>6. Active(run[d].seen) /\ (late[d] \/ (Current(d) /\ Version(rec[d]) = Version(run[d].seen)))
  BY <1>1, <1>5 DEF SeenInv, InSession, Compared, Past
<1> QED  BY <1>6 DEF Version, Active

(* A paused, forgotten, removed or replaced pairing stores nothing more    *)
(* than the chunk being stored: at once when the command ran in the        *)
(* watcher's process, else from its next tick on.                          *)
THEOREM NothingStoredUnasked == Spec => StoresOnlyWhileAllowed
<1>1. IInv /\ [Next]_vars => [\A d \in Devices : StoresByPermission(d)]_vars
  BY StoringIsAllowed
<1> QED  BY <1>1, Invariance, PTL DEF Spec, StoresOnlyWhileAllowed

LEMMA NothingWanted ==
  ASSUME NEW a \in Manifests, NEW b \in Manifests, Le(a, b)
  PROVE  Wanted(a, b) = {}
<1>1. ASSUME NEW k \in Keys
      PROVE  ~(a[k] > b[k])
  <2>1. a[k] \in Nat /\ b[k] \in Nat /\ a[k] <= b[k]
    BY Numbers DEF Manifests, Le
  <2> QED  BY <2>1
<1> QED  BY <1>1 DEF Wanted

LEMMA AdvanceIsComplete ==
  ASSUME IInv, Next, NEW d \in Devices
  PROVE  CompletedTransfer(d)
<1>1. Types /\ Types' /\ RoleInv /\ BoundInv /\ TransferInv
  BY TypesHold DEF IInv
<1> SUFFICES ASSUME rec'[d].local # rec[d].local, rec'[d].local # Unknown, delta \/ d = "c"
             PROVE  /\ SendsUnder(run[d].dir, d) => Wanted(run[d].local, held[Peer(d)]) = {}
                    /\ SendsUnder(run[d].dir, Peer(d)) => Wanted(run[d].remote, held[d]) = {}
  BY DEF CompletedTransfer
<1>2. Saves(d)
  <2>1. PICK e \in Devices : rec'[Peer(e)] = rec[Peer(e)] /\ (Saves(e) \/ Rewrites(e))
    BY <1>1, RowsChange
  <2>2. e = d
    BY <2>1, Peers
  <2>3. ~Rewrites(d)
    <3>1. Absent.local = Unknown /\ \A id \in Pairings, dir \in Directions : Record(id, dir).local = Unknown
      BY DEF Absent, Record
    <3> QED  BY <3>1 DEF Rewrites
  <2> QED  BY <2>1, <2>2, <2>3
<1>3. run[d].remote # Unknown
  BY <1>1, <1>2, SavedRow DEF Saves
<1>4. run[d].pc \in Past
  BY <1>1, <1>3 DEF BoundInv
<1>5. run[d].pc = "finish"
  BY <1>1, <1>2, <1>4, Peers DEF Saves, Unfinished, RoleInv, Past
<1>6. /\ run[d].local \in Manifests /\ run[d].remote \in Manifests
      /\ held[d] \in Manifests /\ held[Peer(d)] \in Manifests
      /\ run[d].dir \in Directions
  BY <1>1, <1>4, Peers DEF BoundInv, Compared, Types, Attempts
<1>7. /\ SendsUnder(run[d].dir, d) => Delivered(d)
      /\ SendsUnder(run[d].dir, Peer(d)) => Received(d)
  <2>1. Pull(d) = SendsUnder(run[d].dir, "p") /\ Push(d) = SendsUnder(run[d].dir, "c")
    BY <1>6, Directed
  <2>2. CASE d = "p"
    BY <1>1, <1>5, <2>1, <2>2, Peers DEF TransferInv
  <2>3. CASE d = "c"
    BY <1>1, <1>5, <2>1, <2>3, Peers DEF TransferInv
  <2> QED  BY <2>2, <2>3, Peers
<1> QED  BY <1>6, <1>7, NothingWanted DEF Delivered, Received

(* Only completed transfers advance acknowledged digests (ADR 0020): a     *)
(* device that checkpoints a delta sync, or c one of whole workspaces, has *)
(* got all it wanted, and all it had to send is stored by the other.       *)
THEOREM CheckpointsFollowTransfers == Spec => OnlyCompletedAdvance
<1>1. IInv /\ [Next]_vars => [\A d \in Devices : CompletedTransfer(d)]_vars
  BY AdvanceIsComplete
<1> QED  BY <1>1, Invariance, PTL DEF Spec, OnlyCompletedAdvance

LEMMA SameHidesNothing ==
  ASSUME IInv, Next
  PROVE  NothingHidden
<1>1. Types /\ Types' /\ BoundInv /\ SinceInv
  BY TypesHold DEF IInv
<1> SUFFICES ASSUME NEW d \in Devices, verdict'[d] = "same", verdict[d] # "same"
             PROVE  LET mine == run[d].local theirs == Head(inbox[d]).digest
                        p == IF d = "p" THEN mine ELSE theirs
                        c == IF d = "p" THEN theirs ELSE mine
                    IN  /\ Pull(d) => Wanted(p, c) = {}
                        /\ Push(d) => Wanted(c, p) = {}
  BY DEF NothingHidden
<1> DEFINE f == Head(inbox[d])
<1>2. Compare(d) /\ ~Changed(d) /\ run[d].pc = "compare"
  BY <1>1, Decides DEF Decided
<1>3. f \in FramesOf(inbox[d]) /\ f.kind = "snapshot" /\ f \in Frames
  BY <1>1, <1>2, Read DEF Compare
<1>4. /\ run[d].local = run[d].seen.local /\ f.digest = run[d].seen.remote
      /\ f.digest = f.last_local /\ run[d].local = f.last_remote
  BY <1>2 DEF Changed
<1>5. run[d].local \in Manifests /\ f.digest \in Manifests
  <2>1. f.digest \in Manifests
    BY <1>3, FrameTypes DEF SnapshotFrames
  <2> QED  BY <1>1, <1>2, <2>1 DEF BoundInv, Compared
<1> HIDE DEF f
<1>6. \A a, b \in Manifests : Unknown \in Manifests => Wanted(a, b) = {}
  BY UnknownHasNoKeys DEF Wanted
<1>7. CASE d = "c"
  <2>1. run["c"].seen.local # Unknown =>
          /\ Pull("c") => Le(f.digest, run["c"].local)
          /\ Push("c") => Le(run["c"].local, f.digest)
    BY <1>1, <1>2, <1>3, <1>4, <1>7 DEF SinceInv, Compared
  <2>2. /\ Pull("c") => Wanted(f.digest, run["c"].local) = {}
        /\ Push("c") => Wanted(run["c"].local, f.digest) = {}
    BY <1>4, <1>5, <1>6, <1>7, <2>1, NothingWanted
  <2> QED  BY <1>7, <2>2 DEF f
<1>8. CASE d = "p"
  <2>1. f.last_local # Unknown =>
          /\ Pull("p") => Le(run["p"].local, f.digest)
          /\ Push("p") => Le(f.digest, run["p"].local)
    BY <1>1, <1>2, <1>3, <1>4, <1>8 DEF SinceInv
  <2>2. /\ Pull("p") => Wanted(run["p"].local, f.digest) = {}
        /\ Push("p") => Wanted(f.digest, run["p"].local) = {}
    BY <1>4, <1>5, <1>6, <1>8, <2>1, NothingWanted
  <2> QED  BY <1>8, <2>2 DEF f
<1> QED  BY <1>7, <1>8, Peers

(* When the devices find nothing changed, neither holds what the other may *)
(* get and lacks: an incomplete transfer that one of them checkpointed,    *)
(* writes during a transfer or a narrower pairing before never hide it.    *)
THEOREM SameMeansNothingWanted == Spec => NothingIsHidden
<1>1. IInv /\ [Next]_vars => [NothingHidden]_vars
  BY SameHidesNothing
<1> QED  BY <1>1, Invariance, PTL DEF Spec, NothingIsHidden

=============================================================================
