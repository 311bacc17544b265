----------------------------- MODULE SyncPairs ------------------------------
(***************************************************************************)
(* Automatic sync between two paired devices: the pair records and the     *)
(* controls on them (imprint/sync_pairs.py), the session the two devices   *)
(* run over the relay (imprint/sync_ws.py) and the delta transfer          *)
(* (imprint/sync_delta.py), or the transfer of whole workspaces when one   *)
(* of them does not speak it. "p" has the smaller fingerprint: it opens    *)
(* the room and serves, "c" joins.                                         *)
(*                                                                         *)
(* A workspace is the version of each record a device holds, 0 for none:   *)
(* the stamp of a memory, the update time of a source, 1 for a fact. That  *)
(* is its manifest, and its digest is taken for the manifest itself. A     *)
(* step runs from one await that can fail to the next; what a device reads *)
(* from its store or its pair record it reads in the step that uses it.    *)
(* Wire (module Relay) is what the connection promises while it lasts.     *)
(***************************************************************************)
EXTENDS Naturals, Sequences

CONSTANTS
  Keys,             \* the records of the workspace: numbers, sent in their order
  MaxVersion,       \* the highest version a record gets
  MaxEvents,        \* local writes, failures and commands, on both devices
  FirstDirections,  \* the directions the devices may be paired in at first
  NewDirections,    \* and when they are paired anew
  Dashboards        \* devices whose commands come from the process that watches

Directions == {"pull", "push", "both"}  \* as c sees it

ASSUME SyncPairsAssumption ==
  /\ Keys \subseteq Nat /\ MaxVersion \in Nat \ {0} /\ MaxEvents \in Nat
  /\ FirstDirections \cup NewDirections \subseteq Directions

Devices == {"p", "c"}

Peer(d) == IF d = "p" THEN "c" ELSE "p"

Versions == 0..MaxVersion

Manifests == [Keys -> Versions]

Unknown == <<>>  \* no manifest, no digest, no chunk

States == {"absent", "active", "forget_pending"}

VARIABLES
  rec,       \* each device's row for the pairing, id 0 when there is none
  pairing,   \* a pairing the asking device saved and the other did not yet
  held,      \* what each device's workspace holds
  run,       \* each device's attempt
  up,        \* whether the two attempts are connected
  inbox,     \* the frames on their way to each device
  verdict,   \* what each device decided in the session, "none" before
  late,      \* whether another process changed the row since the last tick
  orphan,    \* a chunk that is being stored although its session was cancelled
  delta,     \* whether both devices speak sync_delta.VERSION
  events     \* how many of the events MaxEvents bounds there were

vars == <<rec, pairing, held, run, up, inbox, verdict, late, orphan, delta, events>>

Pairings == 1..(MaxEvents + 1)

Record(id, dir) ==
  [id |-> id, dir |-> dir, state |-> "active", enabled |-> TRUE,
   local |-> Unknown, remote |-> Unknown]

Absent == [Record(0, "both") EXCEPT !.state = "absent", !.enabled = FALSE]

NoPairing == [id |-> 0, dir |-> "both", asker |-> "p"]

(* An attempt: the id, direction and version (enabled, state) it started   *)
(* with, the row as the exchange read it, the two manifests, the keys left *)
(* to send and the chunk prepared.                                         *)
Idle ==
  [pc |-> "off", id |-> 0, dir |-> "both", version |-> <<FALSE, "absent">>, seen |-> Absent,
   local |-> Unknown, remote |-> Unknown, todo |-> {}, ahead |-> Unknown]

Stages ==
  {"off", "join", "hello", "greet", "forget", "compare", "grant", "request", "swap",
   "send", "ack", "receive", "finish"}

Records ==
  [id : Pairings \cup {0}, dir : Directions, state : States, enabled : BOOLEAN,
   local : Manifests \cup {Unknown}, remote : Manifests \cup {Unknown}]

Attempts ==
  [pc : Stages, id : Pairings \cup {0}, dir : Directions, version : BOOLEAN \X States,
   seen : Records, local : Manifests \cup {Unknown}, remote : Manifests \cup {Unknown},
   todo : SUBSET Keys, ahead : Manifests \cup {Unknown}]

TypeOK ==
  /\ \A d \in Devices :
       /\ rec[d] \in Records /\ (rec[d].id = 0) = (rec[d].state = "absent")
       /\ run[d] \in Attempts
       /\ up => run[d].pc \notin {"off", "join"}
       /\ run[d].pc \in {"off", "join"} => inbox[d] = <<>>
       /\ Len(inbox[d]) <= 3
  /\ pairing.id \in Pairings \cup {0}
  /\ held \in [Devices -> Manifests]
  /\ verdict \in [Devices -> {"none", "forget", "idle", "same", "changed"}]
  /\ late \in [Devices -> BOOLEAN]
  /\ orphan \in [Devices -> Manifests \cup {Unknown}]
  /\ up \in BOOLEAN /\ delta \in BOOLEAN
  /\ events \in 0..MaxEvents

Init ==
  /\ \E dir \in FirstDirections : rec = [d \in Devices |-> Record(1, dir)]
  /\ pairing = NoPairing
  /\ \E o \in Devices : held = [d \in Devices |-> [k \in Keys |-> IF d = o THEN 1 ELSE 0]]
  /\ run = [d \in Devices |-> Idle]
  /\ up = FALSE
  /\ inbox = [d \in Devices |-> <<>>]
  /\ verdict = [d \in Devices |-> "none"]
  /\ late = [d \in Devices |-> FALSE]
  /\ orphan = [d \in Devices |-> Unknown]
  /\ delta \in BOOLEAN
  /\ events = 0

-----------------------------------------------------------------------------
(* Slips a change to the code could make, each the mutant of a definition  *)
(* below; no action uses them.                                             *)

(* The importer would only take records it does not hold. *)
KeepsOwn(a, b) == [k \in Keys |-> IF a[k] = 0 THEN b[k] ELSE a[k]]

(* The watcher would skip rows that may not transfer. *)
StartActive(d) ==
  /\ run[d].pc = "off" /\ rec[d].state = "active" /\ rec[d].enabled
  /\ run' = [run EXCEPT ![d] =
       [Idle EXCEPT !.pc = "join", !.id = rec[d].id, !.dir = rec[d].dir, !.version = <<TRUE, "active">>]]
  /\ late' = [late EXCEPT ![d] = FALSE]
  /\ UNCHANGED <<rec, pairing, held, up, inbox, verdict, orphan, delta, events>>

(* A device would look at its own row only. *)
ForgetsAlone(d) == run[d].seen.state = "forget_pending"

ChangedHere(d) ==
  run[d].local # run[d].seen.local \/ Head(inbox[d]).digest # run[d].seen.remote

(* The sync would count as reconciled once p's own records are stored. *)
UnfinishedSend == delta /\ run["p"].pc \in {"request", "swap", "send", "ack"}

(* Running attempts would be left to the next tick by their own process. *)
LeaveToTheTick(d) ==
  /\ late' = [late EXCEPT ![d] = d \notin Dashboards /\ run[d].pc # "off"]
  /\ UNCHANGED <<run, up, inbox, orphan>>

-----------------------------------------------------------------------------
Active(r) == r.state = "active" /\ r.enabled

Version(r) == <<r.enabled, r.state>>

(* The attempt's row is still there. *)
Current(d) == rec[d].id = run[d].id

Wanted(local, remote) == {k \in Keys : local[k] > remote[k]}

Only(k, version) == [j \in Keys |-> IF j = k THEN version ELSE 0]

(* The importer keeps what is newer. *)
Newest(a, b) == [k \in Keys |-> IF b[k] > a[k] THEN b[k] ELSE a[k]]

Pull(d) == run[d].dir \in {"pull", "both"}
Push(d) == run[d].dir \in {"push", "both"}

SendsUnder(dir, d) == dir = "both" \/ dir = (IF d = "p" THEN "pull" ELSE "push")

Sends(d) == SendsUnder(run[d].dir, d)

(* The provider's records go first. *)
FirstStage(d) ==
  IF Pull(d) = (d = "p") THEN "send" ELSE "receive"

Goto(d, to) == run' = [run EXCEPT ![d].pc = to]

Got(d, kind) == inbox[d] # <<>> /\ Head(inbox[d]).kind = kind

Frame(kind) == [kind |-> kind]

Chunk(kind, records) == [kind |-> kind, records |-> records]

Status(r) == [kind |-> "status", state |-> r.state, enabled |-> Active(r)]

Snapshot(d, digest) ==
  [kind |-> "snapshot", digest |-> digest,
   last_local |-> run[d].seen.local, last_remote |-> run[d].seen.remote]

(* What is sent on a connection that is down is lost. *)
Send(d, frames) ==
  inbox' = [inbox EXCEPT ![Peer(d)] = IF up THEN @ \o frames ELSE @]

(* d takes the first frame of its inbox and answers it. *)
Answer(d, frames) ==
  inbox' = [inbox EXCEPT ![d] = Tail(@), ![Peer(d)] = IF up THEN @ \o frames ELSE @]

(* The attempt ends and its connection closes: the other device can still  *)
(* read what was sent to it.                                               *)
LeaveSaying(d, frames) ==
  /\ run' = [run EXCEPT ![d] = Idle]
  /\ up' = FALSE
  /\ inbox' = [inbox EXCEPT ![d] = <<>>, ![Peer(d)] = IF up THEN @ \o frames ELSE @]

Leave(d) == LeaveSaying(d, <<>>)

(* What a step of a session that goes on leaves alone. *)
untouched == <<rec, pairing, held, up, verdict, late, orphan, delta, events>>

Event == events < MaxEvents /\ events' = events + 1

-----------------------------------------------------------------------------
(* The watcher of a device starts an attempt for the row; both wait in the *)
(* relay room of the pairing, and are connected.                           *)

Start(d) ==
  /\ run[d].pc = "off" /\ rec[d].id # 0
  /\ run' = [run EXCEPT ![d] =
       [Idle EXCEPT !.pc = "join", !.id = rec[d].id, !.dir = rec[d].dir, !.version = Version(rec[d])]]
  /\ late' = [late EXCEPT ![d] = FALSE]
  /\ UNCHANGED <<rec, pairing, held, up, inbox, verdict, orphan, delta, events>>

Join ==
  /\ \A d \in Devices : run[d].pc = "join"
  /\ run["p"].id = run["c"].id
  /\ run' = [d \in Devices |-> [run[d] EXCEPT !.pc = "hello"]]
  /\ up' = TRUE
  /\ verdict' = [d \in Devices |-> "none"]
  /\ UNCHANGED <<rec, pairing, held, inbox, late, orphan, delta, events>>

-----------------------------------------------------------------------------
(* exchange: the row is read again, pause and forget are told, then the    *)
(* digests decide.                                                         *)

Hello(d) ==
  /\ run[d].pc = "hello"
  /\ IF Current(d)
       THEN /\ run' = [run EXCEPT ![d].pc = "greet", ![d].seen = rec[d]]
            /\ Send(d, IF d = "p" THEN <<Status(rec[d])>> ELSE <<>>)
            /\ UNCHANGED up
       ELSE Leave(d)
  /\ UNCHANGED <<rec, pairing, held, verdict, late, orphan, delta, events>>

(* c answers with its own status before it decides. *)
GreetReply(d) == IF d = "c" THEN <<Status(run[d].seen)>> ELSE <<>>

Forgetting(d) ==
  "forget_pending" \in {run[d].seen.state, Head(inbox[d]).state}

Agreed(d) == Active(run[d].seen) /\ Head(inbox[d]).enabled

Greet(d) ==
  /\ run[d].pc = "greet" /\ Got(d, "status")
  /\ \/ /\ Forgetting(d)
        /\ Answer(d, Append(GreetReply(d), Frame("forgotten")))
        /\ Goto(d, "forget")
        /\ verdict' = [verdict EXCEPT ![d] = "forget"]
        /\ UNCHANGED up
     \/ /\ ~Forgetting(d) /\ Current(d) /\ Agreed(d)
        /\ Answer(d, Append(GreetReply(d), Snapshot(d, held[d])))
        /\ run' = [run EXCEPT ![d].pc = "compare", ![d].local = held[d]]
        /\ UNCHANGED <<up, verdict>>
     \/ /\ ~Forgetting(d) /\ Current(d) /\ ~Agreed(d)
        /\ LeaveSaying(d, GreetReply(d))
        /\ verdict' = [verdict EXCEPT ![d] = "idle"]
     \/ /\ ~Forgetting(d) /\ ~Current(d)
        /\ LeaveSaying(d, GreetReply(d))
        /\ UNCHANGED verdict
  /\ UNCHANGED <<rec, pairing, held, late, orphan, delta, events>>

(* remove_peer, once the other device acknowledged. *)
Forgotten(d) ==
  /\ run[d].pc = "forget" /\ Got(d, "forgotten")
  /\ rec' = [rec EXCEPT ![d] = Absent]
  /\ Leave(d)
  /\ UNCHANGED <<pairing, held, verdict, late, orphan, delta, events>>

Changed(d) ==
  LET mine == run[d] theirs == Head(inbox[d]) IN
  \/ mine.local # mine.seen.local \/ theirs.digest # mine.seen.remote
  \/ theirs.digest # theirs.last_local \/ mine.local # theirs.last_remote

Compare(d) ==
  /\ run[d].pc = "compare" /\ Got(d, "snapshot")
  /\ IF Changed(d)
       THEN /\ run' = [run EXCEPT ![d].pc = IF d = "p" THEN "request" ELSE "grant",
                                  ![d].remote = Head(inbox[d]).digest]
            /\ Answer(d, IF d = "p" THEN <<Frame("grant")>> ELSE <<>>)
            /\ UNCHANGED up
       ELSE Leave(d)
  /\ verdict' = [verdict EXCEPT ![d] = IF Changed(d) THEN "changed" ELSE "same"]
  /\ UNCHANGED <<rec, pairing, held, late, orphan, delta, events>>

-----------------------------------------------------------------------------
(* The transfer. c asks for it, p serves: only what the other lacks, chunk *)
(* by chunk, or whole workspaces.                                          *)

Grant ==
  /\ run["c"].pc = "grant" /\ Got("c", "grant")
  /\ \/ delta /\ Answer("c", <<Frame("request")>>) /\ Goto("c", "swap")
     \/ ~delta /\ Pull("c") /\ Answer("c", <<Frame("pull")>>) /\ Goto("c", "receive")
     \/ ~delta /\ ~Pull("c") /\ Answer("c", <<Chunk("push", held["c"])>>) /\ Goto("c", "ack")
  /\ UNCHANGED untouched

Request ==
  /\ run["p"].pc = "request"
  /\ \/ Got("p", "request") /\ Answer("p", <<Frame("manifest")>>) /\ Goto("p", "swap")
     \/ Got("p", "pull") /\ Answer("p", <<Chunk("chunk", held["p"])>>) /\ UNCHANGED run
  /\ UNCHANGED untouched

Swap(d) ==
  /\ run[d].pc = "swap" /\ Got(d, "manifest")
  /\ Answer(d, IF d = "c" THEN <<Frame("manifest")>> ELSE <<>>)
  /\ run' = [run EXCEPT ![d].pc = FirstStage(d),
                        ![d].todo = IF Sends(d) THEN Wanted(run[d].local, run[d].remote) ELSE {}]
  /\ UNCHANGED untouched

(* The next chunk is read while the other device stores the last one. *)
Prepare(d) ==
  /\ run[d].pc \in {"send", "ack"}
  /\ run[d].ahead = Unknown /\ run[d].todo # {}
  /\ LET k == CHOOSE k \in run[d].todo : \A j \in run[d].todo : k <= j
     IN  run' = [run EXCEPT ![d].ahead = Only(k, held[d][k]), ![d].todo = @ \ {k}]
  /\ UNCHANGED <<inbox, untouched>>

SendChunk(d) ==
  /\ run[d].pc = "send" /\ run[d].ahead # Unknown
  /\ Send(d, <<Chunk("chunk", run[d].ahead)>>)
  /\ run' = [run EXCEPT ![d].pc = "ack", ![d].ahead = Unknown]
  /\ UNCHANGED untouched

SendEnd(d) ==
  /\ run[d].pc = "send" /\ run[d].ahead = Unknown /\ run[d].todo = {} /\ up
  /\ Send(d, <<Frame("end")>>)
  /\ Goto(d, IF d = "p" /\ Push(d) THEN "receive" ELSE "finish")
  /\ UNCHANGED untouched

Ack(d) ==
  /\ run[d].pc = "ack" /\ Got(d, "ack")
  /\ Answer(d, <<>>)
  /\ Goto(d, IF delta THEN "send" ELSE "finish")
  /\ UNCHANGED untouched

Refused(d) ==
  /\ run[d].pc = "ack" /\ Got(d, "refused")
  /\ Leave(d)
  /\ UNCHANGED <<rec, pairing, held, verdict, late, orphan, delta, events>>

(* d has records to store. *)
Storing(d) ==
  \/ run[d].pc = "receive" /\ Got(d, "chunk")
  \/ run[d].pc = "request" /\ Got(d, "push")

(* A device that stored a whole workspace goes on to send its own. *)
Store(d) ==
  /\ Storing(d)
  /\ held' = [held EXCEPT ![d] = Newest(@, Head(inbox[d]).records)]
  /\ \/ (delta \/ d = "p") /\ Answer(d, <<Frame("ack")>>) /\ UNCHANGED run
     \/ ~delta /\ d = "c" /\ Push(d) /\ Answer(d, <<Chunk("push", held'[d])>>) /\ Goto(d, "ack")
     \/ ~delta /\ d = "c" /\ ~Push(d) /\ Answer(d, <<>>) /\ Goto(d, "finish")
  /\ UNCHANGED <<rec, pairing, up, verdict, late, orphan, delta, events>>

StoreFails(d) ==
  /\ Storing(d) /\ Event
  /\ LeaveSaying(d, IF delta \/ d = "p" THEN <<Frame("refused")>> ELSE <<>>)
  /\ UNCHANGED <<rec, pairing, held, verdict, late, orphan, delta>>

ReceiveEnd(d) ==
  /\ run[d].pc = "receive" /\ Got(d, "end")
  /\ Answer(d, <<>>)
  /\ Goto(d, IF d = "c" /\ Push(d) THEN "send" ELSE "finish")
  /\ UNCHANGED untouched

-----------------------------------------------------------------------------
(* The end of a session, and _attempt's checkpoint of a session that ended *)
(* with "done": the digests taken before the transfer, when the exchange   *)
(* was over.                                                               *)

Checkpoint(d) ==
  rec' = IF Current(d) /\ Active(rec[d])
           THEN [rec EXCEPT ![d].local = IF run[d].remote = Unknown THEN Unknown ELSE run[d].local,
                            ![d].remote = run[d].remote]
           ELSE rec

Finish ==
  /\ run["c"].pc = "finish"
  /\ Checkpoint("c") /\ Leave("c")
  /\ UNCHANGED <<pairing, held, verdict, late, orphan, delta, events>>

(* serve_session's flag: a paired delta sync is not reconciled yet. *)
Unfinished == delta /\ run["p"].pc \in {"request", "swap", "send", "ack", "receive"}

(* A device finds the connection closed. To p that is the regular end.     *)
Closed(d) ==
  /\ run[d].pc \notin {"off", "join", "hello"} /\ ~up
  /\ inbox[d] = <<>> \/ run[d].pc = "send"
  /\ d = "c" => run[d].pc # "finish"
  /\ IF d = "p" /\ ~Unfinished THEN Checkpoint(d) ELSE UNCHANGED rec
  /\ Leave(d)
  /\ UNCHANGED <<pairing, held, verdict, late, orphan, delta, events>>

-----------------------------------------------------------------------------
(* What happens to the two devices.                                        *)

(* A device writes a record: a new one, or a newer version of it. *)
Edit(d, k) ==
  /\ held[d][k] < MaxVersion /\ Event
  /\ held' = [held EXCEPT ![d][k] = @ + 1]
  /\ UNCHANGED <<rec, pairing, run, up, inbox, verdict, late, orphan, delta>>

(* The connection is lost with the last frames of each direction. *)
Cut ==
  /\ up /\ Event
  /\ up' = FALSE
  /\ \E n \in [Devices -> 0..3] :
       /\ \A d \in Devices : n[d] <= Len(inbox[d])
       /\ inbox' = [d \in Devices |-> SubSeq(inbox[d], 1, n[d])]
  /\ UNCHANGED <<rec, pairing, held, run, verdict, late, orphan, delta>>

(* A device in the room loses its connection to the relay. *)
LoseRelay(d) ==
  /\ run[d].pc = "join" /\ Event
  /\ IF d = "p" THEN Checkpoint(d) ELSE UNCHANGED rec
  /\ Leave(d)
  /\ UNCHANGED <<pairing, held, verdict, late, orphan, delta>>

(* The process dies, or an attempt times out or fails. *)
Fails(d) ==
  /\ run[d].pc # "off" /\ Event
  /\ Leave(d)
  /\ UNCHANGED <<rec, pairing, held, verdict, late, orphan, delta>>

-----------------------------------------------------------------------------
(* An attempt is cancelled; the import of a chunk it may be storing runs   *)
(* in a thread that stops after it.                                        *)
Cancelled(d) ==
  /\ Leave(d)
  /\ orphan' = [orphan EXCEPT ![d] = IF Storing(d) THEN Head(inbox[d]).records ELSE @]

OrphanEnds(d) ==
  /\ orphan[d] # Unknown
  /\ held' \in {held, [held EXCEPT ![d] = Newest(@, orphan[d])]}
  /\ orphan' = [orphan EXCEPT ![d] = Unknown]
  /\ UNCHANGED <<rec, pairing, run, up, inbox, verdict, late, delta, events>>

(* The watcher's tick finds the row of a running attempt changed or gone. *)
Tick(d) ==
  /\ run[d].pc # "off"
  /\ ~Current(d) \/ Version(rec[d]) # run[d].version
  /\ Cancelled(d)
  /\ late' = [late EXCEPT ![d] = FALSE]
  /\ UNCHANGED <<rec, pairing, held, verdict, delta, events>>

(* cancel_peer, in the process that runs the watcher; an attempt of        *)
(* another process sees the row at its next tick.                          *)
CancelPeer(d) ==
  \/ d \in Dashboards /\ run[d].pc # "off" /\ Cancelled(d) /\ UNCHANGED late
  \/ /\ d \notin Dashboards \/ run[d].pc = "off"
     /\ late' = [late EXCEPT ![d] = run[d].pc # "off"]
     /\ UNCHANGED <<run, up, inbox, orphan>>

Command(d) ==
  /\ rec[d].id # 0 /\ Event
  /\ CancelPeer(d)
  /\ UNCHANGED <<pairing, held, verdict, delta>>

(* set_enabled checks the state before its transaction: a forget may come  *)
(* in between.                                                             *)
SetEnabled(d) ==
  /\ rec' = [rec EXCEPT ![d].enabled = ~@]
  /\ Command(d)

Forget(d) ==
  /\ rec' = [rec EXCEPT ![d].state = "forget_pending", ![d].enabled = FALSE]
  /\ Command(d)

Remove(d) ==
  /\ rec' = [rec EXCEPT ![d] = Absent]
  /\ Command(d)

(* The devices are paired anew: the asker saves, then acknowledges and the *)
(* other one saves. Neither cancels attempts of the row it replaces.       *)
RequestPair(d, dir) ==
  /\ pairing.id = 0 /\ Event
  /\ LET id == events + 2 IN
     /\ pairing' = [id |-> id, dir |-> dir, asker |-> d]
     /\ rec' = [rec EXCEPT ![d] = Record(id, dir)]
  /\ late' = [late EXCEPT ![d] = run[d].pc # "off"]
  /\ UNCHANGED <<held, run, up, inbox, verdict, orphan, delta>>

AcceptPair ==
  LET d == Peer(pairing.asker) IN
  /\ pairing.id # 0
  /\ rec' = [rec EXCEPT ![d] = Record(pairing.id, pairing.dir)]
  /\ late' = [late EXCEPT ![d] = run[d].pc # "off"]
  /\ pairing' = NoPairing
  /\ UNCHANGED <<held, run, up, inbox, verdict, orphan, delta, events>>

AckLost ==
  /\ pairing.id # 0 /\ Event
  /\ pairing' = NoPairing
  /\ UNCHANGED <<rec, held, run, up, inbox, verdict, late, orphan, delta>>

-----------------------------------------------------------------------------
Session(d) ==
  \/ Hello(d) \/ Greet(d) \/ Forgotten(d) \/ Compare(d)
  \/ Swap(d) \/ Prepare(d) \/ SendChunk(d) \/ SendEnd(d) \/ Ack(d) \/ Refused(d)
  \/ Store(d) \/ ReceiveEnd(d) \/ Closed(d)
  \/ d = "c" /\ (Grant \/ Finish)
  \/ d = "p" /\ Request

Upset(d) == StoreFails(d) \/ LoseRelay(d) \/ Fails(d)

Control(d) ==
  \/ SetEnabled(d) \/ Forget(d) \/ Remove(d)
  \/ \E dir \in NewDirections : RequestPair(d, dir)

Next ==
  \/ \E d \in Devices :
       \/ Start(d) \/ Tick(d) \/ Session(d)
       \/ Upset(d) \/ OrphanEnds(d) \/ Control(d)
       \/ \E k \in Keys : Edit(d, k)
  \/ Join \/ Cut \/ AcceptPair \/ AckLost

Spec == Init /\ [][Next]_vars

(* Both devices stay on and reach the relay: their watchers start and      *)
(* cancel attempts, and an attempt takes its steps. Nobody need write,     *)
(* give a command or meet a failure.                                       *)
Fairness ==
  /\ \A d \in Devices : WF_vars(Start(d) \/ Session(d)) /\ WF_vars(Tick(d))
  /\ WF_vars(Join)

FairSpec == Spec /\ Fairness

-----------------------------------------------------------------------------
(* Both endpoints make the same decision (exchange): no device waits for a *)
(* transfer the other does not start, and none forgets or pauses alone,    *)
(* although each decides from its own row and the other's may have missed  *)
(* a checkpoint.                                                           *)
SameDecision ==
  "none" \notin {verdict["p"], verdict["c"]} => verdict["p"] = verdict["c"]

(* When the devices find nothing changed, neither holds what the other may *)
(* get and lacks: an incomplete transfer that one of them checkpointed,    *)
(* writes during a transfer or a narrower pairing before never hide it.    *)
NothingHidden ==
  \A d \in Devices :
    verdict'[d] = "same" /\ verdict[d] # "same" =>
      LET mine == run[d].local theirs == Head(inbox[d]).digest
          p == IF d = "p" THEN mine ELSE theirs
          c == IF d = "p" THEN theirs ELSE mine
      IN  /\ Pull(d) => Wanted(p, c) = {}
          /\ Push(d) => Wanted(c, p) = {}

NothingIsHidden == [][NothingHidden]_vars

(* "Only completed transfers advance acknowledged digests" (ADR 0020): a   *)
(* device that checkpoints a delta sync, or c one of whole workspaces, has *)
(* got all it wanted, and all it had to send is stored by the other.       *)
CompletedTransfer(d) ==
  rec'[d].id = rec[d].id /\ rec'[d].local # rec[d].local /\ rec'[d].local # Unknown /\ (delta \/ d = "c") =>
    LET mine == run[d].local theirs == run[d].remote IN
    /\ SendsUnder(run[d].dir, d) => Wanted(mine, held[Peer(d)]) = {}
    /\ SendsUnder(run[d].dir, Peer(d)) => Wanted(theirs, held[d]) = {}

OnlyCompletedAdvance == [][\A d \in Devices : CompletedTransfer(d)]_vars

(* A paused, forgotten, removed or replaced pairing stores nothing more    *)
(* than the chunk being stored: at once when the command ran in the        *)
(* watcher's process, else from its next tick on (docs/sync.md).           *)
StoresByPermission(d) ==
  held'[d] # held[d] /\ events' = events /\ orphan' = orphan =>
    late[d] \/ (Active(rec[d]) /\ Current(d))

StoresOnlyWhileAllowed == [][\A d \in Devices : StoresByPermission(d)]_vars

(* A forget ends while both devices are on, unless the other one no longer *)
(* has the pairing and cannot be told.                                     *)
ForgetPending ==
  rec["p"].id = rec["c"].id /\ \E d \in Devices : rec[d].state = "forget_pending"

ForgetEnds == ForgetPending ~> ~ForgetPending

InSync ==
  /\ rec["p"].dir \in {"pull", "both"} => Wanted(held["p"], held["c"]) = {}
  /\ rec["p"].dir \in {"push", "both"} => Wanted(held["c"], held["p"]) = {}

Paired == rec["p"].id = rec["c"].id /\ \A d \in Devices : Active(rec[d])

(* Once nobody writes and nothing fails any more, devices that stay paired *)
(* come to hold the same, whatever was interrupted before.                 *)
Converges == <>[](Paired => InSync)

=============================================================================
