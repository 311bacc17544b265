------------------------------ MODULE Tagging -------------------------------
(***************************************************************************)
(* The tags of the memories two paired devices hold: the marker of a       *)
(* memory that waits for LLM tagging, the background job and "imprint      *)
(* retag", which classify memories one by one (imprint/tag_backlog.py,     *)
(* imprint/cli_retag.py, imprint/vectorstore.py), and the records and      *)
(* markers a sync session carries (imprint/sync_delta.py). Storing,        *)
(* deleting and importing take no queue lock: they happen between any two  *)
(* steps of the tagger.                                                    *)
(*                                                                         *)
(* A copy of a memory is its stamp tagged_at, its tags (those it was       *)
(* stored with, or the device and number of a classification) and its      *)
(* marker tag_pending. A session's control is SyncPairs; here it is a      *)
(* session that starts while the manifests differ and may be lost. The     *)
(* import of the chunk it then stores ends before the next session starts. *)
(***************************************************************************)
EXTENDS Naturals

CONSTANTS
  Memories,        \* the memories there may be
  Recorders,       \* the devices whose commands store memories
  FirstDeferring,  \* the devices that may run LLM tagging at first: a set of sets
  Clocks,          \* what the two clocks may show at first: device -> Nat
  Stride,          \* the time a classification takes, in the unit stamps are moved by
  MaxEvents        \* deletions, retags, stops, lost sessions and changed settings

Devices == {"p", "c"}

Peer(d) == IF d = "p" THEN "c" ELSE "p"

ASSUME TaggingAssumption ==
  /\ Recorders \subseteq Devices /\ FirstDeferring \subseteq SUBSET Devices
  /\ Clocks \subseteq [Devices -> Nat]
  /\ Stride \in Nat \ {0} /\ MaxEvents \in Nat

VARIABLES
  copy,       \* device -> memory -> the copy it holds
  storing,    \* device -> memory -> whether, and how marked, it is being stored
  deferring,  \* the devices that run LLM tagging (tagger.llm)
  peer_tags,  \* the devices whose peer said it runs LLM tagging
  clock,      \* what each device's clock shows
  tagger,     \* the tagging process of each device, one under the queue lock
  session,    \* the sync session
  events      \* how many of the events MaxEvents bounds there were

vars == <<copy, storing, deferring, peer_tags, clock, tagger, session, events>>

AsStored == <<"stored", 0>>

Absent == [tagged_at |-> 0, tags |-> <<>>, tag_pending |-> FALSE]

Off ==
  [at |-> "off", job |-> "drain", page |-> {}, seen |-> {}, memory |-> {}, previous |-> 0]

NoSession ==
  [at |-> "none", from |-> "p", last |-> FALSE, lost |-> FALSE,
   want |-> [d \in Devices |-> {}], tell |-> [d \in Devices |-> {}],
   memory |-> {}, record |-> Absent, known |-> Absent, marks |-> {}]

Copies ==
  [tagged_at : Nat, tags : {<<>>, AsStored} \cup (Devices \X Nat), tag_pending : BOOLEAN]

(* A copy that waits for its first classification. *)
Waits(copied) == copied.tag_pending /\ copied.tagged_at = 0

Held(d) == {m \in Memories : copy[d][m] # Absent}

Marking(d) == d \in deferring \cup peer_tags

Pending(d) == {m \in Memories : copy[d][m].tag_pending}

TypeOK ==
  /\ \A d \in Devices, m \in Memories :
       /\ copy[d][m] \in Copies
       /\ copy[d][m].tags \in {<<>>, AsStored} <=> copy[d][m].tagged_at = 0
       /\ copy[d][m].tags = <<>> => copy[d][m] = Absent
  /\ storing \in [Devices -> [Memories -> {"no", "marked", "unmarked"}]]
  /\ {deferring, peer_tags} \subseteq SUBSET Devices
  /\ clock \in [Devices -> Nat]
  /\ \A d \in Devices :
       /\ tagger[d].at \in {"off", "page", "choose", "classify", "write"}
       /\ tagger[d].page \cup tagger[d].seen \cup tagger[d].memory \subseteq Memories
  /\ session.at \in {"none", "send", "import", "store", "adopt", "mark"}
  /\ session.lost => session.at \in {"store", "mark"}
  /\ {session.record, session.known} \subseteq Copies
  /\ events \in 0..MaxEvents

Init ==
  /\ copy = [d \in Devices |-> [m \in Memories |-> Absent]]
  /\ storing = [d \in Devices |-> [m \in Memories |-> "no"]]
  /\ deferring \in FirstDeferring
  /\ peer_tags = {}
  /\ clock \in Clocks
  /\ tagger = [d \in Devices |-> Off]
  /\ session = NoSession
  /\ events = 0

-----------------------------------------------------------------------------
Counts == events < MaxEvents /\ events' = events + 1

Larger(a, b) == IF a > b THEN a ELSE b

-----------------------------------------------------------------------------
(* Slips a change to the code could make, each the mutant of a definition  *)
(* below; no action uses them.                                             *)

(* The stamp would be the later of the two, not past the previous one. *)
NotPast(d) == Larger(clock[d], tagger[d].previous)

(* Only missing memories would be sent, as before memories had stamps. *)
OnlyMissing(local, remote) == DOMAIN local \ DOMAIN remote

(* The memories that wait would not be told. *)
TellNothing ==
  LET s == session IN
  /\ s.at = "send" /\ s.want[s.from] = {} /\ s.tell[s.from] # {}
  /\ session' = [s EXCEPT !.tell[s.from] = {}]
  /\ UNCHANGED <<copy, storing, deferring, peer_tags, clock, tagger, events>>

-----------------------------------------------------------------------------
(* A command that stores asks whether to mark (this device or a paired one *)
(* tags), and skips a memory that is held...                               *)
StoreLooks(d, m) ==
  /\ d \in Recorders /\ copy[d][m] = Absent /\ storing[d][m] = "no"
  /\ storing' = [storing EXCEPT ![d][m] = IF Marking(d) THEN "marked" ELSE "unmarked"]
  /\ UNCHANGED <<copy, deferring, peer_tags, clock, tagger, session, events>>

(* ...and once it is embedded writes it, with its deterministic tags, over *)
(* whatever is there by now.                                               *)
StoreWrites(d, m) ==
  /\ storing[d][m] # "no"
  /\ copy' = [copy EXCEPT ![d][m] =
       [tagged_at |-> 0, tags |-> AsStored, tag_pending |-> storing[d][m] = "marked"]]
  /\ storing' = [storing EXCEPT ![d][m] = "no"]
  /\ UNCHANGED <<deferring, peer_tags, clock, tagger, session, events>>

Delete(d, m) ==
  /\ copy[d][m] # Absent /\ Counts
  /\ copy' = [copy EXCEPT ![d][m] = Absent]
  /\ UNCHANGED <<storing, deferring, peer_tags, clock, tagger, session>>

(* tagger.llm is turned on or off. *)
SetLlm(d) ==
  /\ Counts
  /\ deferring' = IF d \in deferring THEN deferring \ {d} ELSE deferring \cup {d}
  /\ UNCHANGED <<copy, storing, peer_tags, clock, tagger, session>>

-----------------------------------------------------------------------------
(* The dispatcher starts the background job while memories wait. *)
RunStarts(d) ==
  /\ tagger[d].at = "off" /\ d \in deferring /\ Pending(d) # {}
  /\ tagger' = [tagger EXCEPT ![d] = [Off EXCEPT !.at = "page"]]
  /\ UNCHANGED <<copy, storing, deferring, peer_tags, clock, session, events>>

(* "imprint retag": every memory, or those no LLM has tagged. It takes the *)
(* queue lock, which stops a background job.                               *)
Retag(d) ==
  /\ tagger[d].job = "drain" /\ Counts
  /\ \E all \in BOOLEAN :
       LET page == {m \in Held(d) : all \/ copy[d][m].tags = AsStored}
       IN  /\ page # {}
           /\ tagger' = [tagger EXCEPT ![d] = [Off EXCEPT !.at = "choose", !.job = "retag", !.page = page]]
  /\ UNCHANGED <<copy, storing, deferring, peer_tags, clock, session>>

(* The memories on the backlog; the job ends when there are none. *)
ReadPage(d) ==
  /\ tagger[d].at = "page"
  /\ tagger' = [tagger EXCEPT ![d] =
       IF Pending(d) = {} THEN Off ELSE [@ EXCEPT !.at = "choose", !.page = Pending(d)]]
  /\ UNCHANGED <<copy, storing, deferring, peer_tags, clock, session, events>>

(* The next memory of the page is classified. The background job ends      *)
(* instead when tagging was turned off, and fails on a memory it tagged    *)
(* before.                                                                 *)
Choose(d) ==
  LET t == tagger[d] IN
  /\ t.at = "choose"
  /\ \/ /\ t.page = {}
        /\ tagger' = [tagger EXCEPT ![d] = IF t.job = "drain" THEN [@ EXCEPT !.at = "page"] ELSE Off]
     \/ \E m \in t.page :
          tagger' = [tagger EXCEPT ![d] =
            IF t.job = "drain" /\ (d \notin deferring \/ m \in t.seen) THEN Off
            ELSE [@ EXCEPT !.at = "classify", !.page = @ \ {m}, !.seen = @ \cup {m}, !.memory = {m}]]
  /\ UNCHANGED <<copy, storing, deferring, peer_tags, clock, session, events>>

(* set_classifications, once the LLM answered: the stamp to move past... *)
ReadStamp(d) ==
  /\ tagger[d].at = "classify"
  /\ \E m \in tagger[d].memory :
       tagger' = [tagger EXCEPT ![d].at = "write", ![d].previous = copy[d][m].tagged_at]
  /\ UNCHANGED <<copy, storing, deferring, peer_tags, clock, session, events>>

NewStamp(d) == Larger(clock[d], tagger[d].previous + 1)

(* ...and the one update that writes tags and stamp and clears the marker. *)
(* It fails for a memory that is gone: the background job passes over it.  *)
WriteTags(d) ==
  LET t == tagger[d] IN
  /\ t.at = "write"
  /\ \E m \in t.memory :
       \/ /\ copy[d][m] # Absent
          /\ copy' = [copy EXCEPT ![d][m] =
               [tagged_at |-> NewStamp(d), tags |-> <<d, clock[d]>>, tag_pending |-> FALSE]]
          /\ clock' = [clock EXCEPT ![d] = @ + Stride]
          /\ tagger' = [tagger EXCEPT ![d].at = "choose", ![d].memory = {}, ![d].previous = 0]
       \/ /\ copy[d][m] = Absent
          /\ tagger' = [tagger EXCEPT ![d] =
               IF t.job = "drain" THEN [@ EXCEPT !.at = "choose", !.memory = {}, !.previous = 0] ELSE Off]
          /\ UNCHANGED <<copy, clock>>
  /\ UNCHANGED <<storing, deferring, peer_tags, session, events>>

(* The job steps aside, is stopped or dies. *)
Stop(d) ==
  /\ tagger[d].at # "off" /\ Counts
  /\ tagger' = [tagger EXCEPT ![d] = Off]
  /\ UNCHANGED <<copy, storing, deferring, peer_tags, clock, session>>

-----------------------------------------------------------------------------
(* A manifest: the stamp of each memory, and the memories that wait. *)
Manifest(d) ==
  [memories |-> [m \in Held(d) |-> copy[d][m].tagged_at],
   backlog |-> {m \in Memories : Waits(copy[d][m])}]

(* wanted: held here, and missing there or older there. *)
Wanted(local, remote) ==
  {m \in DOMAIN local : IF m \in DOMAIN remote THEN local[m] > remote[m] ELSE TRUE}

(* A session starts with the manifests, taken before anything is sent, and *)
(* with what each device says of its tagging.                              *)
SyncStarts ==
  /\ session.at = "none" /\ Manifest("p") # Manifest("c")
  /\ session' = [NoSession EXCEPT !.at = "send",
       !.want = [d \in Devices |-> Wanted(Manifest(d).memories, Manifest(Peer(d)).memories)],
       !.tell = [d \in Devices |-> Manifest(d).backlog \ Manifest(Peer(d)).backlog]]
  /\ peer_tags' = {d \in Devices : Peer(d) \in deferring}
  /\ UNCHANGED <<copy, storing, deferring, clock, tagger, events>>

(* A wanted memory as it is by now; one that is gone is left out. The      *)
(* marker only goes with a memory that has no classification.              *)
SendRecord ==
  LET s == session IN
  /\ s.at = "send"
  /\ \E m \in s.want[s.from] :
       LET held == copy[s.from][m]
           sent == [s EXCEPT !.want[s.from] = @ \ {m}]
       IN  session' = IF held = Absent THEN sent
                      ELSE [sent EXCEPT !.at = "import", !.memory = {m},
                              !.record = [held EXCEPT !.tag_pending = Waits(held)]]
  /\ UNCHANGED <<copy, storing, deferring, peer_tags, clock, tagger, events>>

(* store_batch_precomputed reads the stamps of the memories it has... *)
ImportReads ==
  LET s == session IN
  /\ s.at = "import"
  /\ \E m \in s.memory :
       session' = [s EXCEPT !.at = "store", !.known = copy[Peer(s.from)][m]]
  /\ UNCHANGED <<copy, storing, deferring, peer_tags, clock, tagger, events>>

After(s) ==
  IF s.lost THEN NoSession
  ELSE [NoSession EXCEPT !.at = "send", !.from = s.from, !.last = s.last, !.want = s.want, !.tell = s.tell]

(* ...and writes: a memory it had only when the classification is newer,   *)
(* which fails when the memory is gone; one it did not have, whatever is   *)
(* there by now.                                                           *)
ImportWrites ==
  LET s == session
      to == Peer(s.from)
  IN  /\ s.at = "store"
      /\ \E m \in s.memory :
           \/ /\ s.known = Absent
              /\ copy' = [copy EXCEPT ![to][m] = s.record]
              /\ session' = After(s)
           \/ /\ s.known # Absent /\ s.record.tagged_at <= s.known.tagged_at
              /\ session' = After(s) /\ UNCHANGED copy
           \/ /\ s.known # Absent /\ s.record.tagged_at > s.known.tagged_at
              /\ copy[to][m] # Absent
              /\ copy' = [copy EXCEPT ![to][m] = [s.record EXCEPT !.tag_pending = FALSE]]
              /\ session' = After(s)
           \/ /\ s.known # Absent /\ s.record.tagged_at > s.known.tagged_at
              /\ copy[to][m] = Absent
              /\ session' = NoSession /\ UNCHANGED copy
      /\ UNCHANGED <<storing, deferring, peer_tags, clock, tagger, events>>

(* The memories that wait here, after the memories themselves. *)
SendBacklog ==
  LET s == session IN
  /\ s.at = "send" /\ s.want[s.from] = {} /\ s.tell[s.from] # {}
  /\ session' = [s EXCEPT !.at = "adopt", !.memory = s.tell[s.from], !.tell[s.from] = {}]
  /\ UNCHANGED <<copy, storing, deferring, peer_tags, clock, tagger, events>>

(* adopt looks which of them are held and not classified... *)
AdoptReads ==
  LET s == session IN
  /\ s.at = "adopt"
  /\ session' = [s EXCEPT !.at = "mark", !.marks =
       {m \in s.memory : LET here == copy[Peer(s.from)][m]
                         IN  here # Absent /\ here.tagged_at = 0 /\ ~here.tag_pending}]
  /\ UNCHANGED <<copy, storing, deferring, peer_tags, clock, tagger, events>>

(* ...and marks those, which fails when one is gone. *)
AdoptMarks ==
  LET s == session
      to == Peer(s.from)
  IN  /\ s.at = "mark"
      /\ copy' = [copy EXCEPT ![to] = [m \in Memories |->
           IF m \in s.marks \cap Held(to) THEN [@[m] EXCEPT !.tag_pending = TRUE] ELSE @[m]]]
      /\ session' = IF s.marks \subseteq Held(to) THEN After(s) ELSE NoSession
      /\ UNCHANGED <<storing, deferring, peer_tags, clock, tagger, events>>

(* One device has sent everything: the other one's turn, or the end. *)
SendEnds ==
  LET s == session IN
  /\ s.at = "send" /\ s.want[s.from] = {} /\ s.tell[s.from] = {}
  /\ session' = IF s.last THEN NoSession ELSE [s EXCEPT !.from = Peer(@), !.last = TRUE]
  /\ UNCHANGED <<copy, storing, deferring, peer_tags, clock, tagger, events>>

(* The session is lost or cancelled; a chunk that is being stored is       *)
(* stored to its end.                                                      *)
SessionLost ==
  LET s == session IN
  /\ s.at # "none" /\ ~s.lost /\ Counts
  /\ session' = IF s.at \in {"store", "mark"} THEN [s EXCEPT !.lost = TRUE] ELSE NoSession
  /\ UNCHANGED <<copy, storing, deferring, peer_tags, clock, tagger>>

-----------------------------------------------------------------------------
TaggerStep(d) == RunStarts(d) \/ ReadPage(d) \/ Choose(d) \/ ReadStamp(d) \/ WriteTags(d)

SessionStep ==
  \/ SyncStarts \/ SendRecord \/ ImportReads \/ ImportWrites
  \/ SendBacklog \/ AdoptReads \/ AdoptMarks \/ SendEnds

Next ==
  \/ \E d \in Devices : TaggerStep(d) \/ Retag(d) \/ Stop(d) \/ SetLlm(d)
  \/ \E d \in Devices, m \in Memories : StoreLooks(d, m) \/ StoreWrites(d, m) \/ Delete(d, m)
  \/ SessionStep \/ SessionLost

Spec == Init /\ [][Next]_vars

(* The dispatcher starts the background job again while memories wait, the *)
(* LLM answers, and the devices sync while they differ. Nobody need store, *)
(* delete or retag.                                                        *)
Fairness == WF_vars(SessionStep) /\ \A d \in Devices : WF_vars(TaggerStep(d))

FairSpec == Spec /\ Fairness

-----------------------------------------------------------------------------
(* A stamp names one classification: two devices whose copies have the     *)
(* same stamp have the same tags, so the digests, which hold stamps only,  *)
(* cannot hide a difference for good. Stamps come from two clocks that     *)
(* disagree and from moving past each other's (ADR 0051).                  *)
SameStampSameTags ==
  \A m \in Memories :
    LET mine == copy["p"][m]
        other == copy["c"][m]
    IN  mine.tagged_at = other.tagged_at /\ mine.tagged_at > 0 => mine.tags = other.tags

(* A memory that waits on either device is tagged while a device tags,     *)
(* here or on the other one: its marker, or the tags, cross although the   *)
(* tagger and the sessions stop, memories come back while they are tagged, *)
(* and the device that stored it may tag no more (ADR 0138).               *)
Served ==
  \A d \in Devices, m \in Memories :
    Waits(copy[d][m]) /\ deferring # {} ~> ~Waits(copy[d][m]) \/ deferring = {}

(* The devices converge: they hold the same memories with the same tags    *)
(* again, whatever was classified, deleted or lost in between.             *)
Same ==
  \A m \in Memories :
    LET mine == copy["p"][m]
        other == copy["c"][m]
    IN  (mine = Absent) = (other = Absent) /\ mine.tags = other.tags

Agree == []<>Same

=============================================================================
