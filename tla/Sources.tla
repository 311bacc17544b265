------------------------------ MODULE Sources ------------------------------
(***************************************************************************)
(* One source of one workspace in the three stores that hold it: its       *)
(* chunks in the vector store (imprint/vectorstore.py), its snapshot       *)
(* heads (imprint/source_snapshots.py) and the facts drawn from it         *)
(* (imprint/imprint_graph.py).  No transaction spans the stores.  A writer *)
(* replaces the source, a job purges it (imprint/purge.py) or moves it to  *)
(* another project (imprint/projects.py, imprint/placement_sync.py), a     *)
(* sync session imports a peer's copy, and a user deletes a memory.        *)
(*                                                                         *)
(* A logical ID names a project, a content and its position, so a chunk is *)
(* stored at most once in each project; it leaves out the whitespace       *)
(* around the content, so two versions may be cut into the same chunks.  A *)
(* point is what tells its copies apart: the hash of the file it was read  *)
(* from and the snapshot version its spans belong to, both given by the    *)
(* name of the version, and whether its path is one of this device or of   *)
(* the peer it came from.  The source is purged by its source key.         *)
(***************************************************************************)
EXTENDS Naturals

CONSTANTS
  Projects,   \* the projects there may be
  Home,       \* the project every writer names: the origin
  Chunks,     \* chunks: a content at a position
  Versions,   \* what the source may read
  ChunksOf,   \* version -> the chunks it is cut into
  Kinds,      \* "file": refreshed under the queue lock; "inline": stored by the server
  None,       \* no version: a deleted file, an absent point or head
  MaxEvents   \* calls of the user and of peers, edits and stops

ASSUME SourcesAssumption ==
  /\ Home \in Projects /\ None \notin Versions
  /\ ChunksOf \in [Versions -> (SUBSET Chunks) \ {{}}]
  /\ Kinds \subseteq {"file", "inline"} /\ MaxEvents \in Nat

VARIABLES
  kind,      \* how this source is written
  file,      \* what the file reads now
  points,    \* project -> chunk -> its point in the vector store
  heads,     \* project -> the version of its snapshot head
  fact,      \* whether the graph holds a fact of the source
  excluded,  \* whether the workspace excludes the source
  rule,      \* the project the placement rules map <<Home, source>> to
  owed,      \* projects that rules of a peer empty, and that are yet to be rewritten
  writer,    \* the process that replaces the source
  job,       \* the purge or move that holds the queue lock
  importer,  \* the sync session that receives the source
  deleting,  \* the points of deletions whose head is removed already
  events,    \* how many of the events MaxEvents bounds there were
  whole,     \* history: a replacement completed, and nobody removed the source
  purged,    \* history: a purge completed, and nobody restored the source
  disturbed  \* history: whether chunks were written by a peer or where its rules moved a
             \* replacement, deleted by a user, or left apart by a move, "since" the last
             \* replacement began, or "before" it and it has not replaced all, or "no"

stores == <<points, heads, fact>>

policy == <<excluded, rule, owed>>

history == <<whole, purged, disturbed>>

vars == <<kind, file, stores, policy, writer, job, importer, deleting, events, history>>

(* What a writer of this device stamps.  (Nothing reads the path of an     *)
(* inline source.)                                                         *)
Point(hash, version) ==
  [source_hash |-> hash, source_version |-> version, source_path_local |-> TRUE]

(* A peer's chunk is never labelled as recorded here. *)
Imported(version) == [Point(version, version) EXCEPT !.source_path_local = FALSE]

Absent == [source_hash |-> None, source_version |-> None, source_path_local |-> FALSE]

Maybe == Versions \cup {None}

NoWriter ==
  [at |-> "off", version |-> None, project |-> Home, placed |-> Home,
   todo |-> {}, held |-> {}, listed |-> [p \in Projects |-> None]]

NoJob ==
  [at |-> "off", from |-> {}, to |-> Home, found |-> {}, batch |-> {}, heads |-> {}]

NoImporter == [at |-> "off", version |-> None, project |-> Home, held |-> {}]

In(p) == {c \in Chunks : points[p][c] # Absent}

Stored == {i \in Projects \X Chunks : points[i[1]][i[2]] # Absent}

(* All chunks of v are stored, in whatever project. *)
HasAll(v) == \A c \in ChunksOf[v] : \E p \in Projects : points[p][c] # Absent

TypeOK ==
  /\ kind \in Kinds /\ file \in Maybe
  /\ points \in [Projects -> [Chunks -> [source_hash : Maybe, source_version : Maybe,
                                         source_path_local : BOOLEAN]]]
  /\ heads \in [Projects -> Maybe]
  /\ {fact, excluded, whole, purged} \subseteq BOOLEAN
  /\ rule \in Projects /\ owed \subseteq Projects
  /\ writer \in [at : {"off", "compare", "ignored", "gone", "cleared", "store", "embedded",
                       "stored", "stamped", "spanned", "pruned"},
                 version : Maybe, project : Projects, placed : Projects,
                 todo : SUBSET Chunks, held : SUBSET Chunks, listed : [Projects -> Maybe]]
  /\ job \in [at : {"off", "excluded", "scanned", "listed", "factless", "pointless",
                    "paired", "placing", "stale", "copied", "moved", "rehomed"},
              from : SUBSET Projects, to : Projects,
              found : SUBSET (Projects \X Chunks), batch : SUBSET (Projects \X Chunks),
              heads : SUBSET Projects]
  /\ importer \in [at : {"off", "placed", "head"},
                   version : Maybe, project : Projects, held : SUBSET Chunks]
  /\ deleting \subseteq Projects \X Chunks /\ disturbed \in {"no", "before", "since"}
  /\ events \in 0..MaxEvents

Init ==
  /\ kind \in Kinds /\ file \in IF kind = "file" THEN Versions ELSE {None}
  /\ points = [p \in Projects |-> [c \in Chunks |-> Absent]]
  /\ heads = [p \in Projects |-> None]
  /\ fact = FALSE /\ excluded = FALSE /\ rule = Home /\ owed = {}
  /\ writer = NoWriter /\ job = NoJob /\ importer = NoImporter
  /\ deleting = {} /\ events = 0
  /\ whole = FALSE /\ purged = FALSE /\ disturbed = "no"

Count == events < MaxEvents /\ events' = events + 1

(* The queue lock: a refresh and the jobs exclude each other; what the     *)
(* server stores itself takes no lock.                                     *)
LockFree == job.at = "off" /\ (kind = "file" => writer.at = "off")

(***************************************************************************)
(* Refresh: compare the file with what the stores hold of it.  What is     *)
(* read of all points of the source ends with the point scanned last,      *)
(* which may be any of them: its path counts as that of the source.        *)
(***************************************************************************)
StartRefresh ==
  /\ kind = "file" /\ LockFree
  /\ writer' = [NoWriter EXCEPT !.at = IF excluded THEN "ignored" ELSE "compare",
                                !.listed = heads]
  /\ UNCHANGED <<kind, file, stores, policy, job, importer, deleting, events, history>>

LocalSource(last) == points[last[1]][last[2]].source_path_local

(* Point i has the hash of the file, and the version of its project's head. *)
AsListed(i) ==
  /\ points[i[1]][i[2]].source_hash = file
  /\ points[i[1]][i[2]].source_version = writer.listed[i[1]]

(* Mutant: the version of a point is not compared with the head's. *)
Unchanged_ThoughUnpublished(last) ==
  /\ LocalSource(last)
  /\ \A i \in Stored : points[i[1]][i[2]].source_hash = file
  /\ \A p \in Projects :
       writer.listed[p] # None => In(p) = ChunksOf[writer.listed[p]]

(* Every head listed has exactly its manifest. *)
Unchanged(last) ==
  /\ LocalSource(last)
  /\ \A i \in Stored : AsListed(i)
  /\ \A p \in Projects :
       writer.listed[p] # None => In(p) = ChunksOf[writer.listed[p]]

(* A missing file's source is pruned only by a path recorded here. *)
NothingToPrune == Stored = {} \/ \E last \in Stored : ~LocalSource(last)

(* Mutant: a file of which anything is stored is not read again. *)
Skip_Stored ==
  /\ writer.at = "compare"
  /\ IF file = None THEN NothingToPrune ELSE Stored # {}
  /\ writer' = NoWriter
  /\ UNCHANGED <<kind, file, stores, policy, job, importer, deleting, events, history>>

Skip ==
  /\ writer.at = "compare"
  /\ IF file = None THEN NothingToPrune ELSE \E last \in Stored : Unchanged(last)
  /\ writer' = NoWriter
  /\ UNCHANGED <<kind, file, stores, policy, job, importer, deleting, events, history>>

(* An excluded file is not compared; only its absence is noticed. *)
Ignore ==
  /\ writer.at = "ignored" /\ (file # None \/ NothingToPrune)
  /\ writer' = NoWriter
  /\ UNCHANGED <<kind, file, stores, policy, job, importer, deleting, events, history>>

Replacing(v) ==
  [NoWriter EXCEPT !.at = "store", !.version = v, !.project = rule, !.todo = ChunksOf[v]]

ReadFile ==
  /\ writer.at = "compare" /\ file # None
  /\ Stored = {} \/ \E last \in Stored : ~Unchanged(last)
  /\ writer' = Replacing(file)
  /\ disturbed' = IF disturbed = "no" THEN "no" ELSE "before"
  /\ UNCHANGED <<kind, file, stores, policy, job, importer, deleting, events, whole, purged>>

FindGone ==
  /\ writer.at \in {"compare", "ignored"} /\ file = None
  /\ \E last \in Stored :
       /\ LocalSource(last)
       /\ writer' = [NoWriter EXCEPT !.at = "gone", !.project = last[1]]
  /\ UNCHANGED <<kind, file, stores, policy, job, importer, deleting, events, history>>

DropChunks ==
  /\ writer.at = "gone"
  /\ points' = [points EXCEPT ![writer.project] = [c \in Chunks |-> Absent]]
  /\ writer' = [writer EXCEPT !.at = "cleared"]
  /\ whole' = FALSE
  /\ UNCHANGED <<kind, file, heads, fact, policy, job, importer, deleting, events,
                 purged, disturbed>>

DropHead ==
  /\ writer.at = "cleared"
  /\ heads' = [heads EXCEPT ![writer.project] = None]
  /\ writer' = NoWriter
  /\ UNCHANGED <<kind, file, points, fact, policy, job, importer, deleting, events, history>>

(***************************************************************************)
(* replace_source: the server calls it without the lock, a refresh with    *)
(* it.  The project it places the source in first names the points it      *)
(* stamps and prunes; each batch it stores is placed again.                *)
(***************************************************************************)
Ingest(v) ==
  /\ kind = "inline" /\ writer.at = "off" /\ Count
  /\ writer' = Replacing(v)
  /\ disturbed' = IF disturbed = "no" THEN "no" ELSE "before"
  /\ UNCHANGED <<kind, file, stores, policy, job, importer, deleting, whole, purged>>

(* Mutant: the old chunks are deleted before the new are stored. *)
Store_PrunesFirst ==
  /\ writer.at = "store" /\ ~excluded
  /\ writer' = [writer EXCEPT !.at = "embedded", !.placed = rule,
                              !.held = In(rule) \cap writer.todo]
  /\ points' = [points EXCEPT ![writer.project] =
                  [c \in Chunks |-> IF c \in ChunksOf[writer.version] THEN @[c] ELSE Absent]]
  /\ UNCHANGED <<kind, file, heads, fact, policy, job, importer, deleting, events, history>>

(* A batch is placed and its stored chunks are looked up; then it embeds.  *)
Store ==
  /\ writer.at = "store" /\ ~excluded
  /\ writer' = [writer EXCEPT !.at = "embedded", !.placed = rule,
                              !.held = In(rule) \cap writer.todo]
  /\ UNCHANGED <<kind, file, stores, policy, job, importer, deleting, events, history>>

(* Mutant: the guard is not asked again after embedding. *)
Persist_Unguarded(batch) ==
  /\ writer.at = "embedded"
  /\ batch \subseteq writer.todo /\ batch # {}
  /\ points' = [points EXCEPT ![writer.placed] =
                  [c \in Chunks |-> IF c \in batch \ writer.held
                                    THEN Point(writer.version, writer.version) ELSE @[c]]]
  /\ writer' = [writer EXCEPT !.todo = @ \ batch, !.held = {}, !.placed = Home,
                              !.at = IF batch = writer.todo THEN "stored" ELSE "store"]
  /\ UNCHANGED <<kind, file, heads, fact, policy, job, importer, deleting, events, history>>

Persist(batch) ==
  /\ writer.at = "embedded"
  /\ batch \subseteq writer.todo /\ batch # {}
  /\ excluded => batch \subseteq writer.held
  /\ points' = [points EXCEPT ![writer.placed] =
                  [c \in Chunks |-> IF c \in batch \ writer.held
                                    THEN Point(writer.version, writer.version) ELSE @[c]]]
  /\ disturbed' = IF writer.placed = writer.project THEN disturbed ELSE "since"
  /\ writer' = [writer EXCEPT !.todo = @ \ batch, !.held = {}, !.placed = Home,
                              !.at = IF batch = writer.todo THEN "stored" ELSE "store"]
  /\ UNCHANGED <<kind, file, heads, fact, policy, job, importer, deleting, events, whole, purged>>

StampProvenance ==
  /\ writer.at = "stored"
  /\ points' = [points EXCEPT ![writer.project] =
                  [c \in Chunks |-> IF c \in ChunksOf[writer.version] /\ @[c] # Absent
                                    THEN Point(writer.version, @[c].source_version) ELSE @[c]]]
  /\ writer' = [writer EXCEPT !.at = "stamped"]
  /\ UNCHANGED <<kind, file, heads, fact, policy, job, importer, deleting, events, history>>

WithSpans(point, v) == [point EXCEPT !.source_version = v]

(* The points when project p's stored chunks of v carry the spans of v. *)
Aligned(p, v) ==
  [points EXCEPT ![p] = [c \in Chunks |-> IF c \in ChunksOf[v] /\ @[c] # Absent
                                          THEN WithSpans(@[c], v) ELSE @[c]]]

StampSpans ==
  /\ writer.at = "stamped"
  /\ points' = Aligned(writer.project, writer.version)
  /\ writer' = [writer EXCEPT !.at = "spanned"]
  /\ UNCHANGED <<kind, file, heads, fact, policy, job, importer, deleting, events, history>>

Prune ==
  /\ writer.at = "spanned"
  /\ points' = [points EXCEPT ![writer.project] =
                  [c \in Chunks |-> IF c \in ChunksOf[writer.version] THEN @[c] ELSE Absent]]
  /\ writer' = [writer EXCEPT !.at = "pruned"]
  /\ whole' = (whole /\ job.at = "off")
  /\ UNCHANGED <<kind, file, heads, fact, policy, job, importer, deleting, events,
                 purged, disturbed>>

Publish ==
  /\ writer.at = "pruned" /\ ~excluded
  /\ heads' = [heads EXCEPT ![writer.project] = writer.version]
  /\ whole' = (whole \/ (job.at = "off" /\ HasAll(writer.version)))
  /\ disturbed' = IF disturbed = "before" /\ \A i \in Stored : i[1] = writer.project
                     THEN "no" ELSE disturbed
  /\ writer' = NoWriter
  /\ UNCHANGED <<kind, file, points, fact, policy, job, importer, deleting, events, purged>>

(* check_records and write_guard raise for an excluded source; a batch of  *)
(* which every chunk is stored already writes none and is not guarded.     *)
WriterRefused ==
  /\ writer.at \in {"store", "embedded", "pruned"} /\ excluded
  /\ writer.at = "embedded" => ~(writer.todo \subseteq writer.held)
  /\ writer' = NoWriter
  /\ UNCHANGED <<kind, file, stores, policy, job, importer, deleting, events, history>>

(***************************************************************************)
(* Purge: exclude, then enumerate, then delete facts, points and heads.    *)
(***************************************************************************)
StartPurge ==
  /\ LockFree /\ Count
  /\ excluded' = TRUE
  /\ job' = [NoJob EXCEPT !.at = "excluded"]
  /\ UNCHANGED <<kind, file, stores, rule, owed, writer, importer, deleting, history>>

ScanPoints ==
  /\ job.at = "excluded"
  /\ job' = [job EXCEPT !.at = "scanned", !.found = Stored]
  /\ UNCHANGED <<kind, file, stores, policy, writer, importer, deleting, events, history>>

ListHeads ==
  /\ job.at = "scanned"
  /\ job' = [job EXCEPT !.at = "listed", !.heads = {p \in Projects : heads[p] # None}]
  /\ UNCHANGED <<kind, file, stores, policy, writer, importer, deleting, events, history>>

DeleteFacts ==
  /\ job.at = "listed"
  /\ fact' = FALSE
  /\ job' = [job EXCEPT !.at = "factless"]
  /\ UNCHANGED <<kind, file, points, heads, policy, writer, importer, deleting, events, history>>

Without(removed) ==
  [p \in Projects |-> [c \in Chunks |-> IF <<p, c>> \in removed THEN Absent ELSE points[p][c]]]

DeletePoints ==
  /\ job.at = "factless"
  /\ points' = Without(job.found)
  /\ job' = [job EXCEPT !.at = "pointless", !.found = {}]
  /\ whole' = FALSE
  /\ UNCHANGED <<kind, file, heads, fact, policy, writer, importer, deleting, events,
                 purged, disturbed>>

RemoveHeads ==
  /\ job.at = "pointless"
  /\ heads' = [p \in Projects |-> IF p \in job.heads THEN None ELSE heads[p]]
  /\ job' = NoJob
  /\ purged' = excluded
  /\ UNCHANGED <<kind, file, points, fact, policy, writer, importer, deleting, events,
                 whole, disturbed>>

(* A user restores the exclusion; it takes no lock. *)
Restore ==
  /\ excluded /\ Count
  /\ excluded' = FALSE /\ purged' = FALSE
  /\ UNCHANGED <<kind, file, stores, rule, owed, writer, job, importer, deleting, whole, disturbed>>

(***************************************************************************)
(* Move: save the rules, then rewrite the points and heads they misplace.  *)
(***************************************************************************)
StartMove(from, to) ==
  /\ LockFree /\ from # to /\ Count
  /\ job' = [NoJob EXCEPT !.at = "paired", !.from = {from}, !.to = to,
                          !.found = {i \in Stored : i[1] = from}]
  /\ UNCHANGED <<kind, file, stores, policy, writer, importer, deleting, history>>

(* entire: the project is moved, with what its rules place in it. *)
SaveRules(entire) ==
  /\ job.at = "paired"
  /\ rule' = IF job.found # {} \/ (entire /\ rule \in job.from) THEN job.to ELSE rule
  /\ job' = [job EXCEPT !.at = "placing", !.to = rule', !.found = {}]
  /\ UNCHANGED <<kind, file, stores, excluded, owed, writer, importer, deleting, events, history>>

(* Organize undoes a move of its own: the rule goes. *)
Unplace ==
  /\ LockFree /\ rule # Home /\ Count
  /\ rule' = Home
  /\ job' = [NoJob EXCEPT !.at = "placing", !.from = {rule}, !.to = Home]
  /\ UNCHANGED <<kind, file, stores, excluded, owed, writer, importer, deleting, history>>

(* A newer rule of a peer is stored without the lock.  It is applied with  *)
(* it: by the session, or by a queued job that looks at every project.     *)
ImportRule(to) ==
  /\ to # rule /\ Count
  /\ rule' = to /\ owed' = owed \cup {rule}
  /\ UNCHANGED <<kind, file, stores, excluded, writer, job, importer, deleting, history>>

ApplyRules(from) ==
  /\ owed # {} /\ LockFree /\ from \in {owed, Projects}
  /\ owed' = {}
  /\ job' = [NoJob EXCEPT !.at = "placing", !.from = from, !.to = rule]
  /\ UNCHANGED <<kind, file, stores, excluded, rule, writer, importer, deleting, events, history>>

ScanStale ==
  /\ job.at = "placing"
  /\ job' = [job EXCEPT !.at = "stale",
                        !.found = {i \in Stored : i[1] \in job.from \ {job.to}}]
  /\ UNCHANGED <<kind, file, stores, policy, writer, importer, deleting, events, history>>

(* A batch of the stale points is copied into the target as it is now, if  *)
(* any of it is left.                                                      *)
Copied(batch) ==
  [points EXCEPT ![job.to] =
    [c \in Chunks |->
       LET sources == {p \in Projects : <<p, c>> \in batch \cap Stored}
       IN IF sources = {} THEN @[c] ELSE points[CHOOSE p \in sources : TRUE][c]]]

CopyBatch(batch) ==
  /\ job.at = "stale" /\ batch # {} /\ batch \subseteq job.found
  /\ ~(excluded /\ batch \cap Stored # {})
  /\ points' = Copied(batch)
  /\ job' = IF batch \cap Stored = {}
              THEN [job EXCEPT !.found = @ \ batch]
              ELSE [job EXCEPT !.at = "copied", !.batch = batch]
  /\ UNCHANGED <<kind, file, heads, fact, policy, writer, importer, deleting, events, history>>

DeleteOld ==
  /\ job.at = "copied"
  /\ points' = Without(job.batch)
  /\ job' = [job EXCEPT !.at = "stale", !.found = @ \ job.batch, !.batch = {}]
  /\ UNCHANGED <<kind, file, heads, fact, policy, writer, importer, deleting, events, history>>

PointsMoved ==
  /\ job.at = "stale" /\ job.found = {}
  /\ job' = [job EXCEPT !.at = "moved",
                        !.heads = {p \in job.from \ {job.to} : heads[p] # None}]
  /\ UNCHANGED <<kind, file, stores, policy, writer, importer, deleting, events, history>>

RehomeHead(p) ==
  /\ job.at = "moved" /\ p \in job.heads /\ heads[p] # None /\ ~excluded
  /\ heads' = [heads EXCEPT ![job.to] = heads[p]]
  /\ job' = [job EXCEPT !.at = "rehomed", !.heads = @ \ {p}, !.from = {p}]
  /\ UNCHANGED <<kind, file, points, fact, policy, writer, importer, deleting, events, history>>

RemoveOldHead ==
  /\ job.at = "rehomed"
  /\ heads' = [p \in Projects |-> IF p \in job.from THEN None ELSE heads[p]]
  /\ job' = [job EXCEPT !.at = "moved"]
  /\ UNCHANGED <<kind, file, points, fact, policy, writer, importer, deleting, events, history>>

MoveEnds ==
  /\ job.at = "moved" /\ job.heads = {}
  /\ job' = NoJob
  /\ UNCHANGED <<kind, file, stores, policy, writer, importer, deleting, events, history>>

(* The job ends while it rewrites points, with the source in two projects. *)
LeftApart == job.at \in {"stale", "copied"} /\ \E i, j \in Stored : i[1] # j[1]

(* The guard refuses the copies, or the head was removed meanwhile.        *)
MoveFails ==
  /\ \/ job.at = "stale" /\ excluded /\ job.found \cap Stored # {}
     \/ job.at = "moved" /\ \E p \in job.heads : excluded \/ heads[p] = None
  /\ job' = NoJob
  /\ disturbed' = IF LeftApart THEN "since" ELSE disturbed
  /\ UNCHANGED <<kind, file, stores, policy, writer, importer, deleting, events, whole, purged>>

(***************************************************************************)
(* Sync: a peer's chunks of a version, then its head.  No lock.            *)
(***************************************************************************)
Receive(v) ==
  /\ importer.at = "off" /\ ~excluded /\ Count
  /\ importer' = [at |-> "placed", version |-> v, project |-> rule,
                  held |-> In(rule) \cap ChunksOf[v]]
  /\ UNCHANGED <<kind, file, stores, policy, writer, job, deleting, history>>

ImportPoints ==
  /\ importer.at = "placed" /\ ~excluded
  /\ points' = [points EXCEPT ![importer.project] =
                  [c \in Chunks |-> IF c \in ChunksOf[importer.version] \ importer.held
                                    THEN Imported(importer.version) ELSE @[c]]]
  /\ disturbed' = "since"
  /\ importer' = [importer EXCEPT !.at = "head", !.project = Home, !.held = {}]
  /\ UNCHANGED <<kind, file, heads, fact, policy, writer, job, deleting, events, whole, purged>>

(* The head goes where the rules place it now, unless the one held is      *)
(* newer: the clocks of the two devices decide, and may say either.        *)
ImportHead(newer) ==
  /\ importer.at = "head" /\ ~excluded
  /\ heads[rule] = None => newer
  /\ IF newer
     THEN /\ points' = Aligned(rule, importer.version)
          /\ heads' = [heads EXCEPT ![rule] = importer.version]
          /\ disturbed' = "since"
     ELSE UNCHANGED <<points, heads, disturbed>>
  /\ importer' = NoImporter
  /\ UNCHANGED <<kind, file, fact, policy, writer, job, deleting, events, whole, purged>>

ImportRefused ==
  /\ importer.at # "off" /\ excluded
  /\ importer' = NoImporter
  /\ UNCHANGED <<kind, file, stores, policy, writer, job, deleting, events, history>>

(***************************************************************************)
(* The user: edits the file, notes a fact, deletes a memory.               *)
(***************************************************************************)
Edit(v) ==
  /\ kind = "file" /\ v # file /\ Count
  /\ file' = v
  /\ UNCHANGED <<kind, stores, policy, writer, job, importer, deleting, history>>

AddFact ==
  /\ ~excluded /\ ~fact /\ Count
  /\ fact' = TRUE
  /\ UNCHANGED <<kind, file, points, heads, policy, writer, job, importer, deleting, history>>

(* Deleting one memory of a source invalidates the source's head first.    *)
DeleteMemory(i) ==
  /\ deleting = {} /\ i \in Stored /\ Count
  /\ heads' = [heads EXCEPT ![i[1]] = None]
  /\ deleting' = {i}
  /\ whole' = FALSE
  /\ UNCHANGED <<kind, file, points, fact, policy, writer, job, importer, purged, disturbed>>

DeletePoint ==
  /\ deleting # {}
  /\ points' = Without(deleting)
  /\ deleting' = {}
  /\ whole' = FALSE
  /\ disturbed' = "since"
  /\ UNCHANGED <<kind, file, heads, fact, policy, writer, job, importer, events, purged>>

(***************************************************************************)
(* A process dies, or a session is lost, between two of its steps.         *)
(***************************************************************************)
StopWriter ==
  /\ writer.at # "off" /\ Count
  /\ writer' = NoWriter
  /\ UNCHANGED <<kind, file, stores, policy, job, importer, deleting, history>>

StopJob ==
  /\ job.at # "off" /\ Count
  /\ job' = NoJob
  /\ disturbed' = IF LeftApart THEN "since" ELSE disturbed
  /\ UNCHANGED <<kind, file, stores, policy, writer, importer, deleting, whole, purged>>

(* The points may be aligned with a head that is not committed.            *)
StopImporter ==
  /\ importer.at # "off" /\ Count
  /\ \/ UNCHANGED <<points, disturbed>>
     \/ /\ importer.at = "head" /\ ~excluded
        /\ points' = Aligned(rule, importer.version)
        /\ disturbed' = "since"
  /\ importer' = NoImporter
  /\ UNCHANGED <<kind, file, heads, fact, policy, writer, job, deleting, whole, purged>>

(***************************************************************************)
Refresh ==
  \/ StartRefresh \/ Skip \/ Ignore \/ ReadFile \/ FindGone \/ DropChunks \/ DropHead

Replace ==
  \/ Store \/ (\E batch \in SUBSET Chunks : Persist(batch))
  \/ StampProvenance \/ StampSpans \/ Prune \/ Publish \/ WriterRefused

Purging == ScanPoints \/ ListHeads \/ DeleteFacts \/ DeletePoints \/ RemoveHeads

Moving ==
  \/ \E entire \in BOOLEAN : SaveRules(entire)
  \/ \E from \in SUBSET Projects : ApplyRules(from)
  \/ ScanStale
  \/ \E batch \in SUBSET job.found : CopyBatch(batch)
  \/ DeleteOld \/ PointsMoved
  \/ (\E p \in Projects : RehomeHead(p)) \/ RemoveOldHead
  \/ MoveEnds \/ MoveFails

Importing ==
  ImportPoints \/ (\E newer \in BOOLEAN : ImportHead(newer)) \/ ImportRefused

User ==
  \/ StartPurge \/ Restore \/ Unplace \/ AddFact
  \/ \E from, to \in Projects : StartMove(from, to)
  \/ \E to \in Projects : ImportRule(to)
  \/ \E v \in Versions : Ingest(v) \/ Receive(v)
  \/ \E v \in Maybe : Edit(v)
  \/ \E i \in Stored : DeleteMemory(i)

Stops == StopWriter \/ StopJob \/ StopImporter

Next == Refresh \/ Replace \/ Purging \/ Moving \/ Importing \/ User \/ DeletePoint \/ Stops

Spec == Init /\ [][Next]_vars

(* Refresh is run again and again, and what was started goes on.           *)
FairSpec ==
  /\ Spec
  /\ WF_vars(Refresh) /\ WF_vars(Replace) /\ WF_vars(Purging) /\ WF_vars(Moving)
  /\ WF_vars(Importing) /\ WF_vars(DeletePoint)

-----------------------------------------------------------------------------
(* Once a purge has ended, and until the source is restored, nothing of it *)
(* is stored anywhere: no writer, move or session that was under way when  *)
(* the exclusion was recorded brings a part of it back.                    *)
PurgedStaysGone ==
  purged => Stored = {} /\ ~fact /\ \A p \in Projects : heads[p] = None

(* Once a replacement has completed, some version of the source is stored  *)
(* whole until somebody removes it: whatever a replacement, a move or a    *)
(* session does, in whatever order, and wherever it stops, old data goes   *)
(* only after the new is there.  Except that the server, which takes no    *)
(* lock, may prune while a job moves the source: the copies the one        *)
(* counts on may be what the other deletes.                                *)
WholeVersion == whole => \E v \in Versions : HasAll(v)

(* Project p holds exactly the chunks of v, stamped with it, and its head. *)
Current(p, v) ==
  /\ heads[p] = v /\ In(p) = ChunksOf[v]
  /\ \A c \in In(p) : points[p][c] = Point(v, v)

(* The same up to what no ID shows: its points may belong to the version   *)
(* of the head, if that is cut into the same chunks.                       *)
CurrentChunks(p, v) ==
  /\ heads[p] \in Versions /\ ChunksOf[heads[p]] = ChunksOf[v] /\ In(p) = ChunksOf[v]
  /\ \A c \in In(p) :
       points[p][c].source_hash = v /\ points[p][c].source_version = heads[p]

(* A refresh that skips a file, and whose list of heads is not out of      *)
(* date, leaves a project that holds the file's chunks and no others, and  *)
(* a head cut like the file, unless the source was disturbed since it was  *)
(* last replaced: what replacements leave behind, wherever they stop, and  *)
(* whatever moves and purges follow, never passes for the file.            *)
OwnSkipMeansCurrent ==
  [][Skip /\ file # None /\ writer.listed = heads /\ disturbed = "no" =>
       \E p \in Projects : CurrentChunks(p, file)]_vars

(* When nothing disturbs them any more, refreshes repair the source for    *)
(* good.  A deleted file has no chunk left anywhere, unless a peer's copy  *)
(* is among them: its path is not one whose absence is noticed.  A file    *)
(* that exists is held by some project as it is, and as read here, unless  *)
(* the source was disturbed.                                               *)
Repaired ==
  <>[](kind = "file" /\ ~excluded =>
         IF file = None THEN NothingToPrune
         ELSE disturbed # "no" \/ \E p \in Projects : Current(p, file))

=============================================================================
