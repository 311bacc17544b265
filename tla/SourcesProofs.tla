--------------------------- MODULE SourcesProofs ---------------------------
(***************************************************************************)
(* What Sources guarantees for any projects, chunks and versions, for a    *)
(* file and for what the server stores, and for any number of events.      *)
(***************************************************************************)
EXTENDS Sources, TLAPS

(* Chunk c is stored, in whatever project. *)
Held(c) == \E p \in Projects : points[p][c] # Absent

(* What a purge has collected covers all there is, as long as the source   *)
(* is excluded: nothing is added behind its back.                          *)
PurgeInv ==
  excluded =>
    /\ job.at \in {"scanned", "listed", "factless"} => Stored \subseteq job.found
    /\ job.at \in {"listed", "factless", "pointless"} =>
         \A p \in Projects : heads[p] # None => p \in job.heads
    /\ job.at \in {"factless", "pointless"} => ~fact
    /\ job.at = "pointless" => Stored = {}

(* A purge counts as completed only while the source is excluded.          *)
PurgedInv == purged => excluded

(* What a writer or a session stores is of a version, as is what a writer  *)
(* has yet to store, and it prunes when it has stored all of it.           *)
WriterInv ==
  /\ writer.at \in {"store", "embedded", "stored", "stamped", "spanned", "pruned"} =>
       writer.version \in Versions
  /\ writer.at \in {"stored", "stamped", "spanned", "pruned"} => writer.todo = {}
  /\ writer.at \in {"store", "embedded"} => writer.todo \subseteq ChunksOf[writer.version]
  /\ importer.at # "off" => importer.version \in Versions

(* While a version is whole, what a writer has stored is still somewhere.  *)
ProgressInv ==
  whole =>
    /\ writer.at \in {"store", "embedded", "stored", "stamped", "spanned"} =>
         \A c \in ChunksOf[writer.version] \ writer.todo : Held(c)
    /\ writer.at = "embedded" => \A c \in writer.held : Held(c)

(* While a version is whole, a move deletes only what it has copied: no    *)
(* point it found was removed meanwhile, and each it deletes is in the     *)
(* target.                                                                 *)
MoveInv ==
  whole =>
    /\ job.at \in {"stale", "copied"} =>
         job.found \subseteq Stored /\ \A i \in job.found : i[1] # job.to
    /\ job.at = "copied" =>
         job.batch \subseteq job.found /\ \A i \in job.batch : points[job.to][i[2]] # Absent

(* A point has the hash of a version that c is a chunk of, and belongs to  *)
(* the spans of some version.                                              *)
Sound(point, c) ==
  \/ point = Absent
  \/ /\ point.source_version \in Versions /\ point.source_hash \in Versions
     /\ c \in ChunksOf[point.source_hash]

HashInv == \A p \in Projects, c \in Chunks : Sound(points[p][c], c)

(* Only a file is compared, and no job runs while a file is replaced.      *)
LockInv ==
  /\ writer.at = "compare" => kind = "file"
  /\ kind = "file" /\ writer.at # "off" => job.at = "off"

(* While nobody disturbs it, what a replacement has stored of its version  *)
(* is in its project, then has its hash and a path of this device, then    *)
(* its spans, and is then all there is.                                    *)
StampedInv ==
  kind = "file" /\ disturbed # "since" =>
    /\ writer.at \in {"store", "embedded", "stored"} =>
         \A c \in ChunksOf[writer.version] \ writer.todo : points[writer.project][c] # Absent
    /\ writer.at = "embedded" => \A c \in writer.held : points[writer.placed][c] # Absent
    /\ writer.at = "stamped" =>
         \A c \in ChunksOf[writer.version] :
           /\ points[writer.project][c].source_hash = writer.version
           /\ points[writer.project][c].source_path_local = TRUE
    /\ writer.at \in {"spanned", "pruned"} =>
         \A c \in ChunksOf[writer.version] :
           points[writer.project][c] = Point(writer.version, writer.version)
    /\ writer.at = "pruned" =>
         \A c \in Chunks \ ChunksOf[writer.version] : points[writer.project][c] = Absent

(* While nobody disturbs it, a job knows of all it is to delete or move.   *)
GatheredInv ==
  kind = "file" /\ disturbed = "no" =>
    /\ job.at \in {"scanned", "listed", "factless"} => Stored \subseteq job.found
    /\ job.at \in {"stale", "copied"} =>
         /\ \A i \in Stored : i[1] \in job.from \ {job.to} => i \in job.found
         /\ \A i \in job.found : i[1] \in job.from \ {job.to}
    /\ job.at = "copied" =>
         \A i \in job.batch : /\ i[1] \in job.from \ {job.to}
                              /\ i \in Stored => points[job.to][i[2]] # Absent

(* A point with the hash of one version and the spans of another: all that *)
(* a replacement leaves when it stops before it has written the spans.     *)
Torn(point) == point.source_hash # point.source_version

(* The projects a running move takes p's points from and to.               *)
Together(p) ==
  IF job.at \in {"stale", "copied"} /\ p \in job.from \cup {job.to}
  THEN job.from \cup {job.to} ELSE {p}

(* Every chunk of v is stored with p's.                                    *)
AllWith(p, v) == \A c \in ChunksOf[v] : \E q \in Together(p) : points[q][c] # Absent

(* A torn point is not alone: with it is every chunk of the version whose  *)
(* hash it has, in the same project unless a move is under way.            *)
TornInv ==
  kind = "file" /\ disturbed = "no" =>
    \A p \in Projects, c \in Chunks :
      Torn(points[p][c]) => AllWith(p, points[p][c].source_hash)

IInv ==
  TypeOK /\ PurgeInv /\ PurgedInv /\ PurgedStaysGone
    /\ WriterInv /\ ProgressInv /\ MoveInv /\ WholeVersion
    /\ HashInv /\ LockInv /\ StampedInv /\ GatheredInv /\ TornInv

USE SourcesAssumption

-----------------------------------------------------------------------------
(* What each step can change. *)

(* Points are written by replacements, moves and sessions, and deleted by   *)
(* refreshes, prunes, purges, moves and the user.                          *)
LEMMA PointsChange ==
  [Next]_vars =>
    \/ points' = points
    \/ DropChunks
    \/ \E batch \in SUBSET Chunks : Persist(batch)
    \/ StampProvenance
    \/ StampSpans
    \/ Prune
    \/ DeletePoints
    \/ \E batch \in SUBSET job.found : CopyBatch(batch)
    \/ DeleteOld
    \/ ImportPoints
    \/ \E newer \in BOOLEAN : ImportHead(newer)
    \/ DeletePoint
    \/ StopImporter
<1> USE DEF stores, policy, history
<1>1. Refresh =>
       \/ points' = points
       \/ DropChunks
  BY DEF Refresh, StartRefresh, Skip, Ignore, ReadFile, FindGone, DropHead
<1>2. Replace =>
       \/ points' = points
       \/ \E batch \in SUBSET Chunks : Persist(batch)
       \/ StampProvenance
       \/ StampSpans
       \/ Prune
  BY DEF Replace, Store, Publish, WriterRefused
<1>3. Purging =>
       \/ points' = points
       \/ DeletePoints
  BY DEF Purging, ScanPoints, ListHeads, DeleteFacts, RemoveHeads
<1>4. Moving =>
       \/ points' = points
       \/ \E batch \in SUBSET job.found : CopyBatch(batch)
       \/ DeleteOld
  BY DEF Moving, SaveRules, ApplyRules, ScanStale, PointsMoved, RehomeHead,
         RemoveOldHead, MoveEnds, MoveFails
<1>5. Importing =>
       \/ points' = points
       \/ ImportPoints
       \/ \E newer \in BOOLEAN : ImportHead(newer)
  BY DEF Importing, ImportRefused
<1>6. User =>
       points' = points
  BY DEF User, StartPurge, Restore, Unplace, AddFact, StartMove, ImportRule, Ingest,
         Receive, Edit, DeleteMemory
<1>8. Stops =>
       \/ points' = points
       \/ StopImporter
  BY DEF Stops, StopWriter, StopJob
<1>9. UNCHANGED vars => points' = points
  BY DEF vars
<1>10. QED
  BY <1>1, <1>2, <1>3, <1>4, <1>5, <1>6, <1>8, <1>9 DEF Next

(* Heads are published by replacements and sessions and rehomed by moves.  *)
LEMMA HeadsChange ==
  [Next]_vars =>
    \/ heads' = heads
    \/ DropHead
    \/ Publish
    \/ RemoveHeads
    \/ \E p \in Projects : RehomeHead(p)
    \/ RemoveOldHead
    \/ \E newer \in BOOLEAN : ImportHead(newer)
    \/ \E i \in Stored : DeleteMemory(i)
<1> USE DEF stores, policy, history
<1>1. Refresh =>
       \/ heads' = heads
       \/ DropHead
  BY DEF Refresh, StartRefresh, Skip, Ignore, ReadFile, FindGone, DropChunks
<1>2. Replace =>
       \/ heads' = heads
       \/ Publish
  BY DEF Replace, Store, Persist, StampProvenance, StampSpans, Prune, WriterRefused
<1>3. Purging =>
       \/ heads' = heads
       \/ RemoveHeads
  BY DEF Purging, ScanPoints, ListHeads, DeleteFacts, DeletePoints
<1>4. Moving =>
       \/ heads' = heads
       \/ \E p \in Projects : RehomeHead(p)
       \/ RemoveOldHead
  BY DEF Moving, SaveRules, ApplyRules, ScanStale, CopyBatch, DeleteOld, PointsMoved,
         MoveEnds, MoveFails
<1>5. Importing =>
       \/ heads' = heads
       \/ \E newer \in BOOLEAN : ImportHead(newer)
  BY DEF Importing, ImportPoints, ImportRefused
<1>6. User =>
       \/ heads' = heads
       \/ \E i \in Stored : DeleteMemory(i)
  BY DEF User, StartPurge, Restore, Unplace, AddFact, StartMove, ImportRule, Ingest,
         Receive, Edit
<1>7. DeletePoint => heads' = heads
  BY DEF DeletePoint
<1>8. Stops =>
       heads' = heads
  BY DEF Stops, StopWriter, StopJob, StopImporter
<1>9. UNCHANGED vars => heads' = heads
  BY DEF vars
<1>10. QED
  BY <1>1, <1>2, <1>3, <1>4, <1>5, <1>6, <1>7, <1>8, <1>9 DEF Next

(* A purge excludes the source before it begins, a restore ends that.      *)
LEMMA PolicyChange ==
  [Next]_vars =>
    \/ excluded' = excluded /\ purged' = purged
    \/ StartPurge
    \/ RemoveHeads
    \/ Restore
<1> USE DEF stores, policy, history
<1>1. Refresh =>
       excluded' = excluded /\ purged' = purged
  BY DEF Refresh, StartRefresh, Skip, Ignore, ReadFile, FindGone, DropChunks, DropHead
<1>2. Replace =>
       excluded' = excluded /\ purged' = purged
  BY DEF Replace, Store, Persist, StampProvenance, StampSpans, Prune, Publish,
         WriterRefused
<1>3. Purging =>
       \/ excluded' = excluded /\ purged' = purged
       \/ RemoveHeads
  BY DEF Purging, ScanPoints, ListHeads, DeleteFacts, DeletePoints
<1>4. Moving =>
       excluded' = excluded /\ purged' = purged
  BY DEF Moving, SaveRules, ApplyRules, ScanStale, CopyBatch, DeleteOld, PointsMoved,
         RehomeHead, RemoveOldHead, MoveEnds, MoveFails
<1>5. Importing =>
       excluded' = excluded /\ purged' = purged
  BY DEF Importing, ImportPoints, ImportHead, ImportRefused
<1>6. User =>
       \/ excluded' = excluded /\ purged' = purged
       \/ StartPurge
       \/ Restore
  BY DEF User, Unplace, AddFact, StartMove, ImportRule, Ingest, Receive, Edit,
         DeleteMemory
<1>7. DeletePoint => excluded' = excluded /\ purged' = purged
  BY DEF DeletePoint
<1>8. Stops =>
       excluded' = excluded /\ purged' = purged
  BY DEF Stops, StopWriter, StopJob, StopImporter
<1>9. UNCHANGED vars => excluded' = excluded /\ purged' = purged
  BY DEF vars
<1>10. QED
  BY <1>1, <1>2, <1>3, <1>4, <1>5, <1>6, <1>7, <1>8, <1>9 DEF Next

LEMMA FactChange ==
  [Next]_vars =>
    \/ fact' = fact
    \/ DeleteFacts
    \/ AddFact
<1> USE DEF stores, policy, history
<1>1. Refresh =>
       fact' = fact
  BY DEF Refresh, StartRefresh, Skip, Ignore, ReadFile, FindGone, DropChunks, DropHead
<1>2. Replace =>
       fact' = fact
  BY DEF Replace, Store, Persist, StampProvenance, StampSpans, Prune, Publish,
         WriterRefused
<1>3. Purging =>
       \/ fact' = fact
       \/ DeleteFacts
  BY DEF Purging, ScanPoints, ListHeads, DeletePoints, RemoveHeads
<1>4. Moving =>
       fact' = fact
  BY DEF Moving, SaveRules, ApplyRules, ScanStale, CopyBatch, DeleteOld, PointsMoved,
         RehomeHead, RemoveOldHead, MoveEnds, MoveFails
<1>5. Importing =>
       fact' = fact
  BY DEF Importing, ImportPoints, ImportHead, ImportRefused
<1>6. User =>
       \/ fact' = fact
       \/ AddFact
  BY DEF User, StartPurge, Restore, Unplace, StartMove, ImportRule, Ingest, Receive,
         Edit, DeleteMemory
<1>7. DeletePoint => fact' = fact
  BY DEF DeletePoint
<1>8. Stops =>
       fact' = fact
  BY DEF Stops, StopWriter, StopJob, StopImporter
<1>9. UNCHANGED vars => fact' = fact
  BY DEF vars
<1>10. QED
  BY <1>1, <1>2, <1>3, <1>4, <1>5, <1>6, <1>7, <1>8, <1>9 DEF Next

(* A version becomes whole with a head, and stays so until a removal.      *)
LEMMA WholeChange ==
  [Next]_vars =>
    \/ whole' = whole
    \/ DropChunks
    \/ Prune
    \/ Publish
    \/ DeletePoints
    \/ \E i \in Stored : DeleteMemory(i)
    \/ DeletePoint
<1> USE DEF stores, policy, history
<1>1. Refresh =>
       \/ whole' = whole
       \/ DropChunks
  BY DEF Refresh, StartRefresh, Skip, Ignore, ReadFile, FindGone, DropHead
<1>2. Replace =>
       \/ whole' = whole
       \/ Prune
       \/ Publish
  BY DEF Replace, Store, Persist, StampProvenance, StampSpans, WriterRefused
<1>3. Purging =>
       \/ whole' = whole
       \/ DeletePoints
  BY DEF Purging, ScanPoints, ListHeads, DeleteFacts, RemoveHeads
<1>4. Moving =>
       whole' = whole
  BY DEF Moving, SaveRules, ApplyRules, ScanStale, CopyBatch, DeleteOld, PointsMoved,
         RehomeHead, RemoveOldHead, MoveEnds, MoveFails
<1>5. Importing =>
       whole' = whole
  BY DEF Importing, ImportPoints, ImportHead, ImportRefused
<1>6. User =>
       \/ whole' = whole
       \/ \E i \in Stored : DeleteMemory(i)
  BY DEF User, StartPurge, Restore, Unplace, AddFact, StartMove, ImportRule, Ingest,
         Receive, Edit
<1>8. Stops =>
       whole' = whole
  BY DEF Stops, StopWriter, StopJob, StopImporter
<1>9. UNCHANGED vars => whole' = whole
  BY DEF vars
<1>10. QED
  BY <1>1, <1>2, <1>3, <1>4, <1>5, <1>6, <1>8, <1>9 DEF Next

-----------------------------------------------------------------------------
(* Types *)

PointSet == [source_hash : Maybe, source_version : Maybe, source_path_local : BOOLEAN]

Points == [Projects -> [Chunks -> PointSet]]

LEMMA PointType ==
  /\ Absent \in PointSet
  /\ \A h, v \in Maybe : Point(h, v) \in PointSet /\ (Point(h, v) = Absent => v = None)
  /\ \A v \in Maybe : Imported(v) \in PointSet
  /\ \A point \in PointSet, v \in Maybe : WithSpans(point, v) \in PointSet
  /\ Versions \subseteq Maybe /\ None \notin Versions
  BY DEF Absent, Point, Imported, WithSpans, PointSet, Maybe

(* Where a row of the points is written, the others stay.                  *)
LEMMA RowType ==
  ASSUME points \in Points, NEW p \in Projects, NEW row \in [Chunks -> PointSet],
         points' = [points EXCEPT ![p] = row]
  PROVE  points' \in Points
  BY DEF Points

LEMMA PointsType == TypeOK /\ [Next]_vars => points' \in Points
<1> SUFFICES ASSUME TypeOK, [Next]_vars
             PROVE  points' \in Points
  OBVIOUS
<1>1. points \in Points /\ \A p \in Projects, c \in Chunks : points[p][c] \in PointSet
  BY DEF TypeOK, Points, PointSet
<1>2. /\ writer.project \in Projects /\ writer.placed \in Projects /\ writer.version \in Maybe
      /\ importer.project \in Projects /\ importer.version \in Maybe /\ job.to \in Projects
      /\ rule \in Projects
  BY DEF TypeOK
<1>3. ASSUME NEW p \in Projects, NEW v \in Maybe
      PROVE  Aligned(p, v) \in Points
  <2> DEFINE row == [c \in Chunks |-> IF c \in ChunksOf[v] /\ points[p][c] # Absent
                                      THEN WithSpans(points[p][c], v)
                                      ELSE points[p][c]]
  <2>2. row \in [Chunks -> PointSet]
    BY <1>1, PointType
  <2>3. Aligned(p, v) = [points EXCEPT ![p] = row]
    BY <1>1 DEF Aligned, Points
  <2>4. QED
    BY <1>1, <2>2, <2>3 DEF Points
<1>4. ASSUME NEW removed
      PROVE  Without(removed) \in Points
  BY <1>1, PointType DEF Without, Points
<1>5. CASE DropChunks
  BY <1>1, <1>2, <1>5, PointType DEF DropChunks, Points
<1>6. ASSUME NEW batch \in SUBSET Chunks, Persist(batch)
      PROVE  points' \in Points
  <2> DEFINE row == [c \in Chunks |-> IF c \in batch \ writer.held
                                      THEN Point(writer.version, writer.version)
                                      ELSE points[writer.placed][c]]
  <2>1. row \in [Chunks -> PointSet]
    BY <1>1, <1>2, PointType
  <2>2. points' = [points EXCEPT ![writer.placed] = row]
    BY <1>1, <1>2, <1>6 DEF Persist, Points
  <2>3. QED
    BY <1>1, <1>2, <2>1, <2>2, RowType
<1>7. CASE StampProvenance
  <2> DEFINE old == points[writer.project]
             row == [c \in Chunks |-> IF c \in ChunksOf[writer.version] /\ old[c] # Absent
                                      THEN Point(writer.version, old[c].source_version)
                                      ELSE old[c]]
  <2>1. \A c \in Chunks : old[c].source_version \in Maybe
    BY <1>1, <1>2 DEF PointSet
  <2>2. row \in [Chunks -> PointSet]
    BY <1>1, <1>2, <2>1, PointType
  <2>3. points' = [points EXCEPT ![writer.project] = row]
    BY <1>1, <1>2, <1>7 DEF StampProvenance, Points
  <2>4. QED
    BY <1>1, <1>2, <2>2, <2>3, RowType
<1>8. CASE StampSpans
  BY <1>2, <1>3, <1>8 DEF StampSpans
<1>9. CASE Prune
  <2> DEFINE row == [c \in Chunks |-> IF c \in ChunksOf[writer.version]
                                      THEN points[writer.project][c] ELSE Absent]
  <2>1. row \in [Chunks -> PointSet]
    BY <1>1, <1>2, PointType
  <2>2. points' = [points EXCEPT ![writer.project] = row]
    BY <1>1, <1>2, <1>9 DEF Prune, Points
  <2>3. QED
    BY <1>1, <1>2, <2>1, <2>2, RowType
<1>10. CASE DeletePoints \/ DeleteOld \/ DeletePoint
  BY <1>4, <1>10 DEF DeletePoints, DeleteOld, DeletePoint
<1>11. ASSUME NEW batch \in SUBSET job.found, CopyBatch(batch)
       PROVE  points' \in Points
  <2> DEFINE from(c) == {p \in Projects : <<p, c>> \in batch \cap Stored}
             row == [c \in Chunks |-> IF from(c) = {} THEN points[job.to][c]
                                      ELSE points[CHOOSE p \in from(c) : TRUE][c]]
  <2>1. \A c \in Chunks : from(c) # {} => (CHOOSE p \in from(c) : TRUE) \in Projects
    OBVIOUS
  <2>2. row \in [Chunks -> PointSet]
    BY <1>1, <1>2, <2>1
  <2>3. points' = [points EXCEPT ![job.to] = row]
    BY <1>1, <1>2, <1>11 DEF CopyBatch, Copied, Points
  <2>4. QED
    BY <1>1, <1>2, <2>2, <2>3, RowType
<1>12. CASE ImportPoints
  <2> DEFINE row == [c \in Chunks |-> IF c \in ChunksOf[importer.version] \ importer.held
                                      THEN Imported(importer.version)
                                      ELSE points[importer.project][c]]
  <2>1. row \in [Chunks -> PointSet]
    BY <1>1, <1>2, PointType
  <2>2. points' = [points EXCEPT ![importer.project] = row]
    BY <1>1, <1>2, <1>12 DEF ImportPoints, Points
  <2>3. QED
    BY <1>1, <1>2, <2>1, <2>2, RowType
<1>13. CASE StopImporter \/ \E newer \in BOOLEAN : ImportHead(newer)
  BY <1>1, <1>2, <1>3, <1>13 DEF StopImporter, ImportHead
<1>14. QED
  BY <1>1, <1>5, <1>6, <1>7, <1>8, <1>9, <1>10, <1>11, <1>12, <1>13, PointsChange

LEMMA HeadsType == TypeOK /\ [Next]_vars => heads' \in [Projects -> Maybe]
<1> SUFFICES ASSUME TypeOK, [Next]_vars
             PROVE  heads' \in [Projects -> Maybe]
  OBVIOUS
<1>1. /\ heads \in [Projects -> Maybe] /\ None \in Maybe /\ rule \in Projects
      /\ writer.project \in Projects /\ writer.version \in Maybe
      /\ importer.version \in Maybe /\ job.to \in Projects
  BY DEF TypeOK, Maybe
<1>2. QED
  BY <1>1, HeadsChange DEF DropHead, Publish, RemoveHeads, RehomeHead, RemoveOldHead, ImportHead,
                           DeleteMemory

LEMMA FlagsType == TypeOK /\ [Next]_vars => {fact, excluded, whole, purged}' \subseteq BOOLEAN
<1> SUFFICES ASSUME TypeOK, [Next]_vars
             PROVE  {fact', excluded', whole', purged'} \subseteq BOOLEAN
  OBVIOUS
<1>1. fact \in BOOLEAN /\ excluded \in BOOLEAN /\ whole \in BOOLEAN /\ purged \in BOOLEAN
  BY DEF TypeOK
<1>2. fact' \in BOOLEAN
  BY <1>1, FactChange, Zenon DEF DeleteFacts, AddFact
<1>3. excluded' \in BOOLEAN /\ purged' \in BOOLEAN
  BY <1>1, PolicyChange, Zenon DEF StartPurge, Restore, RemoveHeads, stores, policy, history
<1>4. whole' \in BOOLEAN
  BY <1>1, WholeChange, Zenon DEF DropChunks, Prune, Publish, DeletePoints, DeleteMemory, DeletePoint
<1>5. QED
  BY <1>2, <1>3, <1>4


LEMMA TypeInv == TypeOK /\ [Next]_vars => TypeOK'
<1> SUFFICES ASSUME TypeOK, [Next]_vars
             PROVE  TypeOK'
  OBVIOUS
<1>0. /\ points' \in [Projects -> [Chunks -> [source_hash : Maybe, source_version : Maybe,
                                          source_path_local : BOOLEAN]]]
      /\ heads' \in [Projects -> Maybe]
      /\ {fact', excluded', whole', purged'} \subseteq BOOLEAN
  BY PointsType, HeadsType, FlagsType DEF Points, PointSet
<1> USE <1>0 DEF TypeOK, stores, policy, history, Count
<1>1. CASE StartRefresh
  BY <1>1, ZenonT(40) DEF StartRefresh, NoWriter, Maybe
<1>2. CASE Skip
  BY <1>2 DEF Skip, NoWriter, Stored, Maybe
<1>3. CASE Ignore
  BY <1>3 DEF Ignore, NoWriter, Stored, Maybe
<1>4. CASE ReadFile
  BY <1>4 DEF ReadFile, Replacing, NoWriter, Maybe
<1>5. CASE FindGone
  <2>1. PICK i \in Projects \X Chunks : writer' = [NoWriter EXCEPT !.at = "gone", !.project = i[1]]
    BY <1>5 DEF FindGone, Stored
  <2>2. UNCHANGED <<kind, file, rule, owed, job, importer, deleting, events, disturbed>>
    BY <1>5 DEF FindGone
  <2>3. QED
    BY <2>1, <2>2, ZenonT(40) DEF NoWriter, Maybe
<1>6. CASE DropChunks
  BY <1>6 DEF DropChunks
<1>7. CASE DropHead
  BY <1>7 DEF DropHead, NoWriter, Maybe
<1>8. CASE Store
  BY <1>8 DEF Store, In
<1>9. ASSUME NEW batch \in SUBSET Chunks, Persist(batch)
      PROVE  TypeOK'
  BY <1>9 DEF Persist
<1>10. CASE StampProvenance
  BY <1>10 DEF StampProvenance
<1>11. CASE StampSpans
  BY <1>11 DEF StampSpans
<1>12. CASE Prune
  BY <1>12 DEF Prune
<1>13. CASE Publish
  BY <1>13 DEF Publish, NoWriter, Stored, Maybe
<1>14. CASE WriterRefused
  BY <1>14 DEF WriterRefused, NoWriter, Maybe
<1>15. CASE ScanPoints
  BY <1>15 DEF ScanPoints, Stored
<1>16. CASE ListHeads
  BY <1>16 DEF ListHeads
<1>17. CASE DeleteFacts
  BY <1>17 DEF DeleteFacts
<1>18. CASE DeletePoints
  BY <1>18 DEF DeletePoints
<1>19. CASE RemoveHeads
  BY <1>19 DEF RemoveHeads, NoJob
<1>20. ASSUME NEW entire \in BOOLEAN, SaveRules(entire)
      PROVE  TypeOK'
  BY <1>20 DEF SaveRules
<1>21. ASSUME NEW from \in SUBSET Projects, ApplyRules(from)
      PROVE  TypeOK'
  BY <1>21 DEF ApplyRules, NoJob
<1>22. CASE ScanStale
  BY <1>22 DEF ScanStale, Stored
<1>23. ASSUME NEW batch \in SUBSET job.found, CopyBatch(batch)
      PROVE  TypeOK'
  BY <1>23 DEF CopyBatch, Stored
<1>24. CASE DeleteOld
  BY <1>24 DEF DeleteOld
<1>25. CASE PointsMoved
  BY <1>25 DEF PointsMoved
<1>26. ASSUME NEW p \in Projects, RehomeHead(p)
      PROVE  TypeOK'
  BY <1>26 DEF RehomeHead
<1>27. CASE RemoveOldHead
  BY <1>27 DEF RemoveOldHead
<1>28. CASE MoveEnds
  BY <1>28 DEF MoveEnds, NoJob
<1>29. CASE MoveFails
  BY <1>29 DEF MoveFails, NoJob, Stored
<1>30. CASE ImportPoints
  BY <1>30 DEF ImportPoints
<1>31. ASSUME NEW newer \in BOOLEAN, ImportHead(newer)
      PROVE  TypeOK'
  <2>1. importer' \in [at : {"off", "placed", "head"}, version : Maybe, project : Projects,
                       held : SUBSET Chunks]
    BY <1>31 DEF ImportHead, NoImporter, Maybe
  <2>2. CASE newer
    BY <1>31, <2>1, <2>2 DEF ImportHead, Maybe
  <2>3. CASE ~newer
    BY <1>31, <2>1, <2>3 DEF ImportHead
  <2>4. QED
    BY <2>2, <2>3
<1>32. CASE ImportRefused
  BY <1>32 DEF ImportRefused, NoImporter, Maybe
<1>33. CASE StartPurge
  <2>1. /\ job' = [NoJob EXCEPT !.at = "excluded"] /\ events' \in 0..MaxEvents
        /\ UNCHANGED <<kind, file, rule, owed, writer, importer, deleting, disturbed>>
    BY <1>33 DEF StartPurge
  <2>2. QED
    BY <2>1 DEF NoJob
<1>34. CASE Restore
  BY <1>34 DEF Restore
<1>35. CASE Unplace
  <2>1. /\ job' = [NoJob EXCEPT !.at = "placing", !.from = {rule}, !.to = Home]
        /\ rule' = Home /\ events' \in 0..MaxEvents
        /\ UNCHANGED <<kind, file, owed, writer, importer, deleting, disturbed>>
    BY <1>35 DEF Unplace
  <2>2. QED
    BY <2>1 DEF NoJob
<1>36. CASE AddFact
  BY <1>36 DEF AddFact
<1>37. ASSUME NEW from \in Projects, NEW to \in Projects, StartMove(from, to)
      PROVE  TypeOK'
  <2> DEFINE found == {i \in Stored : i[1] = from}
  <2>1. /\ job' = [NoJob EXCEPT !.at = "paired", !.from = {from}, !.to = to, !.found = found]
        /\ events' \in 0..MaxEvents
        /\ UNCHANGED <<kind, file, rule, owed, writer, importer, deleting, disturbed>>
    BY <1>37 DEF StartMove
  <2>2. found \in SUBSET (Projects \X Chunks)
    BY DEF Stored
  <2> HIDE DEF found
  <2>3. QED
    BY <2>1, <2>2 DEF NoJob
<1>38. ASSUME NEW to \in Projects, ImportRule(to)
      PROVE  TypeOK'
  BY <1>38 DEF ImportRule
<1>39. ASSUME NEW v \in Versions, Ingest(v)
      PROVE  TypeOK'
  <2>1. /\ writer' = Replacing(v) /\ events' \in 0..MaxEvents /\ disturbed' \in {"no", "before"}
        /\ UNCHANGED <<kind, file, rule, owed, job, importer, deleting>>
    BY <1>39 DEF Ingest
  <2>2. QED
    BY <2>1, ZenonT(40) DEF Replacing, NoWriter, Maybe
<1>40. ASSUME NEW v \in Versions, Receive(v)
      PROVE  TypeOK'
  BY <1>40 DEF Receive, In, Maybe
<1>41. ASSUME NEW v \in Maybe, Edit(v)
      PROVE  TypeOK'
  BY <1>41 DEF Edit
<1>42. ASSUME NEW i \in Stored, DeleteMemory(i)
      PROVE  TypeOK'
  BY <1>42 DEF DeleteMemory, Stored
<1>43. CASE DeletePoint
  BY <1>43 DEF DeletePoint
<1>44. CASE StopWriter
  BY <1>44 DEF StopWriter, NoWriter, Maybe
<1>45. CASE StopJob
  BY <1>45 DEF StopJob, NoJob
<1>46. CASE StopImporter
  <2>1. importer' \in [at : {"off", "placed", "head"}, version : Maybe, project : Projects,
                       held : SUBSET Chunks]
    BY <1>46 DEF StopImporter, NoImporter, Maybe
  <2>2. QED
    BY <1>46, <2>1 DEF StopImporter
<1>47. CASE UNCHANGED vars
  BY <1>47 DEF vars
<1>48. QED
  BY <1>1, <1>2, <1>3, <1>4, <1>5, <1>6, <1>7, <1>8, <1>9, <1>10, <1>11, <1>12, <1>13,
     <1>14, <1>15, <1>16, <1>17, <1>18, <1>19, <1>20, <1>21, <1>22, <1>23, <1>24,
     <1>25, <1>26, <1>27, <1>28, <1>29, <1>30, <1>31, <1>32, <1>33, <1>34, <1>35,
     <1>36, <1>37, <1>38, <1>39, <1>40, <1>41, <1>42, <1>43, <1>44, <1>45, <1>46, <1>47
     DEF Next, Refresh, Replace, Purging, Moving, Importing, User, Stops

-----------------------------------------------------------------------------
(* Purge *)

(* Where a job relies on what it collected.                                *)
Relying == {"scanned", "listed", "factless", "pointless", "stale", "copied"}

(* What brings a job to the steps at which it relies on what it collected. *)
LEMMA JobChange ==
  TypeOK /\ [Next]_vars =>
    \/ job' = job
    \/ job'.at \notin Relying
    \/ ScanPoints
    \/ ListHeads
    \/ DeleteFacts
    \/ DeletePoints
    \/ ScanStale
    \/ \E batch \in SUBSET job.found : CopyBatch(batch)
    \/ DeleteOld
<1> SUFFICES ASSUME TypeOK, [Next]_vars
             PROVE  \/ job' = job
                    \/ job'.at \notin Relying
                    \/ ScanPoints
                    \/ ListHeads
                    \/ DeleteFacts
                    \/ DeletePoints
                    \/ ScanStale
                    \/ \E batch \in SUBSET job.found : CopyBatch(batch)
                    \/ DeleteOld
  OBVIOUS
<1> USE DEF TypeOK, NoJob, Relying
<1>1. Refresh =>
       \/ job' = job
       \/ job'.at \notin Relying
  BY DEF Refresh, StartRefresh, Skip, Ignore, ReadFile, FindGone, DropChunks, DropHead
<1>2. Replace =>
       \/ job' = job
       \/ job'.at \notin Relying
  BY DEF Replace, Store, Persist, StampProvenance, StampSpans, Prune, Publish,
         WriterRefused
<1>3. Purging =>
       \/ job' = job
       \/ job'.at \notin Relying
       \/ ScanPoints
       \/ ListHeads
       \/ DeleteFacts
       \/ DeletePoints
  BY DEF Purging, RemoveHeads
<1>4. Moving =>
       \/ job' = job
       \/ job'.at \notin Relying
       \/ ScanStale
       \/ \E batch \in SUBSET job.found : CopyBatch(batch)
       \/ DeleteOld
  <2>1. ASSUME NEW entire \in BOOLEAN, SaveRules(entire)
       PROVE  job' = job \/ job'.at \notin Relying
    BY <2>1 DEF SaveRules
  <2>2. ASSUME NEW from \in SUBSET Projects, ApplyRules(from)
       PROVE  job' = job \/ job'.at \notin Relying
    BY <2>2 DEF ApplyRules
  <2>3. PointsMoved => job' = job \/ job'.at \notin Relying
    BY DEF PointsMoved
  <2>4. ASSUME NEW p \in Projects, RehomeHead(p)
       PROVE  job' = job \/ job'.at \notin Relying
    BY <2>4 DEF RehomeHead
  <2>5. RemoveOldHead => job' = job \/ job'.at \notin Relying
    BY DEF RemoveOldHead
  <2>6. MoveEnds => job' = job \/ job'.at \notin Relying
    BY DEF MoveEnds
  <2>7. MoveFails => job' = job \/ job'.at \notin Relying
    BY DEF MoveFails
  <2>8. QED
    BY <2>1, <2>2, <2>3, <2>4, <2>5, <2>6, <2>7 DEF Moving
<1>5. Importing =>
       \/ job' = job
       \/ job'.at \notin Relying
  BY DEF Importing, ImportPoints, ImportHead, ImportRefused
<1>6. User =>
       \/ job' = job
       \/ job'.at \notin Relying
  <2>1. StartPurge \/ Restore \/ Unplace \/ AddFact => job' = job \/ job'.at \notin Relying
    BY DEF StartPurge, Restore, Unplace, AddFact
  <2>2. ASSUME NEW from \in Projects, NEW to \in Projects, StartMove(from, to)
        PROVE  job' = job \/ job'.at \notin Relying
    BY <2>2 DEF StartMove
  <2>3. ASSUME NEW to \in Projects, ImportRule(to)
        PROVE  job' = job \/ job'.at \notin Relying
    BY <2>3 DEF ImportRule
  <2>4. ASSUME NEW v \in Maybe, Ingest(v) \/ Receive(v) \/ Edit(v)
        PROVE  job' = job \/ job'.at \notin Relying
    BY <2>4 DEF Ingest, Receive, Edit
  <2>5. ASSUME NEW i \in Stored, DeleteMemory(i)
        PROVE  job' = job \/ job'.at \notin Relying
    BY <2>5 DEF DeleteMemory
  <2>6. QED
    BY <2>1, <2>2, <2>3, <2>4, <2>5 DEF User, Maybe
<1>7. DeletePoint => job' = job
  BY DEF DeletePoint
<1>8. Stops =>
       \/ job' = job
       \/ job'.at \notin Relying
  BY DEF Stops, StopWriter, StopJob, StopImporter
<1>9. UNCHANGED vars => job' = job
  BY DEF vars
<1>10. QED
  BY <1>1, <1>2, <1>3, <1>4, <1>5, <1>6, <1>7, <1>8, <1>9 DEF Next

(* Behind an exclusion nothing is added: every write asks the guard.       *)
LEMMA NothingAdded ==
  ASSUME TypeOK, [Next]_vars, excluded
  PROVE  /\ Stored' \subseteq Stored
         /\ \A p \in Projects : heads'[p] # None => heads[p] # None
         /\ fact' => fact
<1>1. /\ points \in Points /\ heads \in [Projects -> Maybe]
      /\ writer.project \in Projects /\ writer.placed \in Projects
      /\ job.to \in Projects
  BY DEF TypeOK, Points, PointSet
<1>2. ASSUME \A p \in Projects, c \in Chunks : points'[p][c] # Absent => points[p][c] # Absent
      PROVE  Stored' \subseteq Stored
  BY <1>2 DEF Stored
<1>3. ASSUME NEW batch \in SUBSET Chunks, Persist(batch)
      PROVE  Stored' \subseteq Stored
  BY <1>1, <1>2, <1>3 DEF Persist, Points
<1>4. CASE StampProvenance
  BY <1>1, <1>2, <1>4 DEF StampProvenance, Points
<1>5. CASE StampSpans
  BY <1>1, <1>2, <1>5 DEF StampSpans, Aligned, Points
<1>6. CASE DropChunks \/ Prune
  BY <1>1, <1>2, <1>6 DEF DropChunks, Prune, Points
<1>7. CASE DeletePoints \/ DeleteOld \/ DeletePoint
  <2>1. \A removed : points' = Without(removed) => Stored' \subseteq Stored
    BY <1>1, <1>2 DEF Without, Points
  <2>2. QED
    BY <1>7, <2>1 DEF DeletePoints, DeleteOld, DeletePoint
<1>8. ASSUME NEW batch \in SUBSET job.found, CopyBatch(batch)
      PROVE  Stored' \subseteq Stored
  <2>1. batch \cap Stored = {}
    BY <1>8 DEF CopyBatch
  <2>2. Copied(batch) = [points EXCEPT ![job.to] = [c \in Chunks |-> points[job.to][c]]]
    BY <1>1, <2>1 DEF Copied, Points
  <2>3. QED
    BY <1>1, <1>2, <1>8, <2>2 DEF CopyBatch, Points
<1>9. (ImportPoints \/ StopImporter \/ \E newer \in BOOLEAN : ImportHead(newer)) => points' = points
  BY DEF ImportPoints, StopImporter, ImportHead
<1>10. Stored' \subseteq Stored
  <2>1. points' = points => Stored' \subseteq Stored
    BY <1>2
  <2>2. QED
    BY <1>3, <1>4, <1>5, <1>6, <1>7, <1>8, <1>9, <2>1, PointsChange
<1>11. \A p \in Projects : heads'[p] # None => heads[p] # None
  BY <1>1, HeadsChange DEF DropHead, Publish, RemoveHeads, RehomeHead, RemoveOldHead, ImportHead,
                           DeleteMemory
<1>12. fact' => fact
  BY FactChange DEF DeleteFacts, AddFact
<1>13. QED
  BY <1>10, <1>11, <1>12

(* A purge collects what there is after the exclusion and deletes all it   *)
(* collected.                                                              *)
LEMMA PurgeInvStep ==
  TypeOK /\ PurgeInv /\ PurgedInv /\ PurgedStaysGone /\ [Next]_vars
    => PurgeInv' /\ PurgedInv' /\ PurgedStaysGone'
<1> SUFFICES ASSUME TypeOK, PurgeInv, PurgedInv, PurgedStaysGone, [Next]_vars
             PROVE  PurgeInv' /\ PurgedInv' /\ PurgedStaysGone'
  OBVIOUS
<1> USE DEF PurgeInv, PurgedInv, PurgedStaysGone
<1>1. CASE ~excluded'
  <2>1. ~purged'
    BY <1>1, PolicyChange DEF StartPurge, RemoveHeads, Restore, policy
  <2>2. QED
    BY <1>1, <2>1
<1>2. CASE ~excluded /\ excluded'
  <2>1. StartPurge
    BY <1>2, PolicyChange DEF RemoveHeads, Restore, policy
  <2>2. job'.at = "excluded" /\ purged' = purged
    BY <2>1 DEF StartPurge, NoJob, history
  <2>3. QED
    BY <1>2, <2>2
<1>3. CASE excluded /\ excluded'
  <2>1. /\ Stored' \subseteq Stored
        /\ fact' => fact
        /\ \A p \in Projects : heads'[p] # None => heads[p] # None
    BY <1>3, NothingAdded
  <2>2. PurgeInv'
    <3>1. CASE job' = job
      BY <1>3, <2>1, <3>1
    <3>2. CASE job'.at \notin Relying
      BY <3>2 DEF Relying
    <3>3. CASE ScanPoints
      BY <1>3, <2>1, <3>3 DEF ScanPoints, TypeOK
    <3>4. CASE ListHeads
      BY <1>3, <2>1, <3>4 DEF ListHeads, TypeOK
    <3>5. CASE DeleteFacts
      BY <1>3, <2>1, <3>5 DEF DeleteFacts, TypeOK
    <3>6. CASE DeletePoints
      <4>1. Stored \subseteq job.found /\ points' = Without(job.found)
        BY <1>3, <3>6 DEF DeletePoints
      <4>2. Stored' = {}
        BY <4>1 DEF Stored, Without
      <4>3. QED
        BY <1>3, <2>1, <3>6, <4>2 DEF DeletePoints, TypeOK
    <3>7. CASE ScanStale \/ DeleteOld \/ \E batch \in SUBSET job.found : CopyBatch(batch)
      <4>1. CASE ScanStale
        BY <4>1 DEF ScanStale, TypeOK
      <4>2. CASE DeleteOld
        BY <4>2 DEF DeleteOld, TypeOK
      <4>3. ASSUME NEW batch \in SUBSET job.found, CopyBatch(batch)
            PROVE  PurgeInv'
        BY <4>3 DEF CopyBatch, TypeOK
      <4>4. QED
        BY <3>7, <4>1, <4>2, <4>3
    <3>8. QED
      BY <3>1, <3>2, <3>3, <3>4, <3>5, <3>6, <3>7, JobChange
  <2>3. PurgedInv'
    BY <1>3
  <2>4. PurgedStaysGone'
    <3>1. CASE purged' = purged
      BY <2>1, <3>1
    <3>2. CASE RemoveHeads
      BY <1>3, <2>1, <3>2 DEF RemoveHeads, TypeOK
    <3>3. CASE StartPurge \/ Restore
      BY <2>1, <3>3 DEF StartPurge, Restore, history
    <3>4. QED
      BY <3>1, <3>2, <3>3, PolicyChange
  <2>5. QED
    BY <2>2, <2>3, <2>4
<1>4. QED
  BY <1>1, <1>2, <1>3

-----------------------------------------------------------------------------
(* Replacement *)

(* Where a writer has begun to replace the source.                         *)
Replaces == {"store", "embedded", "stored", "stamped", "spanned", "pruned"}

LEMMA WriterChange ==
  TypeOK /\ [Next]_vars =>
    \/ writer' = writer
    \/ writer'.at \notin Replaces
    \/ ReadFile
    \/ \E v \in Versions : Ingest(v)
    \/ Store
    \/ \E batch \in SUBSET Chunks : Persist(batch)
    \/ StampProvenance
    \/ StampSpans
    \/ Prune
<1> SUFFICES ASSUME TypeOK, [Next]_vars
             PROVE  \/ writer' = writer
                    \/ writer'.at \notin Replaces
                    \/ ReadFile
                    \/ \E v \in Versions : Ingest(v)
                    \/ Store
                    \/ \E batch \in SUBSET Chunks : Persist(batch)
                    \/ StampProvenance
                    \/ StampSpans
                    \/ Prune
  OBVIOUS
<1> USE DEF TypeOK, NoWriter, Replaces
<1>1. Refresh =>
       \/ writer' = writer
       \/ writer'.at \notin Replaces
       \/ ReadFile
  <2>1. StartRefresh => writer' = writer \/ writer'.at \notin Replaces
    BY DEF StartRefresh
  <2>2. Skip => writer' = writer \/ writer'.at \notin Replaces
    BY DEF Skip
  <2>3. Ignore => writer' = writer \/ writer'.at \notin Replaces
    BY DEF Ignore
  <2>4. FindGone => writer' = writer \/ writer'.at \notin Replaces
    BY DEF FindGone
  <2>5. DropChunks => writer' = writer \/ writer'.at \notin Replaces
    BY DEF DropChunks
  <2>6. DropHead => writer' = writer \/ writer'.at \notin Replaces
    BY DEF DropHead
  <2>7. QED
    BY <2>1, <2>2, <2>3, <2>4, <2>5, <2>6 DEF Refresh
<1>2. Replace =>
       \/ writer' = writer
       \/ writer'.at \notin Replaces
       \/ Store
       \/ \E batch \in SUBSET Chunks : Persist(batch)
       \/ StampProvenance
       \/ StampSpans
       \/ Prune
  BY DEF Replace, Publish, WriterRefused
<1>3. Purging =>
       \/ writer' = writer
       \/ writer'.at \notin Replaces
  BY DEF Purging, ScanPoints, ListHeads, DeleteFacts, DeletePoints, RemoveHeads
<1>4. Moving =>
       \/ writer' = writer
       \/ writer'.at \notin Replaces
  BY DEF Moving, SaveRules, ApplyRules, ScanStale, CopyBatch, DeleteOld, PointsMoved,
         RehomeHead, RemoveOldHead, MoveEnds, MoveFails
<1>5. Importing =>
       \/ writer' = writer
       \/ writer'.at \notin Replaces
  BY DEF Importing, ImportPoints, ImportHead, ImportRefused
<1>6. User =>
       \/ writer' = writer
       \/ writer'.at \notin Replaces
       \/ \E v \in Versions : Ingest(v)
  BY DEF User, StartPurge, Restore, Unplace, AddFact, StartMove, ImportRule, Receive,
         Edit, DeleteMemory
<1>7. DeletePoint => writer' = writer
  BY DEF DeletePoint
<1>8. Stops =>
       \/ writer' = writer
       \/ writer'.at \notin Replaces
  BY DEF Stops, StopWriter, StopJob, StopImporter
<1>9. UNCHANGED vars => writer' = writer
  BY DEF vars
<1>10. QED
  BY <1>1, <1>2, <1>3, <1>4, <1>5, <1>6, <1>7, <1>8, <1>9 DEF Next

LEMMA WriterInvStep == TypeOK /\ WriterInv /\ [Next]_vars => WriterInv'
<1> SUFFICES ASSUME TypeOK, WriterInv, [Next]_vars
             PROVE  WriterInv'
  OBVIOUS
<1>1. importer'.at # "off" => importer'.version \in Versions
  <2>1. \/ importer' = importer \/ importer'.at = "off"
        \/ ImportPoints \/ \E v \in Versions : Receive(v)
    <3> USE DEF stores, policy, history, NoImporter
    <3>1. Refresh => importer' = importer
      BY DEF Refresh, StartRefresh, Skip, Ignore, ReadFile, FindGone, DropChunks, DropHead
    <3>2. Replace => importer' = importer
      BY DEF Replace, Store, Persist, StampProvenance, StampSpans, Prune, Publish, WriterRefused
    <3>3. Purging => importer' = importer
      BY DEF Purging, ScanPoints, ListHeads, DeleteFacts, DeletePoints, RemoveHeads
    <3>4. Moving => importer' = importer
      BY DEF Moving, SaveRules, ApplyRules, ScanStale, CopyBatch, DeleteOld, PointsMoved,
             RehomeHead, RemoveOldHead, MoveEnds, MoveFails
    <3>5. Importing => ImportPoints \/ importer'.at = "off"
      BY DEF Importing, ImportHead, ImportRefused
    <3>6. User => importer' = importer \/ \E v \in Versions : Receive(v)
      BY DEF User, StartPurge, Restore, Unplace, AddFact, StartMove, ImportRule, Ingest, Edit,
             DeleteMemory
    <3>7. DeletePoint \/ Stops => importer' = importer \/ importer'.at = "off"
      BY DEF DeletePoint, Stops, StopWriter, StopJob, StopImporter
    <3>8. UNCHANGED vars => importer' = importer
      BY DEF vars
    <3>9. QED
      BY <3>1, <3>2, <3>3, <3>4, <3>5, <3>6, <3>7, <3>8 DEF Next
  <2>2. CASE ImportPoints
    BY <2>2 DEF ImportPoints, WriterInv, TypeOK
  <2>3. ASSUME NEW v \in Versions, Receive(v)
        PROVE  importer'.version \in Versions
    BY <2>3 DEF Receive
  <2>4. QED
    BY <2>1, <2>2, <2>3 DEF WriterInv
<1> DEFINE Parts == /\ writer'.at \in Replaces => writer'.version \in Versions
                    /\ writer'.at \in Replaces \ {"store", "embedded"} => writer'.todo = {}
                    /\ writer'.at \in {"store", "embedded"} =>
                         writer'.todo \subseteq ChunksOf[writer'.version]
<1>2. CASE writer' = writer \/ writer'.at \notin Replaces
  <2>1. Parts
    BY <1>2 DEF WriterInv, Replaces
  <2>2. QED
    BY <1>1, <2>1 DEF WriterInv, Replaces
<1>3. CASE ReadFile \/ \E v \in Versions : Ingest(v)
  <2>1. /\ writer'.at = "store" /\ writer'.version \in Versions
        /\ writer'.todo = ChunksOf[writer'.version]
    <3>1. CASE ReadFile
      BY <3>1 DEF ReadFile, Replacing, NoWriter, TypeOK, Maybe
    <3>2. ASSUME NEW v \in Versions, Ingest(v)
          PROVE  /\ writer'.at = "store" /\ writer'.version \in Versions
                 /\ writer'.todo = ChunksOf[writer'.version]
      BY <3>2 DEF Ingest, Replacing, NoWriter
    <3>3. QED
      BY <1>3, <3>1, <3>2
  <2>2. QED
    BY <1>1, <2>1 DEF WriterInv
<1>4. CASE Store \/ StampProvenance \/ StampSpans \/ Prune
  <2>1. CASE Store
    BY <1>1, <2>1 DEF Store, TypeOK, WriterInv
  <2>2. CASE StampProvenance
    BY <1>1, <2>2 DEF StampProvenance, TypeOK, WriterInv
  <2>3. CASE StampSpans
    BY <1>1, <2>3 DEF StampSpans, TypeOK, WriterInv
  <2>4. CASE Prune
    BY <1>1, <2>4 DEF Prune, TypeOK, WriterInv
  <2>5. QED
    BY <1>4, <2>1, <2>2, <2>3, <2>4
<1>5. ASSUME NEW batch \in SUBSET Chunks, Persist(batch)
      PROVE  WriterInv'
  <2>1. /\ writer'.version = writer.version /\ writer'.todo = writer.todo \ batch
        /\ writer'.at = IF batch = writer.todo THEN "stored" ELSE "store"
    BY <1>5 DEF Persist, TypeOK
  <2>2. writer.at = "embedded"
    BY <1>5 DEF Persist
  <2>3. QED
    BY <1>1, <2>1, <2>2 DEF WriterInv
<1>6. QED
  BY <1>2, <1>3, <1>4, <1>5, WriterChange

(* Alignment writes one field, and makes a point read here one of v.       *)
LEMMA AlignedFields ==
  ASSUME NEW point \in PointSet, NEW v \in Maybe
  PROVE  WithSpans(point, v) =
           [source_hash |-> point.source_hash, source_version |-> v,
            source_path_local |-> point.source_path_local]
  BY DEF PointSet, WithSpans

LEMMA AlignedPoint ==
  ASSUME NEW point \in PointSet, NEW v \in Maybe
  PROVE  /\ WithSpans(point, v).source_hash = point.source_hash
         /\ WithSpans(point, v).source_version = v
         /\ v \in Versions => WithSpans(point, v) # Absent
         /\ point.source_hash = v /\ point.source_path_local = TRUE
              => WithSpans(point, v) = Point(v, v)
<1>1. WithSpans(point, v) =
        [source_hash |-> point.source_hash, source_version |-> v,
         source_path_local |-> point.source_path_local]
  BY AlignedFields
<1>2. /\ WithSpans(point, v).source_hash = point.source_hash
      /\ WithSpans(point, v).source_version = v
  BY <1>1
<1>3. v \in Versions => WithSpans(point, v) # Absent
  BY <1>2 DEF Absent
<1>4. ASSUME point.source_hash = v, point.source_path_local = TRUE
      PROVE  WithSpans(point, v) = Point(v, v)
  BY <1>1, <1>4, Zenon DEF Point
<1> QED
  BY <1>2, <1>3, <1>4

(* What an alignment and an import write, point by point.                  *)
LEMMA AlignedWrites ==
  ASSUME TypeOK, NEW q \in Projects, NEW v \in Versions, points' = Aligned(q, v),
         NEW p \in Projects, NEW c \in Chunks
  PROVE  points'[p][c] = IF p = q /\ c \in ChunksOf[v] /\ points[p][c] # Absent
                         THEN WithSpans(points[p][c], v) ELSE points[p][c]
  BY DEF Aligned, TypeOK

LEMMA ImportWrites ==
  ASSUME TypeOK, ImportPoints, NEW p \in Projects, NEW c \in Chunks
  PROVE  points'[p][c] =
           IF p = importer.project /\ c \in ChunksOf[importer.version] \ importer.held
           THEN Imported(importer.version) ELSE points[p][c]
  BY DEF ImportPoints, TypeOK

(* While a version stays whole, only a move deletes points, and a writer   *)
(* that prunes under no job.                                               *)
LEMMA PointsStay ==
  ASSUME TypeOK, WriterInv, [Next]_vars, whole, whole'
  PROVE  Stored \subseteq Stored' \/ DeleteOld \/ (Prune /\ job.at = "off")
<1>1. /\ points \in Points
      /\ writer.project \in Projects /\ writer.placed \in Projects
      /\ importer.project \in Projects /\ job.to \in Projects /\ rule \in Projects
      /\ \A p \in Projects, c \in Chunks : points[p][c].source_hash \in Maybe
                                        /\ points[p][c].source_version \in Maybe
  BY DEF TypeOK, Points, PointSet
<1>2. ASSUME \A p \in Projects, c \in Chunks : points[p][c] # Absent => points'[p][c] # Absent
      PROVE  Stored \subseteq Stored'
  BY <1>2 DEF Stored
<1>3. /\ \A h \in Maybe, v \in Versions : Point(v, h) # Absent /\ Point(h, v) # Absent
      /\ \A v \in Versions : Imported(v) # Absent
  BY DEF Point, Imported, Absent, Maybe
<1>4. Versions \subseteq Maybe
  BY DEF Maybe
<1>5. ASSUME NEW p \in Projects, NEW v \in Versions, points' = Aligned(p, v)
      PROVE  Stored \subseteq Stored'
  <2>0. v \in Maybe /\ \A q \in Projects, c \in Chunks : points[q][c] \in PointSet
    BY DEF TypeOK, PointSet, Maybe
  <2>1. ASSUME NEW q \in Projects, NEW c \in Chunks, points[q][c] # Absent
        PROVE  points'[q][c] # Absent
    <3>1. points'[q][c] = IF q = p /\ c \in ChunksOf[v] /\ points[q][c] # Absent
                         THEN WithSpans(points[q][c], v) ELSE points[q][c]
      BY <1>5, AlignedWrites
    <3>2. WithSpans(points[q][c], v) # Absent
      BY <2>0, AlignedPoint
    <3>3. QED
      BY <2>1, <3>1, <3>2
  <2>2. QED
    BY <1>2, <2>1
<1>6. ASSUME NEW batch \in SUBSET Chunks, Persist(batch)
      PROVE  Stored \subseteq Stored'
  <2>1. writer.version \in Versions
    BY <1>6 DEF Persist, WriterInv
  <2>2. QED
    BY <1>1, <1>2, <1>3, <1>4, <1>6, <2>1 DEF Persist, Points
<1>7. CASE StampProvenance
  <2>1. writer.version \in Versions
    BY <1>7 DEF StampProvenance, WriterInv
  <2>2. QED
    BY <1>1, <1>2, <1>3, <1>7, <2>1 DEF StampProvenance, Points
<1>8. CASE StampSpans
  BY <1>1, <1>5, <1>8 DEF StampSpans, WriterInv
<1>9. DropChunks \/ DeletePoints \/ DeletePoint => ~whole'
  BY DEF DropChunks, DeletePoints, DeletePoint
<1>10. Prune => job.at = "off"
  BY DEF Prune
<1>11. ASSUME NEW batch \in SUBSET job.found, CopyBatch(batch)
       PROVE  Stored \subseteq Stored'
  <2> DEFINE from(c) == {p \in Projects : <<p, c>> \in batch \cap Stored}
  <2>1. \A c \in Chunks : from(c) # {} => points[CHOOSE p \in from(c) : TRUE][c] # Absent
    BY DEF Stored
  <2>2. \A c \in Chunks : points'[job.to][c] = IF from(c) = {} THEN points[job.to][c]
                                            ELSE points[CHOOSE p \in from(c) : TRUE][c]
    BY <1>1, <1>11 DEF CopyBatch, Copied, Points
  <2>3. \A p \in Projects \ {job.to} : points'[p] = points[p]
    BY <1>1, <1>11 DEF CopyBatch, Copied, Points
  <2> HIDE DEF from
  <2>4. QED
    BY <1>2, <2>1, <2>2, <2>3
<1>12. CASE ImportPoints
  <2>1. importer.version \in Versions
    BY <1>12 DEF ImportPoints, WriterInv
  <2>2. QED
    BY <1>2, <1>3, <1>12, <2>1, ImportWrites
<1>13. ASSUME NEW newer \in BOOLEAN, ImportHead(newer)
       PROVE  Stored \subseteq Stored'
  BY <1>1, <1>2, <1>5, <1>13 DEF ImportHead, WriterInv
<1>14. CASE StopImporter
  BY <1>1, <1>2, <1>5, <1>14 DEF StopImporter, WriterInv
<1>15. points' = points => Stored \subseteq Stored'
  BY <1>2
<1>16. QED
  BY <1>6, <1>7, <1>8, <1>9, <1>10, <1>11, <1>12, <1>13, <1>14, <1>15, PointsChange

(* Deleting what was copied leaves the copies.                             *)
LEMMA CopiesStay ==
  ASSUME TypeOK, MoveInv, whole, DeleteOld, NEW c \in Chunks, Held(c)
  PROVE  Held(c)'
<1>1. /\ job.to \in Projects
      /\ \A i \in job.batch : points[job.to][i[2]] # Absent /\ i[1] # job.to
  BY DEF TypeOK, MoveInv, DeleteOld
<1>2. \A p \in Projects : points'[p][c] = IF <<p, c>> \in job.batch THEN Absent ELSE points[p][c]
  BY DEF DeleteOld, Without
<1>3. PICK p \in Projects : points[p][c] # Absent
  BY DEF Held
<1>4. CASE <<p, c>> \in job.batch
  <2>1. points[job.to][c] # Absent /\ <<job.to, c>> \notin job.batch
    BY <1>1, <1>4
  <2>2. points'[job.to][c] # Absent
    BY <1>1, <1>2, <2>1
  <2>3. QED
    BY <1>1, <2>2 DEF Held
<1>5. CASE <<p, c>> \notin job.batch
  BY <1>2, <1>3, <1>5 DEF Held
<1>6. QED
  BY <1>4, <1>5

(* Pruning leaves the version it prunes for.                               *)
LEMMA PruneKeeps ==
  ASSUME TypeOK, Prune, NEW c \in ChunksOf[writer.version], c \in Chunks, Held(c)
  PROVE  Held(c)'
<1>1. points \in Points /\ writer.project \in Projects
  BY DEF TypeOK, Points, PointSet
<1>2. \A p \in Projects : points'[p][c] = points[p][c]
  BY <1>1 DEF Prune, Points
<1>3. QED
  BY <1>2 DEF Held

(* A chunk that is stored while a version is whole remains stored, except  *)
(* for the chunks that a prune leaves out.                                 *)
LEMMA HeldStays ==
  ASSUME TypeOK, WriterInv, MoveInv, [Next]_vars, whole, whole', NEW c \in Chunks, Held(c),
         Prune => c \in ChunksOf[writer.version]
  PROVE  Held(c)'
<1>1. CASE Stored \subseteq Stored'
  <2>1. PICK p \in Projects : points[p][c] # Absent
    BY DEF Held
  <2>2. <<p, c>> \in Stored'
    BY <1>1, <2>1 DEF Stored
  <2>3. QED
    BY <2>2 DEF Held, Stored
<1>2. QED
  BY <1>1, PointsStay, CopiesStay, PruneKeeps

LEMMA ProgressInvStep ==
  TypeOK /\ WriterInv /\ MoveInv /\ ProgressInv /\ [Next]_vars => ProgressInv'
<1> SUFFICES ASSUME TypeOK, WriterInv, MoveInv, ProgressInv, [Next]_vars, whole'
             PROVE  /\ writer'.at \in {"store", "embedded", "stored", "stamped", "spanned"} =>
                         \A c \in ChunksOf[writer'.version] \ writer'.todo : Held(c)'
                    /\ writer'.at = "embedded" => \A c \in writer'.held : Held(c)'
  BY DEF ProgressInv, Held
<1>0. CASE ~whole
  <2>1. Publish
    BY <1>0, WholeChange DEF DropChunks, Prune, DeletePoints, DeleteMemory, DeletePoint
  <2>2. writer'.at = "off"
    BY <2>1 DEF Publish, NoWriter
  <2>3. QED
    BY <2>2
<1> SUFFICES ASSUME whole
             PROVE  /\ writer'.at \in {"store", "embedded", "stored", "stamped", "spanned"} =>
                         \A c \in ChunksOf[writer'.version] \ writer'.todo : Held(c)'
                    /\ writer'.at = "embedded" => \A c \in writer'.held : Held(c)'
  BY <1>0
<1>1. ASSUME NEW c \in Chunks, Held(c), ~Prune
      PROVE  Held(c)'
  BY <1>1, HeldStays
<1>2. /\ writer.version \in Maybe /\ writer.held \subseteq Chunks /\ writer.todo \subseteq Chunks
      /\ \A v \in Versions : ChunksOf[v] \subseteq Chunks
      /\ writer.at \in Replaces => writer.version \in Versions
  BY DEF TypeOK, WriterInv, Replaces
<1>3. CASE writer'.at \notin Replaces \ {"pruned"}
  BY <1>3 DEF Replaces
<1>4. CASE writer' = writer
  <2>1. CASE Prune
    BY <1>3, <2>1 DEF Prune, TypeOK, Replaces
  <2>2. CASE ~Prune
    BY <1>1, <1>2, <1>4, <2>2 DEF ProgressInv, Replaces
  <2>3. QED
    BY <2>1, <2>2
<1>5. CASE ReadFile \/ \E v \in Versions : Ingest(v)
  <2>1. writer'.at = "store" /\ writer'.todo = ChunksOf[writer'.version]
    BY <1>5 DEF ReadFile, Ingest, Replacing, NoWriter
  <2>2. QED
    BY <2>1
<1>6. CASE Store
  <2>1. /\ writer.at = "store" /\ writer'.version = writer.version /\ writer'.todo = writer.todo
        /\ writer'.held = In(rule) \cap writer.todo /\ ~Prune
    BY <1>6 DEF Store, TypeOK, Prune
  <2>2. \A c \in In(rule) : c \in Chunks /\ Held(c)
    BY DEF In, Held, TypeOK
  <2>3. QED
    BY <1>1, <1>2, <2>1, <2>2 DEF ProgressInv, Replaces
<1>7. ASSUME NEW batch \in SUBSET Chunks, Persist(batch)
      PROVE  /\ writer'.at \in {"store", "stored"}
             /\ \A c \in ChunksOf[writer'.version] \ writer'.todo : Held(c)'
  <2>1. /\ writer.at = "embedded" /\ writer'.version = writer.version
        /\ writer'.todo = writer.todo \ batch /\ writer'.at \in {"store", "stored"} /\ ~Prune
    BY <1>7 DEF Persist, TypeOK, Prune
  <2>2. ASSUME NEW c \in batch \ writer.held
        PROVE  Held(c)'
    <3>1. points \in Points /\ writer.placed \in Projects
      BY DEF TypeOK, Points, PointSet
    <3>2. points'[writer.placed][c] = Point(writer.version, writer.version)
      BY <1>7, <2>2, <3>1 DEF Persist, Points
    <3>3. Point(writer.version, writer.version) # Absent
      BY <1>2, <2>1 DEF Point, Absent, Replaces
    <3>4. QED
      BY <3>1, <3>2, <3>3 DEF Held
  <2>3. ASSUME NEW c \in ChunksOf[writer.version], c \notin writer.todo \ batch
        PROVE  Held(c)'
    <3>1. c \in Chunks
      BY <1>2, <2>1 DEF Replaces
    <3>2. CASE c \notin writer.todo \/ c \in writer.held
      BY <1>1, <2>1, <2>3, <3>1, <3>2 DEF ProgressInv
    <3>3. CASE c \in batch \ writer.held
      BY <2>2, <3>3
    <3>4. QED
      BY <2>3, <3>2, <3>3
  <2>4. QED
    BY <2>1, <2>3
<1>8. CASE StampProvenance \/ StampSpans
  <2>1. /\ writer.at \in {"stored", "stamped"} /\ writer'.version = writer.version
        /\ writer'.todo = writer.todo /\ writer'.at # "embedded" /\ ~Prune
    BY <1>8 DEF StampProvenance, StampSpans, TypeOK, Prune
  <2>2. QED
    BY <1>1, <1>2, <2>1 DEF ProgressInv, Replaces
<1>9. Prune => writer'.at = "pruned"
  BY DEF Prune, TypeOK
<1>10. QED
  BY <1>3, <1>4, <1>5, <1>6, <1>7, <1>8, <1>9, WriterChange

(* What stands between the old version and the deletion of any chunk of it *)
(* is either the copy or the whole of the new one.                         *)
LEMMA WholeVersionStep ==
  TypeOK /\ WriterInv /\ MoveInv /\ ProgressInv /\ WholeVersion /\ [Next]_vars => WholeVersion'
<1> SUFFICES ASSUME TypeOK, WriterInv, MoveInv, ProgressInv, WholeVersion, [Next]_vars, whole'
             PROVE  \E v \in Versions : \A c \in ChunksOf[v] : Held(c)'
  BY DEF WholeVersion, HasAll, Held
<1>1. \A v \in Versions : ChunksOf[v] \subseteq Chunks
  OBVIOUS
<1>2. CASE ~whole
  <2>1. Publish
    BY <1>2, WholeChange DEF DropChunks, Prune, DeletePoints, DeleteMemory, DeletePoint
  <2>2. writer.version \in Versions /\ HasAll(writer.version) /\ points' = points
    BY <1>2, <2>1 DEF Publish, WriterInv
  <2>3. QED
    BY <2>2 DEF HasAll, Held
<1>3. CASE whole /\ Prune
  <2>1. writer.version \in Versions /\ \A c \in ChunksOf[writer.version] : Held(c)
    BY <1>3 DEF Prune, WriterInv, ProgressInv
  <2>2. QED
    BY <1>1, <1>3, <2>1, PruneKeeps
<1>4. CASE whole /\ ~Prune
  <2>1. PICK v \in Versions : \A c \in ChunksOf[v] : Held(c)
    BY <1>4 DEF WholeVersion, HasAll, Held
  <2>2. QED
    BY <1>1, <1>4, <2>1, HeldStays
<1>5. QED
  BY <1>2, <1>3, <1>4

LEMMA MoveInvStep == TypeOK /\ WriterInv /\ MoveInv /\ [Next]_vars => MoveInv'
<1> SUFFICES ASSUME TypeOK, WriterInv, MoveInv, [Next]_vars, whole'
             PROVE  MoveInv'
  BY DEF MoveInv
<1>0. CASE ~whole
  <2>1. Publish
    BY <1>0, WholeChange DEF DropChunks, Prune, DeletePoints, DeleteMemory, DeletePoint
  <2>2. job.at = "off" /\ job' = job
    BY <1>0, <2>1 DEF Publish
  <2>3. QED
    BY <2>2 DEF MoveInv
<1> SUFFICES ASSUME whole
             PROVE  MoveInv'
  BY <1>0
<1>1. CASE job'.at \notin {"stale", "copied"}
  BY <1>1 DEF MoveInv
<1>2. CASE ScanStale
  <2>1. points' = points /\ job'.at = "stale" /\ job'.to = job.to
        /\ job'.found = {i \in Stored : i[1] \in job.from \ {job.to}}
    BY <1>2 DEF ScanStale, TypeOK, stores
  <2>2. Stored' = Stored
    BY <2>1 DEF Stored
  <2>3. QED
    BY <2>1, <2>2 DEF MoveInv
<1>3. ASSUME NEW batch \in SUBSET job.found, CopyBatch(batch)
      PROVE  MoveInv'
  <2>1. job.at = "stale" /\ job.found \subseteq Stored /\ job'.to = job.to
        /\ \A i \in job.found : i[1] # job.to
    BY <1>3 DEF CopyBatch, MoveInv, TypeOK
  <2>2. Stored \subseteq Stored'
    BY <1>3, <2>1, PointsStay DEF DeleteOld, CopyBatch, Prune, TypeOK
  <2>3. CASE batch \cap Stored = {}
    BY <1>3, <2>1, <2>2, <2>3 DEF CopyBatch, MoveInv, TypeOK
  <2>4. CASE batch \cap Stored # {}
    <3>1. job'.at = "copied" /\ job'.batch = batch /\ job'.found = job.found
      BY <1>3, <2>4 DEF CopyBatch, TypeOK
    <3>2. ASSUME NEW i \in batch
          PROVE  points'[job.to][i[2]] # Absent
      <4> DEFINE c == i[2]
                 from == {p \in Projects : <<p, c>> \in batch \cap Stored}
      <4>1. c \in Chunks /\ i[1] \in from
        BY <2>1, <3>2 DEF Stored
      <4>2. (CHOOSE p \in from : TRUE) \in from
        BY <4>1
      <4>3. points'[job.to][c] = points[CHOOSE p \in from : TRUE][c]
        BY <1>3, <4>1 DEF CopyBatch, Copied, TypeOK
      <4>4. QED
        BY <4>2, <4>3 DEF Stored
    <3>3. QED
      BY <2>1, <2>2, <3>1, <3>2 DEF MoveInv
  <2>5. QED
    BY <2>3, <2>4
<1>4. CASE DeleteOld
  <2>1. /\ job'.at = "stale" /\ job'.to = job.to /\ job'.found = job.found \ job.batch
        /\ job.found \subseteq Stored /\ \A i \in job.found : i[1] # job.to
    BY <1>4 DEF DeleteOld, MoveInv, TypeOK
  <2>2. job.found \ job.batch \subseteq Stored'
    BY <1>4, <2>1 DEF DeleteOld, Without, Stored
  <2>3. QED
    BY <2>1, <2>2 DEF MoveInv
<1>5. CASE job' = job /\ ~DeleteOld
  <2>1. CASE job.at = "off"
    BY <1>5, <2>1 DEF MoveInv
  <2>2. CASE Stored \subseteq Stored'
    <3>1. job.at = "copied" => \A i \in job.batch : <<job.to, i[2]>> \in Stored
      BY DEF MoveInv, Stored, TypeOK
    <3>2. QED
      BY <1>5, <2>2, <3>1 DEF MoveInv, Stored
  <2>3. QED
    BY <1>5, <2>1, <2>2, PointsStay
<1>6. CASE ScanPoints \/ ListHeads \/ DeleteFacts \/ DeletePoints
  BY <1>1, <1>6 DEF ScanPoints, ListHeads, DeleteFacts, DeletePoints, TypeOK
<1>7. QED
  BY <1>1, <1>2, <1>3, <1>4, <1>5, <1>6, JobChange DEF Relying

-----------------------------------------------------------------------------
(* What a refresh skips *)

(* What each step that changes points writes, point by point.              *)
LEMMA PersistWrites ==
  ASSUME TypeOK, NEW batch \in SUBSET Chunks, Persist(batch), NEW p \in Projects, NEW c \in Chunks
  PROVE  points'[p][c] = IF p = writer.placed /\ c \in batch \ writer.held
                         THEN Point(writer.version, writer.version) ELSE points[p][c]
  BY DEF Persist, TypeOK

LEMMA ProvenanceWrites ==
  ASSUME TypeOK, StampProvenance, NEW p \in Projects, NEW c \in Chunks
  PROVE  points'[p][c] =
           IF p = writer.project /\ c \in ChunksOf[writer.version] /\ points[p][c] # Absent
           THEN Point(writer.version, points[p][c].source_version) ELSE points[p][c]
  BY DEF StampProvenance, TypeOK

LEMMA PruneWrites ==
  ASSUME TypeOK, Prune, NEW p \in Projects, NEW c \in Chunks
  PROVE  points'[p][c] = IF p = writer.project /\ c \notin ChunksOf[writer.version]
                         THEN Absent ELSE points[p][c]
  BY DEF Prune, TypeOK

LEMMA DropWrites ==
  ASSUME TypeOK, DropChunks, NEW p \in Projects, NEW c \in Chunks
  PROVE  points'[p][c] = IF p = writer.project THEN Absent ELSE points[p][c]
  BY DEF DropChunks, TypeOK

LEMMA WithoutWrites ==
  ASSUME NEW removed, points' = Without(removed), NEW p \in Projects, NEW c \in Chunks
  PROVE  points'[p][c] = IF <<p, c>> \in removed THEN Absent ELSE points[p][c]
  BY DEF Without

(* A copy writes to the target only, and there what a source held.         *)
LEMMA CopyWrites ==
  ASSUME TypeOK, NEW batch \in SUBSET job.found, CopyBatch(batch),
         NEW p \in Projects, NEW c \in Chunks
  PROVE  \/ points'[p][c] = points[p][c] /\ (p = job.to => \A q \in Projects : <<q, c>> \notin batch \cap Stored)
         \/ /\ p = job.to
            /\ \E q \in Projects : <<q, c>> \in batch \cap Stored /\ points'[p][c] = points[q][c]
<1> DEFINE from == {q \in Projects : <<q, c>> \in batch \cap Stored}
<1>1. points \in Points /\ job.to \in Projects
  BY DEF TypeOK, Points, PointSet
<1>2. p # job.to => points'[p][c] = points[p][c]
  BY <1>1 DEF CopyBatch, Copied, Points
<1>3. points'[job.to][c] = IF from = {} THEN points[job.to][c]
                           ELSE points[CHOOSE q \in from : TRUE][c]
  BY <1>1 DEF CopyBatch, Copied, Points
<1>4. from # {} => (CHOOSE q \in from : TRUE) \in from
  OBVIOUS
<1>5. QED
  BY <1>2, <1>3, <1>4

(* The fields of a point, and when there is one.                           *)
LEMMA PointFields ==
  \A h, v \in Maybe :
    /\ Point(h, v).source_hash = h /\ Point(h, v).source_version = v
    /\ Imported(v).source_hash = v /\ Imported(v).source_version = v
    /\ v \in Versions => Imported(v) # Absent
    /\ (h \in Versions \/ v \in Versions) => Point(h, v) # Absent
    /\ Absent.source_hash = None /\ Absent.source_version = None
  BY DEF Point, Imported, Absent, Maybe

LEMMA HashInvStep == TypeOK /\ WriterInv /\ HashInv /\ [Next]_vars => HashInv'
<1> SUFFICES ASSUME TypeOK, WriterInv, HashInv, [Next]_vars, NEW p \in Projects, NEW c \in Chunks
             PROVE  Sound(points'[p][c], c)
  BY DEF HashInv
<1>1. \A q \in Projects : Sound(points[q][c], c)
  BY DEF HashInv
<1>2. Sound(Absent, c)
  BY DEF Sound
<1>3. Versions \subseteq Maybe
  BY DEF Maybe
<1>4. ASSUME NEW q \in Projects, NEW v \in Versions, points' = Aligned(q, v)
      PROVE  Sound(points'[p][c], c)
  <2>1. v \in Maybe /\ points[p][c] \in PointSet
    BY DEF TypeOK, PointSet, Maybe
  <2>2. QED
    <3>1. points'[p][c] = IF p = q /\ c \in ChunksOf[v] /\ points[p][c] # Absent
                         THEN WithSpans(points[p][c], v) ELSE points[p][c]
      BY <1>4, AlignedWrites
    <3>2. /\ WithSpans(points[p][c], v).source_hash = points[p][c].source_hash
          /\ WithSpans(points[p][c], v).source_version = v
      BY <2>1, AlignedPoint
    <3>3. QED
      BY <1>1, <3>1, <3>2 DEF Sound
<1>5. CASE points' = points
  BY <1>1, <1>5
<1>6. CASE DropChunks
  BY <1>1, <1>2, <1>6, DropWrites
<1>7. ASSUME NEW batch \in SUBSET Chunks, Persist(batch)
      PROVE  Sound(points'[p][c], c)
  <2>1. writer.version \in Versions /\ batch \subseteq ChunksOf[writer.version]
    BY <1>7 DEF Persist, WriterInv
  <2>2. QED
    BY <1>1, <1>3, <1>7, <2>1, PersistWrites, PointFields DEF Sound
<1>8. CASE StampProvenance
  <2>1. writer.version \in Versions
    BY <1>8 DEF StampProvenance, WriterInv
  <2>2. QED
    BY <1>1, <1>3, <1>8, <2>1, ProvenanceWrites, PointFields DEF Sound
<1>9. CASE StampSpans
  <2>1. writer.version \in Versions /\ writer.project \in Projects
    BY <1>9 DEF StampSpans, WriterInv, TypeOK
  <2>2. QED
    BY <1>4, <1>9, <2>1 DEF StampSpans
<1>10. CASE Prune
  BY <1>1, <1>2, <1>10, PruneWrites
<1>11. CASE DeletePoints \/ DeleteOld \/ DeletePoint
  <2>1. PICK removed : points' = Without(removed)
    BY <1>11 DEF DeletePoints, DeleteOld, DeletePoint
  <2>2. points'[p][c] = IF <<p, c>> \in removed THEN Absent ELSE points[p][c]
    BY <2>1, WithoutWrites
  <2>3. QED
    BY <1>1, <1>2, <2>2
<1>12. ASSUME NEW batch \in SUBSET job.found, CopyBatch(batch)
       PROVE  Sound(points'[p][c], c)
  <2>1. \/ points'[p][c] = points[p][c]
        \/ \E q \in Projects : <<q, c>> \in batch \cap Stored /\ points'[p][c] = points[q][c]
    BY <1>12, CopyWrites
  <2>2. QED
    BY <1>1, <2>1
<1>13. CASE ImportPoints
  <2>1. importer.version \in Versions
    BY <1>13 DEF ImportPoints, WriterInv
  <2>2. QED
    BY <1>1, <1>3, <1>13, <2>1, ImportWrites, PointFields DEF Sound
<1>14. CASE StopImporter \/ \E newer \in BOOLEAN : ImportHead(newer)
  <2>1. points' = points \/ (importer.at # "off" /\ points' = Aligned(rule, importer.version))
    BY <1>14 DEF StopImporter, ImportHead
  <2>2. importer.at # "off" => importer.version \in Versions
    BY DEF WriterInv
  <2>3. rule \in Projects
    BY DEF TypeOK
  <2>4. QED
    BY <1>4, <1>5, <2>1, <2>2, <2>3
<1>15. QED
  BY <1>5, <1>6, <1>7, <1>8, <1>9, <1>10, <1>11, <1>12, <1>13, <1>14, PointsChange

(* How a source is written does not change.                                *)
LEMMA KindStays == [Next]_vars => kind' = kind
<1> USE DEF stores, policy, history
<1>1. Refresh => kind' = kind
  BY DEF Refresh, StartRefresh, Skip, Ignore, ReadFile, FindGone, DropChunks, DropHead
<1>2. Replace => kind' = kind
  BY DEF Replace, Store, Persist, StampProvenance, StampSpans, Prune, Publish, WriterRefused
<1>3. Purging => kind' = kind
  BY DEF Purging, ScanPoints, ListHeads, DeleteFacts, DeletePoints, RemoveHeads
<1>4. Moving => kind' = kind
  BY DEF Moving, SaveRules, ApplyRules, ScanStale, CopyBatch, DeleteOld, PointsMoved,
         RehomeHead, RemoveOldHead, MoveEnds, MoveFails
<1>5. Importing => kind' = kind
  BY DEF Importing, ImportPoints, ImportHead, ImportRefused
<1>6. User => kind' = kind
  BY DEF User, StartPurge, Restore, Unplace, AddFact, StartMove, ImportRule, Ingest,
         Receive, Edit, DeleteMemory
<1>7. DeletePoint \/ Stops => kind' = kind
  BY DEF DeletePoint, Stops, StopWriter, StopJob, StopImporter
<1>8. UNCHANGED vars => kind' = kind
  BY DEF vars
<1>9. QED
  BY <1>1, <1>2, <1>3, <1>4, <1>5, <1>6, <1>7, <1>8 DEF Next

(* Only a refresh that has found the lock free, and a job that has, leave  *)
(* their resting place; the server's own writer does without.              *)
LEMMA LockInvStep == TypeOK /\ LockInv /\ [Next]_vars => LockInv'
<1> SUFFICES ASSUME TypeOK, LockInv, [Next]_vars
             PROVE  LockInv'
  OBVIOUS
<1>1. kind' = kind
  BY KindStays
<1>2. \/ writer'.at = "off"
      \/ writer.at # "off" /\ (writer'.at = "compare" => writer.at = "compare")
      \/ kind = "file" /\ job.at = "off" /\ job' = job
      \/ kind = "inline" /\ writer'.at = "store"
      \/ writer' = writer
  <2> USE DEF TypeOK, NoWriter
  <2>1. StartRefresh => kind = "file" /\ job.at = "off" /\ job' = job
    BY DEF StartRefresh, LockFree
  <2>2. Skip \/ Ignore \/ DropHead \/ Publish \/ WriterRefused \/ StopWriter => writer'.at = "off"
    BY DEF Skip, Ignore, DropHead, Publish, WriterRefused, StopWriter
  <2>3. ReadFile \/ Store \/ StampProvenance \/ StampSpans \/ Prune \/ DropChunks
          => writer.at # "off" /\ writer'.at # "compare"
    BY DEF ReadFile, Replacing, Store, StampProvenance, StampSpans, Prune, DropChunks
  <2>4. FindGone => writer.at # "off" /\ writer'.at # "compare"
    BY DEF FindGone
  <2>5. ASSUME NEW batch \in SUBSET Chunks, Persist(batch)
        PROVE  writer.at # "off" /\ writer'.at # "compare"
    BY <2>5 DEF Persist
  <2>6. ASSUME NEW v \in Versions, Ingest(v)
        PROVE  kind = "inline" /\ writer'.at = "store"
    BY <2>6 DEF Ingest, Replacing
  <2>7. Refresh \/ Replace
          => \/ StartRefresh \/ Skip \/ Ignore \/ DropHead \/ Publish \/ WriterRefused
             \/ ReadFile \/ Store \/ StampProvenance \/ StampSpans \/ Prune \/ DropChunks
             \/ FindGone \/ \E batch \in SUBSET Chunks : Persist(batch)
    BY DEF Refresh, Replace
  <2>8. Purging => writer' = writer
    BY DEF Purging, ScanPoints, ListHeads, DeleteFacts, DeletePoints, RemoveHeads
  <2>9. Moving => writer' = writer
    BY DEF Moving, SaveRules, ApplyRules, ScanStale, CopyBatch, DeleteOld, PointsMoved,
           RehomeHead, RemoveOldHead, MoveEnds, MoveFails
  <2>10. Importing => writer' = writer
    BY DEF Importing, ImportPoints, ImportHead, ImportRefused
  <2>11. User => writer' = writer \/ \E v \in Versions : Ingest(v)
    BY DEF User, StartPurge, Restore, Unplace, AddFact, StartMove, ImportRule, Receive,
           Edit, DeleteMemory
  <2>12. DeletePoint \/ StopJob \/ StopImporter \/ UNCHANGED vars => writer' = writer
    BY DEF DeletePoint, StopJob, StopImporter, vars
  <2>13. QED
    BY <2>1, <2>2, <2>3, <2>4, <2>5, <2>6, <2>7, <2>8, <2>9, <2>10, <2>11, <2>12
       DEF Next, Stops
<1>3. \/ job'.at = "off" \/ job.at # "off" \/ job' = job
      \/ (kind = "file" => writer.at = "off") /\ writer' = writer
  <2> USE DEF TypeOK, NoJob
  <2>1. StartPurge \/ Unplace => (kind = "file" => writer.at = "off") /\ writer' = writer
    BY DEF StartPurge, Unplace, LockFree
  <2>2. ASSUME NEW from \in Projects, NEW to \in Projects, StartMove(from, to)
        PROVE  (kind = "file" => writer.at = "off") /\ writer' = writer
    BY <2>2 DEF StartMove, LockFree
  <2>3. ASSUME NEW from \in SUBSET Projects, ApplyRules(from)
        PROVE  (kind = "file" => writer.at = "off") /\ writer' = writer
    BY <2>3 DEF ApplyRules, LockFree
  <2>4. Refresh => job' = job
    BY DEF Refresh, StartRefresh, Skip, Ignore, ReadFile, FindGone, DropChunks, DropHead
  <2>5. Replace => job' = job
    BY DEF Replace, Store, Persist, StampProvenance, StampSpans, Prune, Publish, WriterRefused
  <2>6. Purging => job.at # "off"
    BY DEF Purging, ScanPoints, ListHeads, DeleteFacts, DeletePoints, RemoveHeads
  <2>7. Moving => job.at # "off" \/ \E from \in SUBSET Projects : ApplyRules(from)
    BY DEF Moving, SaveRules, ScanStale, CopyBatch, DeleteOld, PointsMoved,
           RehomeHead, RemoveOldHead, MoveEnds, MoveFails
  <2>8. Importing => job' = job
    BY DEF Importing, ImportPoints, ImportHead, ImportRefused
  <2>9. User => \/ job' = job \/ StartPurge \/ Unplace
                \/ \E from, to \in Projects : StartMove(from, to)
    BY DEF User, Restore, AddFact, ImportRule, Ingest, Receive, Edit, DeleteMemory
  <2>10. DeletePoint \/ Stops \/ UNCHANGED vars => job' = job \/ job'.at = "off"
    BY DEF DeletePoint, Stops, StopWriter, StopJob, StopImporter, vars
  <2>11. QED
    BY <2>1, <2>2, <2>3, <2>4, <2>5, <2>6, <2>7, <2>8, <2>9, <2>10 DEF Next
<1>4. QED
  BY <1>1, <1>2, <1>3 DEF LockInv

(* What ends a disturbance, and what a step without one can have written.  *)
LEMMA DisturbedChange ==
  TypeOK /\ [Next]_vars =>
    \/ disturbed' = disturbed
    \/ disturbed' = "since"
    \/ ReadFile
    \/ \E v \in Versions : Ingest(v)
    \/ Publish
<1> USE DEF stores, policy, history
<1>1. Refresh => disturbed' = disturbed \/ ReadFile
  BY DEF Refresh, StartRefresh, Skip, Ignore, FindGone, DropChunks, DropHead
<1>2. Replace => disturbed' = disturbed \/ disturbed' = "since" \/ Publish
  BY DEF Replace, Store, Persist, StampProvenance, StampSpans, Prune, WriterRefused
<1>3. Purging => disturbed' = disturbed
  BY DEF Purging, ScanPoints, ListHeads, DeleteFacts, DeletePoints, RemoveHeads
<1>4. Moving => disturbed' = disturbed \/ disturbed' = "since"
  BY DEF Moving, SaveRules, ApplyRules, ScanStale, CopyBatch, DeleteOld, PointsMoved,
         RehomeHead, RemoveOldHead, MoveEnds, MoveFails
<1>5. Importing => disturbed' = disturbed \/ disturbed' = "since"
  BY DEF Importing, ImportPoints, ImportHead, ImportRefused
<1>6. User => disturbed' = disturbed \/ \E v \in Versions : Ingest(v)
  BY DEF User, StartPurge, Restore, Unplace, AddFact, StartMove, ImportRule,
         Receive, Edit, DeleteMemory
<1>7. DeletePoint \/ Stops => disturbed' = disturbed \/ disturbed' = "since"
  BY DEF DeletePoint, Stops, StopWriter, StopJob, StopImporter
<1>8. UNCHANGED vars => disturbed' = disturbed
  BY DEF vars
<1>9. QED
  BY <1>1, <1>2, <1>3, <1>4, <1>5, <1>6, <1>7, <1>8 DEF Next

(* Without a disturbance, points change by replacements within their       *)
(* project while no job runs, or by the job.                               *)
LEMMA OwnChange ==
  ASSUME TypeOK, LockInv, [Next]_vars, kind = "file", disturbed' # "since"
  PROVE  \/ points' = points
         \/ /\ job.at = "off" /\ job' = job
            /\ \/ DropChunks
               \/ \E batch \in SUBSET Chunks : Persist(batch) /\ writer.placed = writer.project
               \/ StampProvenance
               \/ StampSpans
               \/ Prune
         \/ /\ writer.at = "off" /\ writer' = writer
            /\ DeletePoints \/ DeleteOld \/ \E batch \in SUBSET job.found : CopyBatch(batch)
<1>1. ~DeletePoint
  BY DEF DeletePoint
<1>2. ImportPoints \/ StopImporter \/ (\E newer \in BOOLEAN : ImportHead(newer)) => points' = points
  BY DEF ImportPoints, StopImporter, ImportHead
<1>3. ASSUME NEW batch \in SUBSET Chunks, Persist(batch)
      PROVE  writer.placed = writer.project /\ writer.at # "off" /\ job' = job
  BY <1>3 DEF Persist
<1>4. DropChunks \/ StampProvenance \/ StampSpans \/ Prune => writer.at # "off" /\ job' = job
  BY DEF DropChunks, StampProvenance, StampSpans, Prune
<1>5. DeletePoints \/ DeleteOld \/ (\E batch \in SUBSET job.found : CopyBatch(batch))
        => job.at # "off" /\ writer' = writer
  BY DEF DeletePoints, DeleteOld, CopyBatch
<1>6. QED
  BY <1>1, <1>2, <1>3, <1>4, <1>5, PointsChange DEF LockInv

LEMMA StampedInvStep ==
  TypeOK /\ WriterInv /\ LockInv /\ StampedInv /\ [Next]_vars => StampedInv'
<1> SUFFICES ASSUME TypeOK, WriterInv, LockInv, StampedInv, [Next]_vars,
                    kind' = "file", disturbed' # "since"
             PROVE  StampedInv'
  BY DEF StampedInv
<1>0. kind = "file"
  BY KindStays
<1>1. CASE writer'.at \notin Replaces
  BY <1>1 DEF StampedInv, Replaces
<1>2. CASE ReadFile
  <2>1. writer'.at = "store" /\ writer'.todo = ChunksOf[writer'.version]
    BY <1>2 DEF ReadFile, Replacing, NoWriter
  <2>2. QED
    BY <2>1 DEF StampedInv
<1>3. ~\E v \in Versions : Ingest(v)
  BY <1>0 DEF Ingest
<1>4. CASE writer'.at \in Replaces /\ ~ReadFile
  <2>1. ~Publish
    BY <1>4 DEF Publish, NoWriter, Replaces
  <2>2. disturbed # "since"
    BY <1>3, <1>4, <2>1, DisturbedChange
  <2>3. /\ points \in Points /\ writer.project \in Projects /\ writer.placed \in Projects
        /\ writer.held \subseteq Chunks /\ writer.todo \subseteq Chunks
        /\ \A v \in Versions : v \in Maybe /\ v # None /\ ChunksOf[v] \subseteq Chunks
        /\ writer.at \in Replaces => writer.version \in Versions
    BY DEF TypeOK, Points, PointSet, Maybe, WriterInv, Replaces
  <2>4. CASE writer' = writer
    <3>1. writer.at \in Replaces /\ job.at = "off"
      BY <1>0, <1>4, <2>4 DEF LockInv, Replaces
    <3>2. ~DeletePoints /\ ~DeleteOld /\ ~\E batch \in SUBSET job.found : CopyBatch(batch)
      BY <3>1 DEF DeletePoints, DeleteOld, CopyBatch
    <3>3. ~DropChunks /\ ~StampProvenance /\ ~StampSpans /\ ~Prune
      BY <2>4, <3>1 DEF DropChunks, StampProvenance, StampSpans, Prune, TypeOK, Replaces
    <3>4. ASSUME NEW batch \in SUBSET Chunks, Persist(batch)
          PROVE  FALSE
      <4>1. writer'.at \in {"store", "stored"} /\ writer.at = "embedded"
        BY <3>4 DEF Persist, TypeOK
      <4>2. QED
        BY <2>4, <4>1
    <3>5. points' = points
      BY <1>0, <3>2, <3>3, <3>4, OwnChange
    <3>6. QED
      BY <1>0, <2>2, <2>4, <3>5 DEF StampedInv
  <2>5. CASE Store
    <3>1. /\ writer.at = "store" /\ writer'.at = "embedded" /\ points' = points
          /\ writer'.version = writer.version /\ writer'.todo = writer.todo
          /\ writer'.project = writer.project /\ writer'.placed = rule
          /\ \A c \in writer'.held : c \in In(rule)
      BY <2>5 DEF Store, TypeOK, stores
    <3>2. QED
      BY <1>0, <2>2, <3>1 DEF StampedInv, In
  <2>6. ASSUME NEW batch \in SUBSET Chunks, Persist(batch)
        PROVE  StampedInv'
    <3>1. /\ writer.at = "embedded" /\ writer'.at \in {"store", "stored"}
          /\ writer'.version = writer.version /\ writer'.todo = writer.todo \ batch
          /\ writer'.project = writer.project
      BY <2>6 DEF Persist, TypeOK
    <3>2. writer.placed = writer.project
      BY <2>6 DEF Persist
    <3>3. ASSUME NEW c \in Chunks,
                 c \in batch \/ points[writer.project][c] # Absent
          PROVE  points'[writer.project][c] # Absent
      <4>1. points'[writer.project][c] =
              IF c \in batch \ writer.held
              THEN Point(writer.version, writer.version) ELSE points[writer.project][c]
        BY <2>3, <2>6, <3>2, PersistWrites
      <4>2. Point(writer.version, writer.version) # Absent
        BY <2>3, <3>1, PointFields DEF Replaces
      <4>3. c \in writer.held => points[writer.project][c] # Absent
        BY <1>0, <2>2, <3>1, <3>2 DEF StampedInv
      <4>4. QED
        BY <3>3, <4>1, <4>2, <4>3
    <3>4. \A c \in ChunksOf[writer.version] \ writer.todo : points[writer.project][c] # Absent
      BY <1>0, <2>2, <3>1 DEF StampedInv
    <3>5. \A c \in ChunksOf[writer.version] : c \in Chunks
      BY <2>3, <3>1 DEF Replaces
    <3>6. \A c \in ChunksOf[writer'.version] \ writer'.todo : points'[writer'.project][c] # Absent
      BY <3>1, <3>3, <3>4, <3>5
    <3>7. QED
      BY <3>1, <3>6 DEF StampedInv
  <2>7. CASE StampProvenance
    <3>1. /\ writer.at = "stored" /\ writer'.at = "stamped" /\ writer.todo = {}
          /\ writer'.version = writer.version /\ writer'.project = writer.project
      BY <2>7 DEF StampProvenance, TypeOK, WriterInv
    <3>2. ASSUME NEW c \in ChunksOf[writer.version]
          PROVE  /\ points'[writer.project][c].source_hash = writer.version
                 /\ points'[writer.project][c].source_path_local = TRUE
      <4>1. c \in Chunks /\ points[writer.project][c] # Absent
        BY <1>0, <2>2, <2>3, <3>1 DEF StampedInv, Replaces
      <4>2. points'[writer.project][c] = Point(writer.version, points[writer.project][c].source_version)
        BY <2>3, <2>7, <4>1, ProvenanceWrites
      <4>3. QED
        BY <4>2 DEF Point
    <3>3. QED
      BY <3>1, <3>2 DEF StampedInv
  <2>8. CASE StampSpans
    <3>1. /\ writer.at = "stamped" /\ writer'.at = "spanned"
          /\ writer'.version = writer.version /\ writer'.project = writer.project
          /\ points' = Aligned(writer.project, writer.version) /\ writer.version \in Versions
      BY <2>8 DEF StampSpans, TypeOK, WriterInv
    <3>2. ASSUME NEW c \in ChunksOf[writer.version]
          PROVE  points'[writer.project][c] = Point(writer.version, writer.version)
      <4>1. /\ c \in Chunks /\ points[writer.project][c].source_hash = writer.version
            /\ points[writer.project][c].source_path_local = TRUE
        BY <1>0, <2>2, <2>3, <3>1 DEF StampedInv, Replaces
      <4>2. points[writer.project][c] # Absent
        BY <2>3, <3>1, <4>1 DEF Absent
      <4>3. writer.version \in Maybe /\ points[writer.project][c] \in PointSet
        BY <2>3, <4>1 DEF TypeOK, PointSet
      <4>4. QED
        <5>1. points'[writer.project][c] = WithSpans(points[writer.project][c], writer.version)
          BY <2>3, <3>1, <4>1, <4>2, AlignedWrites
        <5>2. QED
          BY <4>1, <4>3, <5>1, AlignedPoint
    <3>3. QED
      BY <3>1, <3>2 DEF StampedInv
  <2>9. CASE Prune
    <3>1. /\ writer.at = "spanned" /\ writer'.at = "pruned" /\ writer.version \in Versions
          /\ writer'.version = writer.version /\ writer'.project = writer.project
      BY <2>9 DEF Prune, TypeOK, WriterInv
    <3>2. \A c \in Chunks : points'[writer.project][c] =
            IF c \notin ChunksOf[writer.version] THEN Absent ELSE points[writer.project][c]
      BY <2>3, <2>9, PruneWrites
    <3>3. \A c \in ChunksOf[writer.version] :
            points[writer.project][c] = Point(writer.version, writer.version)
      BY <1>0, <2>2, <3>1 DEF StampedInv
    <3>4. QED
      BY <2>3, <3>1, <3>2, <3>3 DEF StampedInv
  <2>10. QED
    BY <1>3, <1>4, <2>4, <2>5, <2>6, <2>7, <2>8, <2>9, WriterChange
<1>5. QED
  BY <1>1, <1>2, <1>4

(* A disturbance is over when a replacement that has replaced all ends.    *)
LEMMA PublishEnds ==
  ASSUME TypeOK, WriterInv, LockInv, StampedInv, [Next]_vars, kind = "file",
         disturbed' = "no", disturbed # "no"
  PROVE  /\ job.at = "off" /\ job' = job /\ points' = points
         /\ \A p \in Projects, c \in Chunks : ~Torn(points[p][c])
<1>1. disturbed' # "since" /\ ~ReadFile /\ ~\E v \in Versions : Ingest(v)
  BY DEF ReadFile, Ingest
<1>2. Publish
  BY <1>1, DisturbedChange
<1>3. /\ writer.at = "pruned" /\ points' = points /\ job' = job
      /\ disturbed = "before" /\ \A i \in Stored : i[1] = writer.project
  BY <1>2 DEF Publish
<1>4. job.at = "off" /\ writer.version \in Versions /\ writer.project \in Projects
  BY <1>3 DEF LockInv, WriterInv, TypeOK
<1>5. ASSUME NEW p \in Projects, NEW c \in Chunks
      PROVE  ~Torn(points[p][c])
  <2>1. ~Torn(Absent) /\ \A v \in Versions : ~Torn(Point(v, v))
    BY DEF Torn, Absent, Point
  <2>2. CASE points[p][c] = Absent
    BY <2>1, <2>2
  <2>3. CASE points[p][c] # Absent
    <3>0. <<p, c>> \in Stored
      BY <2>3 DEF Stored
    <3>1. p = writer.project
      BY <1>3, <3>0
    <3>2. points[p][c] = Point(writer.version, writer.version)
      BY <1>3, <2>3, <3>1 DEF StampedInv
    <3>3. QED
      BY <1>4, <2>1, <3>2
  <2>4. QED
    BY <2>2, <2>3
<1>6. QED
  BY <1>3, <1>4, <1>5

LEMMA GatheredInvStep ==
  TypeOK /\ WriterInv /\ LockInv /\ StampedInv /\ GatheredInv /\ [Next]_vars => GatheredInv'
<1> SUFFICES ASSUME TypeOK, WriterInv, LockInv, StampedInv, GatheredInv, [Next]_vars,
                    kind' = "file", disturbed' = "no"
             PROVE  GatheredInv'
  BY DEF GatheredInv
<1>0. kind = "file"
  BY KindStays
<1>1. CASE disturbed # "no"
  BY <1>0, <1>1, PublishEnds DEF GatheredInv
<1>2. CASE job'.at \notin Relying
  BY <1>2 DEF GatheredInv, Relying
<1>3. CASE disturbed = "no" /\ job' = job /\ job'.at \in Relying
  <2>1. ~DeletePoints /\ ~DeleteOld
    BY <1>3 DEF DeletePoints, DeleteOld, TypeOK
  <2>2. ASSUME NEW batch \in SUBSET job.found, CopyBatch(batch)
        PROVE  FALSE
    <3>1. job.at = "stale" /\ batch # {} /\ batch \subseteq job.found
      BY <2>2 DEF CopyBatch
    <3>2. job'.at = "copied" \/ job'.found = job.found \ batch
      BY <2>2 DEF CopyBatch, TypeOK
    <3>3. QED
      BY <1>3, <3>1, <3>2
  <2>3. job.at # "off"
    BY <1>3 DEF Relying
  <2>4. points' = points
    BY <1>0, <2>1, <2>2, <2>3, OwnChange
  <2>5. Stored' = Stored
    BY <2>4 DEF Stored
  <2>6. QED
    BY <1>0, <1>3, <2>4, <2>5 DEF GatheredInv
<1>4. CASE disturbed = "no" /\ (ScanPoints \/ ListHeads \/ DeleteFacts \/ DeletePoints)
  <2>1. CASE ScanPoints
    <3>1. points' = points /\ job'.at = "scanned" /\ job'.found = Stored
      BY <2>1 DEF ScanPoints, TypeOK, stores
    <3>2. QED
      BY <3>1 DEF GatheredInv, Stored
  <2>2. CASE ListHeads \/ DeleteFacts
    <3>1. /\ points' = points /\ job.at \in {"scanned", "listed"}
          /\ job'.at \in {"listed", "factless"} /\ job'.found = job.found
      BY <2>2 DEF ListHeads, DeleteFacts, TypeOK, stores
    <3>2. Stored \subseteq job.found /\ Stored' = Stored
      BY <1>0, <1>4, <3>1 DEF GatheredInv, Stored
    <3>3. QED
      BY <3>1, <3>2 DEF GatheredInv
  <2>3. CASE DeletePoints
    <3>1. job'.at = "pointless"
      BY <2>3 DEF DeletePoints, TypeOK
    <3>2. QED
      BY <3>1 DEF GatheredInv
  <2>4. QED
    BY <1>4, <2>1, <2>2, <2>3
<1>5. CASE ScanStale
  <2>1. /\ points' = points /\ job'.at = "stale" /\ job'.to = job.to /\ job'.from = job.from
        /\ job'.found = {i \in Stored : i[1] \in job.from \ {job.to}}
    BY <1>5 DEF ScanStale, TypeOK, stores
  <2>2. Stored' = Stored
    BY <2>1 DEF Stored
  <2>3. QED
    BY <2>1, <2>2 DEF GatheredInv
<1>6. ASSUME NEW batch \in SUBSET job.found, CopyBatch(batch), disturbed = "no"
      PROVE  GatheredInv'
  <2>1. /\ job.at = "stale" /\ job'.to = job.to /\ job'.from = job.from
        /\ \A i \in Stored : i[1] \in job.from \ {job.to} => i \in job.found
        /\ \A i \in job.found : i[1] \in job.from \ {job.to}
    BY <1>0, <1>6 DEF CopyBatch, GatheredInv, TypeOK
  <2>2. \A p \in Projects \ {job.to}, c \in Chunks : points'[p][c] = points[p][c]
    <3>1. ASSUME NEW p \in Projects \ {job.to}, NEW c \in Chunks
          PROVE  points'[p][c] = points[p][c]
      BY <1>6, CopyWrites
    <3>2. QED
      BY <3>1
  <2>3. \A i \in Stored' : i[1] # job.to => i \in Stored
    BY <2>2 DEF Stored
  <2>4. CASE batch \cap Stored = {}
    <3>1. job'.at = "stale" /\ job'.found = job.found \ batch
      BY <1>6, <2>4 DEF CopyBatch, TypeOK
    <3>2. \A i \in Stored' : i[1] \in job.from \ {job.to} => i \in job.found \ batch
      BY <2>1, <2>3, <2>4
    <3>3. QED
      BY <2>1, <3>1, <3>2 DEF GatheredInv
  <2>5. CASE batch \cap Stored # {}
    <3>1. job'.at = "copied" /\ job'.batch = batch /\ job'.found = job.found
      BY <1>6, <2>5 DEF CopyBatch, TypeOK
    <3>2. ASSUME NEW i \in batch, i \in Stored'
          PROVE  points'[job.to][i[2]] # Absent
      <4>1. i \in Stored /\ i[1] \in Projects /\ i[2] \in Chunks /\ <<i[1], i[2]>> = i
        BY <2>1, <2>3, <3>2 DEF Stored
      <4>2. job.to \in Projects
        BY DEF TypeOK
      <4>3. \E q \in Projects : <<q, i[2]>> \in Stored /\ points'[job.to][i[2]] = points[q][i[2]]
        <5>1. <<i[1], i[2]>> \in batch \cap Stored
          BY <3>2, <4>1
        <5>2. \/ \A q \in Projects : <<q, i[2]>> \notin batch \cap Stored
              \/ \E q \in Projects : /\ <<q, i[2]>> \in batch \cap Stored
                                      /\ points'[job.to][i[2]] = points[q][i[2]]
          BY <1>6, <4>1, <4>2, CopyWrites
        <5>3. QED
          BY <4>1, <5>1, <5>2
      <4>4. QED
        BY <4>3 DEF Stored
    <3>3. \A i \in Stored' : i[1] \in job.from \ {job.to} => i \in job.found
      BY <2>1, <2>3
    <3>4. QED
      BY <2>1, <3>1, <3>2, <3>3 DEF GatheredInv
  <2>6. QED
    BY <2>4, <2>5
<1>7. CASE DeleteOld /\ disturbed = "no"
  <2>1. /\ job.at = "copied" /\ job'.at = "stale" /\ job'.to = job.to /\ job'.from = job.from
        /\ job'.found = job.found \ job.batch /\ points' = Without(job.batch)
    BY <1>7 DEF DeleteOld, TypeOK
  <2>2. Stored' = Stored \ job.batch
    BY <2>1 DEF Without, Stored
  <2>3. QED
    BY <1>0, <1>7, <2>1, <2>2 DEF GatheredInv
<1>8. QED
  BY <1>1, <1>2, <1>3, <1>4, <1>5, <1>6, <1>7, JobChange

(* How a move under way goes on.                                           *)
LEMMA MoveChange ==
  ASSUME TypeOK, [Next]_vars, job.at \in {"stale", "copied"}
  PROVE  \/ job' = job
         \/ \E batch \in SUBSET job.found : CopyBatch(batch)
         \/ DeleteOld
         \/ PointsMoved
         \/ MoveFails
         \/ StopJob
<1>1. Refresh \/ Replace => job' = job
  BY DEF Refresh, StartRefresh, Skip, Ignore, ReadFile, FindGone, DropChunks, DropHead, Replace,
         Store, Persist, StampProvenance, StampSpans, Prune, Publish, WriterRefused
<1>2. ~Purging
  BY DEF Purging, ScanPoints, ListHeads, DeleteFacts, DeletePoints, RemoveHeads
<1>3. Moving => \/ \E batch \in SUBSET job.found : CopyBatch(batch)
                \/ DeleteOld \/ PointsMoved \/ MoveFails
  BY DEF Moving, SaveRules, ApplyRules, LockFree, ScanStale, RehomeHead, RemoveOldHead, MoveEnds
<1>4. Importing \/ DeletePoint \/ StopWriter \/ StopImporter \/ UNCHANGED vars => job' = job
  BY DEF Importing, ImportPoints, ImportHead, ImportRefused, DeletePoint, StopWriter,
         StopImporter, vars
<1>5. User => job' = job
  BY DEF User, StartPurge, Unplace, StartMove, LockFree, Restore, AddFact, ImportRule, Ingest,
         Receive, Edit, DeleteMemory
<1>6. QED
  BY <1>1, <1>2, <1>3, <1>4, <1>5 DEF Next, Stops

(* What is stored together stays together: a move under way ends when it   *)
(* has moved all, or with the source in one project.                       *)
LEMMA StaysTogether ==
  ASSUME TypeOK, GatheredInv, [Next]_vars, kind = "file", disturbed = "no", disturbed' = "no",
         NEW p \in Projects, NEW c \in Chunks, points[p][c] # Absent,
         NEW q \in Together(p), NEW x \in Chunks, points[q][x] # Absent
  PROVE  q \in Together(p)'
<1>1. p \in Together(p)'
  BY DEF Together
<1>2. CASE job.at \notin {"stale", "copied"}
  BY <1>1, <1>2 DEF Together
<1>3. CASE job.at \in {"stale", "copied"}
  <2>1. job.from \subseteq Projects /\ job.to \in Projects
    BY DEF TypeOK
  <2>2. q \in Projects /\ <<p, c>> \in Stored /\ <<q, x>> \in Stored
    BY <2>1 DEF Together, Stored
  <2>3. CASE job' = job
    BY <2>3 DEF Together
  <2>4. ASSUME NEW batch \in SUBSET job.found, CopyBatch(batch)
        PROVE  q \in Together(p)'
    <3>1. job'.at \in {"stale", "copied"} /\ job'.from = job.from /\ job'.to = job.to
      BY <2>4 DEF CopyBatch, TypeOK
    <3>2. QED
      BY <1>3, <3>1 DEF Together
  <2>5. CASE DeleteOld
    <3>1. job'.at = "stale" /\ job'.from = job.from /\ job'.to = job.to
      BY <2>5 DEF DeleteOld, TypeOK
    <3>2. QED
      BY <1>3, <3>1 DEF Together
  <2>6. CASE PointsMoved
    <3>1. job.at = "stale" /\ job.found = {}
      BY <2>6 DEF PointsMoved
    <3>2. \A i \in Stored : i[1] \notin job.from \ {job.to}
      BY <3>1 DEF GatheredInv
    <3>3. p \notin job.from \ {job.to} /\ q \notin job.from \ {job.to}
      BY <2>2, <3>2
    <3>4. q = p
      BY <1>3, <3>3 DEF Together
    <3>5. QED
      BY <1>1, <3>4
  <2>7. CASE MoveFails \/ StopJob
    <3>1. ~LeftApart
      BY <2>7 DEF MoveFails, StopJob
    <3>2. \A i, j \in Stored : i[1] = j[1]
      BY <1>3, <3>1 DEF LeftApart
    <3>3. <<p, c>>[1] = <<q, x>>[1]
      BY <2>2, <3>2
    <3>4. QED
      BY <1>1, <3>3
  <2>8. QED
    BY <1>3, <2>3, <2>4, <2>5, <2>6, <2>7, MoveChange
<1>4. QED
  BY <1>2, <1>3

(* A torn point that stays keeps what was with it, when only that goes of  *)
(* which there is another copy with it.                                    *)
LEMMA TornStays ==
  ASSUME TypeOK, HashInv, TornInv, kind = "file", disturbed = "no",
         NEW p \in Projects, NEW c \in Chunks, Torn(points[p][c]), points'[p][c] = points[p][c],
         \A q \in Together(p), x \in Chunks :
           points[q][x] # Absent => \E r \in Together(p)' : points'[r][x] # Absent
  PROVE  AllWith(p, points[p][c].source_hash)'
<1>1. points[p][c] # Absent /\ points[p][c].source_hash \in Versions
  BY DEF HashInv, Sound, Torn, Absent, Point
<1>2. ChunksOf[points[p][c].source_hash] \subseteq Chunks
  BY <1>1
<1>3. AllWith(p, points[p][c].source_hash)
  BY DEF TornInv
<1>4. QED
  BY <1>2, <1>3 DEF AllWith

(* What a replacement tears it tears when all of its version is stored.    *)
LEMMA TornByWriter ==
  ASSUME TypeOK, WriterInv, HashInv, StampedInv, TornInv, kind = "file", disturbed = "no",
         job.at = "off", job' = job,
         \/ DropChunks \/ \E batch \in SUBSET Chunks : Persist(batch)
         \/ StampProvenance \/ StampSpans \/ Prune,
         NEW p \in Projects, NEW c \in Chunks, Torn(points'[p][c])
  PROVE  AllWith(p, points[p][c].source_hash)'
<1>1. Together(p) = {p} /\ Together(p)' = {p}
  BY DEF Together
<1>2. /\ ~Torn(Absent)
      /\ \A v \in Versions : v \in Maybe /\ ~Torn(Point(v, v)) /\ ChunksOf[v] \subseteq Chunks
  BY DEF Torn, Absent, Point, Maybe
<1>3. ASSUME points'[p][c] = points[p][c],
             \A x \in Chunks : points[p][x] # Absent => points'[p][x] # Absent
      PROVE  AllWith(p, points[p][c].source_hash)'
  BY <1>1, <1>3, TornStays
<1>4. CASE DropChunks
  <2>1. p # writer.project /\ \A x \in Chunks : points'[p][x] = points[p][x]
    BY <1>2, <1>4, DropWrites
  <2>2. QED
    BY <1>3, <2>1
<1>5. ASSUME NEW batch \in SUBSET Chunks, Persist(batch)
      PROVE  AllWith(p, points[p][c].source_hash)'
  <2>1. writer.version \in Versions
    BY <1>5 DEF Persist, WriterInv
  <2>2. \A x \in Chunks : \/ points'[p][x] = points[p][x]
                          \/ points'[p][x] = Point(writer.version, writer.version)
    BY <1>5, PersistWrites
  <2>3. Point(writer.version, writer.version) # Absent
    BY <1>2, <2>1, PointFields
  <2>4. QED
    BY <1>2, <1>3, <2>1, <2>2, <2>3
<1>6. CASE StampProvenance
  <2>1. /\ writer.at = "stored" /\ writer.todo = {} /\ writer.version \in Versions
        /\ \A x \in ChunksOf[writer.version] : points[writer.project][x] # Absent
    BY <1>6 DEF StampProvenance, WriterInv, StampedInv
  <2>2. ASSUME NEW x \in Chunks, points[p][x] # Absent
        PROVE  points'[p][x] # Absent
    <3>1. points[p][x].source_version \in Maybe
      BY DEF TypeOK
    <3>2. QED
      BY <1>2, <1>6, <2>1, <2>2, <3>1, ProvenanceWrites, PointFields
  <2>3. CASE p = writer.project /\ c \in ChunksOf[writer.version] /\ points[p][c] # Absent
    <3>0. points'[p][c] = Point(writer.version, points[p][c].source_version)
      BY <1>6, <2>3, ProvenanceWrites
    <3>1. points'[p][c].source_hash = writer.version
      BY <3>0 DEF Point
    <3>2. \A x \in ChunksOf[writer.version] : points'[p][x] # Absent
      BY <1>2, <2>1, <2>2, <2>3
    <3>3. QED
      BY <1>1, <3>1, <3>2 DEF AllWith
  <2>4. CASE ~(p = writer.project /\ c \in ChunksOf[writer.version] /\ points[p][c] # Absent)
    <3>1. points'[p][c] = points[p][c]
      BY <1>6, <2>4, ProvenanceWrites
    <3>2. QED
      BY <1>3, <2>2, <3>1
  <2>5. QED
    BY <2>3, <2>4
<1>7. CASE StampSpans
  <2>1. /\ writer.version \in Versions /\ writer.project \in Projects
        /\ points' = Aligned(writer.project, writer.version)
        /\ \A x \in ChunksOf[writer.version] :
             /\ points[writer.project][x].source_hash = writer.version
             /\ points[writer.project][x].source_path_local = TRUE
    BY <1>7 DEF StampSpans, WriterInv, StampedInv, TypeOK
  <2>2. ASSUME NEW x \in Chunks
        PROVE  \/ points'[p][x] = points[p][x]
               \/ points'[p][x] = Point(writer.version, writer.version)
    <3>1. writer.version \in Maybe /\ points[p][x] \in PointSet
      BY DEF TypeOK, PointSet
    <3>2. \/ points'[p][x] = points[p][x]
          \/ /\ p = writer.project /\ x \in ChunksOf[writer.version]
             /\ points'[p][x] = WithSpans(points[p][x], writer.version)
      BY <2>1, AlignedWrites
    <3>3. CASE p = writer.project /\ x \in ChunksOf[writer.version]
      <4>1. points[p][x].source_hash = writer.version /\ points[p][x].source_path_local = TRUE
        BY <2>1, <3>3
      <4>2. WithSpans(points[p][x], writer.version) = Point(writer.version, writer.version)
        BY <3>1, <4>1, AlignedPoint
      <4>3. QED
        BY <3>2, <4>2
    <3>4. QED
      BY <3>2, <3>3
  <2>3. Point(writer.version, writer.version) # Absent
    BY <1>2, <2>1, PointFields
  <2>4. QED
    BY <1>2, <1>3, <2>1, <2>2, <2>3
<1>8. CASE Prune
  <2>1. /\ writer.version \in Versions
        /\ \A x \in ChunksOf[writer.version] :
             points[writer.project][x] = Point(writer.version, writer.version)
    BY <1>8 DEF Prune, WriterInv, StampedInv
  <2>2. p # writer.project
    BY <1>2, <1>8, <2>1, PruneWrites
  <2>3. \A x \in Chunks : points'[p][x] = points[p][x]
    BY <1>8, <2>2, PruneWrites
  <2>4. QED
    BY <1>3, <2>3
<1>9. QED
  BY <1>4, <1>5, <1>6, <1>7, <1>8

(* A job that deletes or moves torn points does so with all that is with   *)
(* them.                                                                   *)
LEMMA TornByJob ==
  ASSUME TypeOK, HashInv, GatheredInv, TornInv, kind = "file", disturbed = "no",
         \/ DeletePoints \/ DeleteOld \/ \E batch \in SUBSET job.found : CopyBatch(batch),
         NEW p \in Projects, NEW c \in Chunks, Torn(points'[p][c])
  PROVE  AllWith(p, points[p][c].source_hash)'
<1>1. ~Torn(Absent)
  BY DEF Torn, Absent, Point
<1>2. CASE DeletePoints
  <2>1. Stored \subseteq job.found /\ points' = Without(job.found)
    BY <1>2 DEF DeletePoints, GatheredInv
  <2>2. <<p, c>> \in job.found \/ points[p][c] = Absent
    BY <2>1 DEF Stored
  <2>3. points'[p][c] = IF <<p, c>> \in job.found THEN Absent ELSE points[p][c]
    BY <2>1, WithoutWrites
  <2>4. QED
    BY <1>1, <2>2, <2>3
<1>3. CASE DeleteOld
  <2>1. /\ job.at = "copied" /\ points' = Without(job.batch)
        /\ job'.at = "stale" /\ job'.from = job.from /\ job'.to = job.to
        /\ job.from \subseteq Projects /\ job.to \in Projects
    BY <1>3 DEF DeleteOld, TypeOK
  <2>2. Together(p)' = Together(p)
    BY <2>1 DEF Together
  <2>3. points'[p][c] = points[p][c]
    <3>1. points'[p][c] = IF <<p, c>> \in job.batch THEN Absent ELSE points[p][c]
      BY <2>1, WithoutWrites
    <3>2. QED
      BY <1>1, <3>1
  <2>4. ASSUME NEW q \in Together(p), NEW x \in Chunks, points[q][x] # Absent
        PROVE  \E r \in Together(p)' : points'[r][x] # Absent
    <3>1. q \in Projects
      BY <2>1 DEF Together
    <3>2. CASE <<q, x>> \notin job.batch
      <4>1. points'[q][x] = points[q][x]
        BY <2>1, <3>1, <3>2, WithoutWrites
      <4>2. QED
        BY <2>2, <2>4, <4>1
    <3>3. CASE <<q, x>> \in job.batch
      <4>1. /\ \A i \in job.batch : i[1] \in job.from \ {job.to}
            /\ \A i \in job.batch : i \in Stored => points[job.to][i[2]] # Absent
        BY <2>1 DEF GatheredInv
      <4>2. <<q, x>> \in Stored
        BY <2>4, <3>1 DEF Stored
      <4>3. q \in job.from \ {job.to} /\ points[job.to][x] # Absent /\ <<job.to, x>> \notin job.batch
        BY <3>3, <4>1, <4>2
      <4>4. points'[job.to][x] # Absent
        BY <2>1, <4>3, WithoutWrites
      <4>5. job.to \in Together(p)
        BY <2>1, <4>3 DEF Together
      <4>6. QED
        BY <2>2, <4>4, <4>5
    <3>4. QED
      BY <3>2, <3>3
  <2>5. QED
    BY <2>3, <2>4, TornStays
<1>4. ASSUME NEW batch \in SUBSET job.found, CopyBatch(batch)
      PROVE  AllWith(p, points[p][c].source_hash)'
  <2>1. /\ job.at = "stale" /\ job'.at \in {"stale", "copied"}
        /\ job'.from = job.from /\ job'.to = job.to
        /\ job.from \subseteq Projects /\ job.to \in Projects
        /\ \A i \in job.found : i[1] \in job.from \ {job.to}
    BY <1>4 DEF CopyBatch, TypeOK, GatheredInv
  <2>2. \A r \in Projects : Together(r)' = Together(r) /\ Together(r) \subseteq Projects
    BY <2>1 DEF Together
  <2>3. ASSUME NEW q \in Projects, NEW x \in Chunks, points[q][x] # Absent
        PROVE  points'[q][x] # Absent
    <3>1. \/ points'[q][x] = points[q][x]
          \/ \E r \in Projects : <<r, x>> \in batch \cap Stored /\ points'[q][x] = points[r][x]
      BY <1>4, CopyWrites
    <3>2. QED
      BY <2>3, <3>1 DEF Stored
  <2>4. CASE points'[p][c] = points[p][c]
    BY <2>2, <2>3, <2>4, TornStays
  <2>5. CASE points'[p][c] # points[p][c]
    <3>1. PICK q \in Projects : /\ p = job.to /\ <<q, c>> \in batch \cap Stored
                                /\ points'[p][c] = points[q][c]
      BY <1>4, <2>5, CopyWrites
    <3>2. q \in job.from
      BY <2>1, <3>1
    <3>3. Together(q) = Together(p)
      BY <2>1, <3>1, <3>2 DEF Together
    <3>4. AllWith(q, points[q][c].source_hash)
      BY <3>1 DEF TornInv
    <3>5. points[q][c].source_hash \in Versions
      BY <1>1, <3>1 DEF HashInv, Sound
    <3>6. ChunksOf[points[q][c].source_hash] \subseteq Chunks
      BY <3>5
    <3>7. QED
      BY <2>2, <2>3, <3>1, <3>3, <3>4, <3>6 DEF AllWith
  <2>6. QED
    BY <2>4, <2>5
<1>5. QED
  BY <1>2, <1>3, <1>4

LEMMA TornInvStep ==
  TypeOK /\ WriterInv /\ HashInv /\ LockInv /\ StampedInv /\ GatheredInv /\ TornInv /\ [Next]_vars
    => TornInv'
<1> SUFFICES ASSUME TypeOK, WriterInv, HashInv, LockInv, StampedInv, GatheredInv, TornInv,
                    [Next]_vars, kind' = "file", disturbed' = "no",
                    NEW p \in Projects, NEW c \in Chunks, Torn(points'[p][c])
             PROVE  AllWith(p, points[p][c].source_hash)'
  BY DEF TornInv
<1>0. kind = "file"
  BY KindStays
<1>1. CASE disturbed # "no"
  BY <1>0, <1>1, PublishEnds
<1>2. CASE disturbed = "no" /\ points' = points
  <2>1. points[p][c] # Absent
    BY <1>2 DEF Torn, Absent, Point
  <2>2. \A q \in Together(p), x \in Chunks :
          points[q][x] # Absent => \E r \in Together(p)' : points'[r][x] # Absent
    BY <1>0, <1>2, <2>1, StaysTogether
  <2>3. QED
    BY <1>0, <1>2, <2>2, TornStays
<1>3. CASE disturbed = "no" /\ points' # points
  BY <1>0, <1>3, OwnChange, TornByWriter, TornByJob
<1>4. QED
  BY <1>1, <1>2, <1>3

(* A refresh that finds nothing changed finds what it compares with.       *)
LEMMA SkipFindsTheFile ==
  ASSUME IInv, Skip, file # None, writer.listed = heads, disturbed = "no"
  PROVE  \E p \in Projects : CurrentChunks(p, file)
<1>1. /\ kind = "file" /\ job.at = "off" /\ file \in Versions
      /\ \A p \in Projects : Together(p) = {p}
  BY DEF Skip, IInv, LockInv, TypeOK, Maybe, Together
<1>2. /\ Stored # {}
      /\ \A i \in Stored : AsListed(i)
      /\ \A p \in Projects : heads[p] # None => In(p) = ChunksOf[heads[p]]
  BY DEF Skip, Unchanged
<1>3. PICK p \in Projects, c \in Chunks : points[p][c] # Absent
  BY <1>2 DEF Stored
<1>4. \A x \in Chunks : points[p][x] # Absent =>
         points[p][x].source_hash = file /\ points[p][x].source_version = heads[p]
  <2>1. \A x \in Chunks : points[p][x] # Absent => <<p, x>> \in Stored
    BY DEF Stored
  <2>2. QED
    BY <1>2, <2>1 DEF AsListed
<1>5. /\ heads[p] \in Versions /\ In(p) = ChunksOf[heads[p]]
      /\ \A x \in In(p) : x \in ChunksOf[file]
  <2>1. ASSUME NEW x \in In(p)
        PROVE  heads[p] \in Versions /\ x \in ChunksOf[file]
    <3>1. x \in Chunks /\ points[p][x] # Absent /\ Sound(points[p][x], x)
      BY DEF In, IInv, HashInv
    <3>2. points[p][x].source_hash = file /\ points[p][x].source_version = heads[p]
      BY <1>4, <3>1
    <3>3. QED
      BY <3>1, <3>2 DEF Sound
  <2>2. c \in In(p)
    BY <1>3 DEF In
  <2>3. heads[p] \in Versions
    BY <2>1, <2>2
  <2>4. QED
    BY <1>2, <2>1, <2>3
<1>6. ChunksOf[file] \subseteq In(p)
  <2>1. CASE heads[p] = file
    BY <1>5, <2>1
  <2>2. CASE heads[p] # file
    <3>1. Torn(points[p][c]) /\ points[p][c].source_hash = file
      BY <1>3, <1>4, <2>2 DEF Torn
    <3>2. AllWith(p, file)
      BY <1>1, <3>1 DEF IInv, TornInv
    <3>3. ChunksOf[file] \subseteq Chunks
      BY <1>1
    <3>4. QED
      BY <1>1, <3>2, <3>3 DEF AllWith, In
  <2>3. QED
    BY <2>1, <2>2
<1>7. In(p) = ChunksOf[file]
  BY <1>5, <1>6
<1>8. \A x \in In(p) : points[p][x].source_hash = file /\ points[p][x].source_version = heads[p]
  BY <1>4 DEF In
<1>9. QED
  BY <1>5, <1>7, <1>8 DEF CurrentChunks

-----------------------------------------------------------------------------
LEMMA InitInv == Init => IInv
<1> SUFFICES ASSUME Init
             PROVE  IInv
  OBVIOUS
<1>1. ~excluded /\ ~whole /\ ~purged /\ writer = NoWriter /\ job = NoJob /\ importer = NoImporter
  BY DEF Init
<1>2. PurgeInv /\ PurgedInv /\ PurgedStaysGone /\ WriterInv /\ ProgressInv /\ MoveInv /\ WholeVersion
  BY <1>1 DEF PurgeInv, PurgedInv, PurgedStaysGone, WriterInv, ProgressInv, MoveInv, WholeVersion,
              NoWriter, NoImporter
<1>3. {fact, excluded, whole, purged} \subseteq BOOLEAN
  BY Zenon DEF Init
<1>4. kind \in Kinds /\ file \in Maybe
  BY DEF Init, Maybe
<1>5. /\ points \in [Projects -> [Chunks -> PointSet]] /\ heads \in [Projects -> Maybe]
  BY PointType DEF Init, Maybe
<1>6. writer \in [at : {"off", "compare", "ignored", "gone", "cleared", "store", "embedded",
                       "stored", "stamped", "spanned", "pruned"},
                 version : Maybe, project : Projects, placed : Projects,
                 todo : SUBSET Chunks, held : SUBSET Chunks, listed : [Projects -> Maybe]]
  BY <1>1 DEF NoWriter, Maybe
<1>7. /\ job \in [at : {"off", "excluded", "scanned", "listed", "factless", "pointless",
                         "paired", "placing", "stale", "copied", "moved", "rehomed"},
                   from : SUBSET Projects, to : Projects,
                   found : SUBSET (Projects \X Chunks), batch : SUBSET (Projects \X Chunks),
                   heads : SUBSET Projects]
      /\ importer \in [at : {"off", "placed", "head"},
                        version : Maybe, project : Projects, held : SUBSET Chunks]
  BY <1>1 DEF NoJob, NoImporter, Maybe
<1>8. /\ rule \in Projects /\ owed \subseteq Projects
      /\ deleting \subseteq Projects \X Chunks /\ disturbed \in {"no", "before", "since"}
      /\ events \in 0..MaxEvents
  BY DEF Init
<1>9. TypeOK
  BY <1>3, <1>4, <1>5, <1>6, <1>7, <1>8 DEF TypeOK, PointSet
<1>10. \A p \in Projects, c \in Chunks : points[p][c] = Absent
  BY DEF Init
<1>11. ~Torn(Absent)
  BY DEF Torn, Absent, Point
<1>12. HashInv /\ LockInv /\ StampedInv /\ TornInv
  BY <1>1, <1>10, <1>11
     DEF HashInv, Sound, LockInv, StampedInv, TornInv, NoWriter, NoJob
<1>13. GatheredInv
  BY <1>1 DEF GatheredInv, NoJob
<1>14. QED
  BY <1>2, <1>9, <1>12, <1>13 DEF IInv

LEMMA NextInv == IInv /\ [Next]_vars => IInv'
  BY TypeInv, PurgeInvStep, WriterInvStep, ProgressInvStep, WholeVersionStep, MoveInvStep,
     HashInvStep, LockInvStep, StampedInvStep, GatheredInvStep, TornInvStep DEF IInv

LEMMA Invariance == Spec => []IInv
  BY InitInv, NextInv, PTL DEF Spec

-----------------------------------------------------------------------------
(* Every state of the stores and of the processes that change them is well *)
(* formed: a writer, a job or a session never acts on a project, a chunk   *)
(* or a version that is none.                                              *)
THEOREM TypeCorrect == Spec => []TypeOK
  BY Invariance, PTL DEF IInv

(* A completed purge is final until the exclusion is restored, whatever    *)
(* was under way when it began, for any number of projects and chunks.     *)
THEOREM PurgeIsFinal == Spec => []PurgedStaysGone
  BY Invariance, PTL DEF IInv

(* Once stored whole, a source is stored whole, in one version or another, *)
(* until somebody removes it: through replacements, moves and sessions     *)
(* that are stopped anywhere.                                              *)
THEOREM OldGoesAfterNew == Spec => []WholeVersion
  BY Invariance, PTL DEF IInv

(* A refresh never skips a file of which the stores hold other chunks than *)
(* its own, too few or too many: wherever replacements stopped before, and *)
(* whatever was moved or purged since, unless somebody else disturbed the  *)
(* source.                                                                 *)
THEOREM SkipsOnlyWhatIsCurrent == Spec => OwnSkipMeansCurrent
<1>1. IInv => (Skip /\ file # None /\ writer.listed = heads /\ disturbed = "no" =>
                 \E p \in Projects : CurrentChunks(p, file))
  BY SkipFindsTheFile
<1>2. QED
  BY <1>1, Invariance, PTL DEF OwnSkipMeansCurrent

=============================================================================
