# Imprint: models, checks and proofs

This directory specifies the parts of Imprint in which several processes,
threads or tasks act on shared state, checks them with TLC on small instances
and proves the most important properties with TLAPS for every instance. Paths
are relative to the repository.

| Module | Models | Checked by | Proved in |
|---|---|---|---|
| `SingleSlot` | what the queue lock promises (abstract) | refined by `QueueLock` | |
| `QueueLock` | `imprint/queue_lock.py`, `internal/queuelock`, `cmd/queuelock.go` | `lock`, `lock_kill` | `QueueLockProofs` |
| `JobLifecycle` | what the queue promises its clients (abstract) | refined by `JobQueue` | |
| `JobQueue` | `imprint/queue.py` (rows, dispatcher, cancel, reaper, recovery) and its children | `jobs`, `jobs_cancel` | `JobQueueProofs` |
| `LiveOutput` | `imprint/queue.py` (`tail_output`, the pump) and the stream endpoint | `output`, `output_late` | `LiveOutputProofs` |
| `SessionLearn` | `imprint/session_learn.py`, `queue_lock.try_lock`/`unlock` | `learn` | `SessionLearnProofs` |
| `Wire` | what the relay promises two devices (abstract) | refined by `Relay` | |
| `Relay` | `cmd/relay.go` | `relay` | `RelayProofs` |
| `SyncPairs` | `imprint/sync_pairs.py`, the paired session of `imprint/sync_ws.py`, `imprint/sync_delta.py` | `pairs` | `SyncPairsProofs` |
| `Tagging` | `imprint/tag_backlog.py`, `imprint/cli_retag.py`, the classification and import of `imprint/vectorstore.py`, the records of `imprint/sync_delta.py` | `tags` | |
| `Sources` | the replacement, import and deletion of `imprint/vectorstore.py`, `imprint/source_snapshots.py`, `imprint/purge.py`, `imprint/projects.py`, `imprint/placement_sync.py`, the refresh of `imprint/cli_index.py` | `sources` | `SourcesProofs` |
| `Echo` | `imprint/voice_api.py` (the conversation, its windows, replies and the speech worker) | `echo` | `EchoProofs` |

`MC*.tla` declare the model values of an instance; one `.cfg` per run gives the
constants their values. `PROJECT.json` maps definitions to source lines and
lists components, runs, mutants, findings, hazards and theorems.

Running: `tlc -config MCQueueLock.cfg MCQueueLock` (and likewise for the other
runs), `tlapm QueueLockProofs.tla` (and likewise for the other proof modules).
With two workers `pairs`, `sources` and `echo` take two to three minutes, `jobs`
and `relay` one to two, the others less than a minute each. From nothing, the
proofs of `SyncPairs` take eight minutes, those of `Relay`, `Sources` and `Echo`
four, the others about one at most.

## 1. Inventory

Imprint is a local memory layer for coding agents: a Go CLI, a Python server
(dashboard API and MCP), worker processes that load the embedding model, a
Qdrant server and SQLite files, all of one user on one machine; and optional
sync between devices through a WebSocket relay.

### Components with state and concurrency

**Queue lock** (`imprint/queue_lock.py`, `internal/queuelock/*.go`,
`cmd/queuelock.go`; ADR 0064, 0067). *State*: an flock on `data/queue.lock`,
and the file's body with the holder's PID, command and `preemptible` flag.
*Operations*: acquire (at once, waiting, or taking the lock from a preemptible
holder by SIGTERM and then SIGKILL), release, read the holder, clear stale
metadata. *Users*: every heavy command, started by the dashboard's dispatcher,
in a terminal or by a client's hook. *Hard*: two implementations; body and
flock are not one atomic object; a signal is sent to a PID that was read
earlier; holders crash. *Correct when*: one holder; the body names it or
nobody; only declared holders are signalled; a background run steps aside.

**Job queue and dispatcher** (`imprint/queue.py`, `imprint/api.py`; ADR 0064,
0067, 0068). *State*: the table `jobs` in SQLite; the dispatcher's local
variables in one asyncio task; `_background` (what holds background work
back); child processes. *Operations*: submit (merging into an identical waiting
row), pick, claim, spawn, record the PID, pump the output, wait, judge,
finalize; cancel in request threads; a reaper task; recovery at startup.
*Interactions*: children compete for the queue lock and ask the table whether
a job waits; the lock's body tells the dispatcher of terminal commands. *Hard*:
cancel and submit between any two steps; a crash leaves rows and processes
behind; the verdict is pieced together from an exit code and a marker. *Correct
when*: one row runs; ended rows stay ended; done means success; a merged
request precedes the run; every queued job gets its turn; every running row is
closed; a cancelled job leaves no process.

**Live job output** (`imprint/queue.py` 153-175, 853-863, 912-949). *State*:
the log file, a ring buffer of 20 000 lines, an `asyncio.Event` and a done
mark per job. *Operations*: append a line, mark done, open a stream (replay
the log, attach, follow). *Hard*: the pump is a thread, the streams are tasks
that share one event which each of them clears. *Correct when*: lines come in
order, none after the attachment is lost, and streams end.

**Session learner** (`imprint/session_learn.py`; ADR 0077). *State*: a locked
slot file per conversation, the queue lock, the transcript. *Operations*: take
the slot or leave, settle, wait for the lock, give the slot up, learn.
*Hard*: the slot is unlinked while others have it open, so a lock may be held
on a file that is no longer at the path. *Correct when*: no turn is lost
unless a learner fails, and slots do not pile up.

**Background tagging and Organize** (`imprint/tag_backlog.py`,
`imprint/cli_retag.py`, `imprint/organize.py`; ADR 0051, 0067, 0132, 0138).
*State*: per memory its tags, the stamp `tagged_at` and the marker
`tag_pending`; workspace signatures. *Operations*: walk the backlog page by
page, classify, write each result with a stamp past the one it replaces, ask
between memories whether a job waits; the same in the foreground. *Hard*:
memories are stored, deleted and imported while they are classified; two
devices with different clocks classify the same memory; the run is stopped
anywhere. *Correct when*: it yields; every memory that waits is tagged by a
device that tags; a stamp names one classification; the devices come to agree.

**Runtime lock** (`HoldRuntime`, `WaitRuntime`, `wait_for_runtime`; ADR 0084).
`imprint setup` holds `runtime.lock` while it replaces the venv; a server that
starts polls until it is free.

**Relay** (`cmd/relay.go`). *State*: rooms by id, each with a provider and a
consumer slot, readiness flags and held frames. *Operations*: join, deliver
what was held, forward, clean up, expire. *Hard*: one goroutine per peer;
joining, forwarding, cleanup and expiry interleave; writes happen outside the
lock. *Correct when*: each peer gets its partner's frames, all and in order,
and nobody else's; a peer whose partner left is closed.

**Live sync sessions** (`imprint/sync_ws.py`, `imprint/sync_crypto.py`).
*State*: the channel's keys and counters, what was transferred. *Operations*:
key agreement, approval, pull, push, delta exchange, storing in a thread.
*Hard*: either end may fail anywhere and each learns of the other's end only
by a closed connection. *Correct when*: both sides agree on what was
transferred and nothing is stored that policy did not allow.

**Sync pairs** (`imprint/sync_pairs.py`, `imprint/sync_pair_lock.py`; ADR 0020,
0116). *State*: pair records in SQLite (state, enabled, checkpointed digests),
running attempts of one owner process. *Operations*: pair, enable, forget,
remove, exchange, attempt, watch. *Hard*: each side saves at a different
moment; messages get lost; the user acts during an attempt. *Correct when*:
both sides decide alike whether to transfer; a paused or forgotten pair stores
nothing more; checkpoints never hide a difference.

**Delta reconcile** (`imprint/sync_delta.py`). *State*: none of its own; the
two manifests of a session. *Operations*: swap manifests, send what the other
lacks or has older, chunk by chunk with an acknowledgement for each, one chunk
read ahead. The newer version wins and a tie keeps what is there; deletions are
not carried (`docs/sync.md`), so a deleted record returns from the other
device. *Correct when*: two devices converge and no newer version is replaced
by an older one.

**Stores of a source**: the vector store (`imprint/vectorstore.py`,
`imprint/qdrant_runner.py`; Qdrant), the facts graph
(`imprint/imprint_graph.py`; SQLite) and the source snapshots
(`imprint/source_snapshots.py`; SQLite). *State*: per project the chunks of a
source, each with the hash and the snapshot version it belongs to; the head of
the source; its facts. *Operations*: replace (embed, store, stamp, prune,
publish), import from a peer, delete a memory or a source, look up. *Hard*: no
transaction spans the stores, and writers outside the jobs take no lock.
*Correct when*: old data goes only after the new is there, and a source that a
refresh skips is what the file says.

**Ingestion and refresh** (`imprint/cli_index.py`, `imprint/ingest_core.py`,
`imprint/source_state.py`, `imprint/cli_ingest_url.py`). *State*: none but the
stores. *Operations*: compare a file with its stored hashes, versions and
manifest; skip, replace or drop it. *Hard*: whatever stopped earlier must be
found by that comparison. *Correct when*: refreshes repair what was left behind.

**Projects and placement rules** (`imprint/projects.py`,
`imprint/placement_sync.py`). *State*: rules that map an origin and a source to
a project. *Operations*: place each write, save rules and rewrite what they
misplace, undo, import a peer's rules. *Hard*: a write is placed long before it
is stored. *Correct when*: everything ends where the rules place it.

**Policy and purge** (`imprint/workspace_policy.py`, `imprint/purge.py`).
*State*: the exclusions of a workspace. *Operations*: check before a write,
again at the write; exclude, enumerate and delete in three stores; restore.
*Hard*: writes and sync sessions under way. *Correct when*: what was purged
stays gone until it is restored.

**Voice conversation** (`imprint/voice_api.py`; ADR 0145). *State*: the one
conversation with its queue of questions and the window that holds it; the
speech worker's process and its lock; one task each for every window, for the
runner, for the reply and for every transcription. *Operations*: connect,
attach, ask, transcribe, answer, speak, stop, end, leave. *Hard*: every await is
a place where a window may go, a stop may come or the worker may be lost; tasks
cancel and await each other. *Correct when*: a question runs until it is
answered or stopped, leaving cuts nothing, and the worker is held only while
somebody needs it.

**Core memories** (`imprint/core_memories.py`): revisions in one SQLite
transaction each.

### Components without a protocol of their own

Redaction, the choice of a workspace, chat, recordings and the wake word, agent
activity, the HTTP and MCP handlers, model runtimes, configuration, the Go
CLI's setup, update and hooks, the user interfaces, installers and the
benchmark. They transform data, call libraries or edit
files in sequence, mostly as one job under the queue lock. `PROJECT.json` lists
each with the reason it is left out.

## 2. Plan

The order follows what the rest relies on: every heavy command relies on the
lock, every dashboard job on the queue, and devices on the relay and the pairs.

1. **Queue lock** — `SingleSlot`, `QueueLock`, refinement, proofs. *Done.*
2. **Job queue** — `JobQueue`, safety, liveness, proofs, and `JobLifecycle`, the
   queue as its clients see it, with the refinement and its proof. It composes
   with the lock through an atomic lock variable, which `QueueLock`'s refinement
   of `SingleSlot` justifies. *Done, but for pruning, clocks and the resume race.*
3. **Live output** — `LiveOutput`, safety, liveness, proofs. *Done.*
4. **Session learner** — `SessionLearn`, safety, liveness, proofs. *Done.*
5. **Relay** — `Wire` (two FIFO channels that may be cut), `Relay` and the
   refinement, with its proof. *Done.*
6. **Sync pairs** — `SyncPairs`: records, watcher, session, transfer, failures
   and commands, with proofs of all its safety. *Done.* The transfer of
   `sync_delta` became part of this module instead of one of its own, because
   its hazards are in the checkpoints.
7. **Tagging** — `Tagging`: the backlog against memories that change, and the
   records and markers a sync carries. *Done.* Its safety stays with TLC: see
   section 14.
8. **Sources** — `Sources`: one source in its three stores under refresh,
   replacement, purge, move, import and deletion, each of which may stop between
   two writes, with proofs of its safety. *Done.*
9. **Voice** — `Echo`: one conversation, its windows, runner, replies,
   transcriptions and worker, with proofs of both safety properties. *Done.*
10. **Queue, second pass** — pruning and the clock part of the pauses. *Open.* So
   are the chat replies that outlive their request (`imprint/chat_replies.py`),
   which follow the same decision as the voice's.

Of the safety properties only `SameStampSameTags` has no theorem; section 14
says what it would have to assume.

## 3. The queue lock

### State and actions

`owner` is the process whose descriptor has the flock; `body` the process that
the file names (empty is `Nobody`; whether it is preemptible is a fact of the
process, `Preemptible`). `pc`, `target` and `waited` are a taker's position,
the PID it is about to signal and its clock (before 3 s, before 6 s, past the
deadline). A signal is pending in `term` or `kill` until `Die`.

| Code | Actions |
|---|---|
| `acquire`, `TryAcquire`: first attempt | `TryLock` |
| `preempt`: read, SIGTERM | `ReadHolder`, `StopHolder` |
| `_wait_for_lock`, `takeFromPreemptible` | `Reread` (Python only), `PollTake`, `PollLate`, `Escalate`, `PollTimeout`, `Tick` |
| `flock` without `LOCK_NB` | `Grant` |
| `waitForLock` (CLI) | `Retry` |
| `ftruncate`, `write` | `Truncate`, `WriteHolder` |
| `release`, `releaseNative` | `Release`, `Unlock` |
| `clear_stale` | `ClearRead`, `ClearLock`, `ClearTruncate`, `Unlock` |
| kernel, signals, kill -9 | `Die`, `Exit`, `Crash` |

The two implementations differ in three places, and the module keeps all three:
Go escalates to the PID it checked, Python reads the body again; Go tries the
lock once more after the deadline; a waiting Go command polls, a waiting Python
process blocks in the kernel.

### Properties and runs

- `lock`: one background run, a waiting Python process, a waiting CLI, a server
  that clears stale metadata, one crash, under fairness. With these four every
  path of `acquire` meets every other. `MutualExclusion`; `HolderIsNamed`
  (whoever runs a job is named, so nobody concludes that the lock is free);
  `NamedHolderHolds` (a live process that is named has the lock);
  `OnlyPreemptibleTerminated`; and `ImplementsSlot`: with `occupant <- owner`
  and the sign a reader sees (`read_holder`), the lock is a `SingleSlot`.
  `BackgroundStepsAside`: a waiting CLI gets the lock although the background
  run that holds it need never end by itself.
- `lock_kill` (a violation): `OnlyPreemptibleSignalled` extends the rule to
  SIGKILL, and fails with two *Python* takers.
  Both see the background run; the first gets the lock; the second then reads
  the body again, finds the first one's PID and after three seconds sends it
  SIGKILL. `preempt`'s docstring excludes this.

### Proof

`QueueLockProofs` proves for any sets of processes and any number of crashes
what `lock` checks, and `OnlyPreemptibleSignalled` for takers that are all Go.
The properties are not inductive. The invariant adds `OwnerWorks` (a process is
at an owning step exactly when it owns the flock), `BodyInv` (a live process is
named by the body exactly while it is at `held`: in the two steps around it,
its own name is not there) and `TakerInv` (who waits is neither preemptible nor
a cleaner, and whoever is about to send SIGTERM read its target from a
preemptible holder). The only assumptions are those of `QueueLockAssumption`:
the groups of processes do not overlap where the code keeps them apart.

## 4. The job queue

### State and actions

A row has a command (what `dedupe_key` distinguishes, or `tag-backlog`), a
status, whether its PID was recorded, the marker `cancelled` in its `error`
text, and (history) the requests it answers. `child` is the process of each
row, `lock` the queue lock taken in one step. `at`, `current`, `verdict` are the
dispatcher's program counter and locals; `cancel` a cancel request's position;
`held` whether a cancel keeps background work back; `up` whether a server runs.

Each SQLite transaction is one step, because all run under `_db_lock`; each
system call and each `await` ends a step. The dispatcher and the reaper share an
event loop, so `Reap` is enabled only where the dispatcher awaits. The reading
of the lock's holder and the reading of the oldest waiting row are one step
(`NextQueued`): what happens in between is a job that waits for a terminal
command, or a row that was cancelled, and `Claim` looks at the row again.

| Code | Actions |
|---|---|
| `submit` | `Submit` |
| `_next_queued`, `_startable_backlog`, `_run_background_if_due` | `NextQueued`, `StartableBacklog`, `InsertBackground` |
| `_run_job` | `Claim`, `Spawn`, `RecordPid`, `PumpFails`, `WaitReturns`, `Judge`, `Finalize` |
| `cancel`, `_schedule_sigkill` | `CancelRead`, `CancelSignal`, `CancelClose`, `CancelMark`, `ChildKilled` |
| `_reap_dead_running`, `backlog_changed` | `Reap`, `BacklogChanged` |
| `recover_on_startup` | `RecoverOnStartup` |
| children and terminals | `ChildStarts`, `ChildMeetsHolder`, `ChildEnds`, `BackgroundYields`, `TerminalTakes`, `TerminalEnds` |

### Properties and runs

- `jobs`: two rows, two identical requests and a third for another command, any
  two of the upsets (server crash, cancel, log failure, terminal command), under
  fairness. Two rows are a running one and a waiting one that it must not merge
  with, or a request and a background run; two upsets are a crash and a cancel,
  or a cancel and a terminal. `OneRunningRow`, `DoneMeansSuccess`,
  `EndedStaysEnded`, `RequestsAreSeen`, all of them proved for any number of
  rows. `QueuedJobsRun`: every queued row leaves the queue, with a background
  run that may never end. `RunsEnd`: every running row ends, a background one
  once it is cancelled. `ImplementsLifecycle`: the queue is a `JobLifecycle`.
- `jobs_cancel` (a violation): `CancelledJobIsStopped`. A cancel between the
  commit of `running` and the record of the PID reads a null PID, takes the
  process for gone and closes the row; the process is started and never
  signalled. The documentation promises that it is gone within three seconds.

### Proof

`JobQueueProofs` proves the type invariant and the four safety properties of
`jobs` for any numbers of requests, rows and upsets. `OneRunningRow` is stated
with `Cardinality`, proved from `OnlyOne` (two running rows are equal).
`DispatcherInv` ties the dispatcher to the table: no row runs while it is about
to insert or claim; the row it claims is queued, or was cancelled meanwhile;
the row it engaged is running or cancelled, so a late `Finalize` can only move
between ended statuses. `ProcessInv`: a waiting row has no process. Picking the
oldest row is a `CHOOSE`, so the proof needs `LeastRow`, that a nonempty set of
row numbers has a least one, shown by counting (no induction, which the
installed provers cannot instantiate).

`QueueIsFifo` proves `ImplementsLifecycle`, the "single-slot FIFO queue" with
"merged duplicate jobs" of `docs/queue.md`. In `JobLifecycle` a job is new,
waiting, running or ended and answers a set of requests. A request joins a job
that waits for the same command or becomes the next job; a requested job begins
when none runs and no requested one before it waits; it ends waiting only when
it is withdrawn. Background runs are jobs that answer nobody: nothing is said of
when they begin, and they may end without having run. Running is what the row
says: `jobs_cancel` shows a process that outlives it. All else, from the
children, the lock and the terminals to the cancels and a crashed server,
either moves running jobs to ended or is no step of it. The proof is in two
halves. `StepOfTable` says
what a step does to the table: it merges a request, adds a row, begins the row
the dispatcher is at, cancels a waiting row, or closes rows that ran or that
nobody asked for. `OrderInv` makes each of these a step of the lifecycle: a
row answers requests for its own command, and a background row none
(`AskedInv`), so the row `Absorbs` finds is one the lifecycle shares; rows are
used in their order (`UsedInv`), so a new row never stands before the one that
was picked; between pick and claim, the picked row is still the oldest
(`TurnInv`), whatever is cancelled or merged meanwhile; and a cancel that closes
a row it takes for dead read it while it ran (`CancelInv`), so it withdraws no
waiting job. Recovery closes waiting rows too, but background ones only.

## 5. Live output

`WriteLog` and `AppendOutput` are the two writes of the pump, `JobEnds` the
status and the done mark, `SetEvent` a callback the event loop runs. A stream
goes through `Open`, `ReplayLine`, `EndOfLog`, `Attach`, `Wait`, `TakeLines`,
`SendLines`. Lines are their numbers. An `asyncio.Event` wakes everyone who
waits at the moment it is set, so `SetEvent` moves all of them.

- `output`: two streams and three lines with a buffer of two, so that a line can
  fall out of the buffer. `InOrder`; `NothingMissed` (a stream that ended sent
  the log as it read it and then every line from its attachment on, once), for
  jobs that fit the buffer; `AStreamEnds`, the end reaches one of the streams.
- `output_late` (a violation): `EveryStreamEnds`. A stream opened after the job
  ended makes a new event and waits for it forever.

What the code does not promise is visible in the statements: lines between the
end of the replay and the attachment may be missing or sent twice, a job longer
than the buffer stalls a stream, and of two streams one may hang.

### Proof

`LiveOutputProofs` proves the types, `InOrder` and `NothingMissed` for any
number of streams and lines and any size of the buffer (at least one line). A
stream's lines are described as a run of successive numbers (`Run`). `ReplayInv`:
until it attaches, a stream has sent the first `next` lines. `GapInv`: while no
line fell out of the buffer, what it took is that beginning followed by the run
from `joined` to `cursor`. Both need `PumpInv` (the buffer is at most one line
behind the log) and `CursorInv`. Once lines do fall out, positions in the buffer
and numbers of lines part; order survives because a cursor below the buffer's
size bounds what was taken (`OrderInv`). `NothingMissed` needs `LastInv` too: a
stream that saw the job done has looked after the last line was appended.

## 6. The session learner

A learner has the number of the turn that started it. `path` is the file at the
slot's path, `fd` the file a learner opened, `flock` who has a file locked; an
unlinked file keeps its number, as an inode does. `by` (history) is the learner
a turn was left to. `OpenSlot` and `TryLock` are `try_lock`, `UnlockSlot` and
`RemoveSlot` are `unlock`, `AcquireQueueLock` to `Release` are `learn`.

- `learn`: four turns, so that two learners can hold two slot files while others
  arrive, one other job, one failure or kill. `UnreadTurnHasALearner`: every
  turn that ended is learned, or left to a learner that has the transcript
  still to read, or to one that failed. `TurnsAreLearned`: it is learned in the
  end.

The documentation says that a conversation has at most one learner waiting.
`unlock`'s docstring admits two because of the unlinked files; the model has
these states, and no property is stated about their number.

### Proof

`SessionLearnProofs` proves the types and `UnreadTurnHasALearner` for any
numbers of turns, jobs and upsets (natural numbers, nothing else is assumed).
The danger is a turn left to a learner that will not read any more. `SlotInv`:
whoever has a file locked is between settling and giving up, with that very
file open, linked or not; so whoever finds it locked is left to a learner that
still reads. `QueueInv`: a learner past its wait has the queue lock or was
stopped. `FileInv` and `FewFiles` (no more files than learners that opened one)
keep descriptors and file numbers in range; the latter is shown by counting.

## 7. The relay

One room id; connections are numbered as they join, rooms as they are created.
`listed` is the table's entry under the id, `slot`, `ready` and `held` the
fields of a room object, `joined` the room a goroutine holds a pointer to,
which may no longer be the listed one. `pc` and `peer` are a goroutine's
position and the connection it is about to write to or close, outside the
locks. What both mutexes protect is one step; each write and each read is one.

| Code (`relayPeer` unless said) | Actions |
|---|---|
| find or make the room, take the slot or be refused | `Join` |
| deliver what was held | `TakeHeld`, `Deliver` |
| read, forward or hold, overflow | `ReadFrame`, `Forward`, `ReadFails` |
| cleanup | `CleanUp`, `CloseBoth` |
| `Relay`'s goroutine | `Expire` |

- `relay`: three connections with any roles, three frames, a held list that
  overflows at two. Three connections give a pair and a third that is refused,
  or that comes while the pair cleans up and so opens or destroys the next
  room. `WireSpec`: with `partner`, the frames read and the frames written, the
  relay is a `Wire`: a connection gets the frames of the one it met, from the
  first on, in order, without a gap, and of nobody else.
  `FramesArrive`: what was sent does arrive while both are open.
  `PartnerIsClosed`: nobody waits for a partner that is gone. `TypeOK` includes
  the limit of the held list.

A sender that overflows the held list is closed in the step that holds the frame
(`ReadFrame`); the code closes it after it has unlocked (`relay.go:288-291`), and
reads nothing from it in between. What the relay does not promise: a peer that waits alone may lose its room. The
cleanup of the second peer of a pair deletes whatever room is in the table
(`relay.go:326`), and a new room whose first peer waits is then neither found
by the next peer nor expired. The model has this; neither promise above is
broken by it, since the waiting peer never met anyone.

### Proof

`RelayProofs` proves `TypeOK`, with the limit of the held list, and that the
relay implements `Wire`, for any number of connections, frames and held frames.
The refinement is shown action by action: `Join` meets or stays alone,
`ReadFrame` sends, `Deliver` and `Forward` receive, the rest stutters. It needs
to know where a frame is. `StreamInv` says it for each pair: what b got, the
batch it is about to deliver, the held list and the frame in a's hands are
successive frames of a, and end with the last one a read; so what is written
next is the frame that follows what b has. `AloneInv` is the same before anyone
is met. The rest is about rooms, since a goroutine may hold a pointer to one
that is no longer listed: `RoomInv` and `FreshInv` (rooms are numbered as made,
one not yet made is empty), `SlotInv` and `ListedInv` (slots and joined rooms
agree), `PairInv` (two members of one room are partners), `LeftInv` (a pair's
slots empty together), `StageInv` (a connection is ready exactly when it reads).
`HeldInv` gives the bound: whoever may send still finds room for what it will
hold.

## 8. Sync pairs

### State and actions

`rec` is each device's row; a new pairing has a new id, as rows have.
`run` is the attempt: its position, the id, direction and version of the row it
was started with, the row as `exchange` read it (`seen`), the manifests, the
keys left to send and the chunk read ahead. `up` and `inbox` are the connection
through the relay and the frames under way, of which a prefix still arrives
when it is cut. `orphan` is a chunk whose import outlives its session, `late`
(history) marks a row another process changed and the watcher has not yet seen.
A workspace is the version of each record, and its digest the manifest itself.

| Code | Actions |
|---|---|
| `watch` | `Start`, `Tick` |
| `_accept`, `_join` | `Join` |
| `exchange` | `Hello`, `Greet`, `Forgotten`, `Compare` |
| `serve_session`, `receive_session` | `Grant`, `Request`, `Finish`, `Closed`, `LoseRelay`, `StoreFails` |
| `reconcile`, `_send`, `_receive` | `Swap`, `Prepare`, `SendChunk`, `SendEnd`, `Ack`, `Refused`, `Store`, `ReceiveEnd` |
| `_store` after a cancellation | `OrphanEnds` |
| `_attempt` | `Checkpoint` (in `Finish`, `Closed`, `LoseRelay`), `Fails` |
| `set_enabled`, `forget`, `remove`, `cancel_peer` | `SetEnabled`, `Forget`, `Remove` |
| `request_pair`, `accept_pair` | `RequestPair`, `AcceptPair`, `AckLost` |
| network, other commands | `Cut`, `Edit` |

### Properties and runs

- `pairs`: two records, so that a transfer takes two chunks and can stop
  between them; any two events of all kinds together. Both transfers are
  covered: deltas, and whole workspaces for an older peer; c's commands come
  from another process than its watcher's, p's from the same.
  - `SameDecision`: the comment "Both endpoints must make the SAME decision"
    (`sync_pairs.py:254`), for forgetting and pausing too.
  - `NothingIsHidden`: when a device finds nothing changed, neither holds
    anything the other may get and lacks. Checkpoints are taken from manifests
    older than the transfer, and p takes the end of the connection for success;
    this is why it does not matter.
  - `OnlyCompletedAdvance`: "Only completed transfers advance acknowledged
    digests" (ADR 0020), for delta syncs and for c.
  - `StoresOnlyWhileAllowed`: after a pause, a forget, a removal or a new
    pairing nothing is stored but the chunk under way, at once or from the next
    tick on (`docs/sync.md`).
  - `ForgetEnds` and `Converges`, under fairness.

What the code does otherwise than documented: `serve_session` reports a lost
connection as `done` unless a delta transfer had begun (`sync_ws.py:1197-1201`).
A connection lost in the relay room, in the key exchange or in `exchange` makes
`_attempt` set `last_sync` and clear both digests, although ADR 0116 says that
only a finished sync counts. In the model this is `LoseRelay` and `Closed`
followed by `Checkpoint`. Cleared digests lead to one more transfer and hide
nothing, so every property above survives it.

### Proof

`SyncPairsProofs` proves the types and all four safety properties of `pairs`,
for any set of records, any versions, directions, commands and numbers of
events. Assumed is only what the definitions presuppose: records are told apart
by numbers, so that the chunks have an order, versions start at 1, directions
are directions.

While the devices are connected, `Phase` lists the combinations of two positions
and two inboxes a session can be in, some thirty in eight groups; after a cut
each device is alone with a prefix of its inbox (`Awaits`). What a frame means
is said by

- `VerdictInv`, `StatusInv`, `SnapshotInv`, `SeenInv` for the decision: a
  verdict one device has reached is the one the other will reach from the
  frames that are still under way and the row it has read, or that row has
  changed and the next tick ends the attempt. This gives `SameDecision`.
  `StoresOnlyWhileAllowed` follows from `SeenInv`.
- `BoundInv`, `MirrorInv`, `SendInv`, `TransferInv` for the transfer: manifests
  are lower bounds of what is held, since versions only grow; every record one
  side must send is still to be sent, read ahead, in flight, or held by the
  other. This gives `OnlyCompletedAdvance`.
- `CheckpointInv`, `SinceInv` for what a later session concludes: c's
  checkpoint says that p has what c had (as far as c sends) and the reverse,
  not merely that two digests were equal. p's checkpoint says no such thing,
  because p also takes a lost connection for the end of a transfer.
  `NothingIsHidden` holds all the same because digests of both rows must agree
  with both workspaces before anything counts as unchanged.

`PairingInv` (a pairing has one direction, whoever names it) and `RoleInv` (who
may be at which stage) support all three. The chunk to send is the smallest
record left, a `CHOOSE`; that there is one is taken from the well-foundedness
of `<` on the naturals.

## 9. Tagging

A copy is its stamp, its tags and its marker. A classification is named by the
device and the time that made it, so that two of them are never equal by
chance. `storing` is a command between its look at what is held and its write,
`tagger` the one process that has the queue lock (the background job or
`imprint retag`), `session` the sender's lists and the chunk being stored. Each
call to Qdrant is one step.

| Code | Actions |
|---|---|
| `_store_redacted` | `StoreLooks`, `StoreWrites` |
| `delete`, `tagger.llm` | `Delete`, `SetLlm` |
| dispatcher, `_tag_all`, `drain`, `retag` | `RunStarts`, `Retag`, `ReadPage`, `Choose`, `Stop` |
| `set_classifications`, `_store` of the drain | `ReadStamp`, `WriteTags` |
| `exchange`, `reconcile`, `export_chunks` | `SyncStarts`, `SendRecord`, `SendBacklog`, `SendEnds`, `SessionLost` |
| `store_batch_precomputed` | `ImportReads`, `ImportWrites` |
| `adopt` | `AdoptReads`, `AdoptMarks` |

- `tags`: one memory, recorded on c; either device tags at first; one of the
  clocks is far ahead, so that stamps come from a clock as well as from moving
  past the other device's; any two deletions, retags, stops, lost sessions or
  changed settings.
  - `SameStampSameTags`: the digests hold stamps only, so a stamp that named two
    classifications would hide a difference for good.
  - `Served`: a memory that waits on either device is tagged while one of them
    tags; the marker, or the tags, cross (ADR 0138).
  - `Agree`: the devices hold the same memories with the same tags again and
    again, whatever happened in between.

What the code does not promise: a stamp may go back. Qdrant updates are
unconditional, so an import or a storing command that looked before a local
classification overwrites it, and a marker that `adopt` writes beside a new
stamp stays on a device that does not tag. `PROJECT.json` lists the lines.

## 10. Sources

### State and actions

One source of one workspace. `points` is the vector store: per project and
chunk a point with the hash of the file (`source_hash`) and the snapshot version
(`source_version`) it belongs to, both given by the name of the version, since
both are hashes of the content; and whether its path is one of this device
(`source_path_local`), which a chunk imported from a peer never has. `heads` is
the snapshot store, `fact` the graph.
`rule` is what `place` answers for an origin and the source, `owed` the projects
that a peer's rules empty and that nobody has rewritten yet. `writer`, `job`,
`importer` and `deleting` are the processes, each with its step and the locals
it carries from one store to the next. The history variables `whole` and
`purged` say that a replacement, or a purge, has completed; `disturbed` that
chunks which no replacement has replaced since were written by a peer, or by a
replacement in the middle of which a peer's rules moved the source, were deleted
by a user, or were left in two projects by a move that was interrupted.

| Code | Actions |
|---|---|
| the refresh of `cli_index.main` | `StartRefresh`, `Skip`, `Ignore`, `ReadFile`, `FindGone` |
| `delete_by_source` | `DropChunks`, `DropHead` |
| `store_inline_content` | `Ingest` |
| `replace_source`, `_store_redacted` | `Store`, `Persist`, `StampProvenance`, `StampSpans`, `Prune`, `Publish`, `WriterRefused` |
| `purge`, `restore` | `StartPurge`, `ScanPoints`, `ListHeads`, `DeleteFacts`, `DeletePoints`, `RemoveHeads`, `Restore` |
| `move`, `unplace`, `import_records`, `apply` | `StartMove`, `SaveRules`, `Unplace`, `ImportRule`, `ApplyRules` |
| `_apply_rules` | `ScanStale`, `CopyBatch`, `DeleteOld`, `PointsMoved`, `RehomeHead`, `RemoveOldHead`, `MoveEnds`, `MoveFails` |
| `store_batch_precomputed`, `Importer.feed` | `Receive`, `ImportPoints`, `ImportHead`, `ImportRefused` |
| `delete`, `add` | `DeleteMemory`, `DeletePoint`, `AddFact` |
| crashes and lost sessions | `StopWriter`, `StopJob`, `StopImporter` |

The queue lock keeps a refresh and the jobs apart (`LockFree`); a server that
stores inline content, a sync session and a person who restores or deletes take
no lock. Each write of `replace_source`, `_apply_rules` and `purge` to a store
is one step; `Persist` takes any nonempty batch, which covers batches of every
size and an upsert that wrote a part of one.

### Properties and runs

- `sources`: three versions of two chunks, so that an edit adds a chunk, drops
  one or exchanges one; two projects; a file or an inline source; any three
  events in all.
  - `PurgedStaysGone`: nothing of a purged source is stored until it is
    restored, although writers, moves and sessions were under way when it was
    excluded. It holds because `write_guard` asks again at the write, and
    because the purge enumerates after it has excluded.
  - `WholeVersion`: once a replacement has completed, some version is stored
    whole until somebody removes it: a replacement stores before it prunes, a
    move copies before it deletes. The chunks may lie in two projects while a
    move is under way or was stopped. Excepted is a server that prunes while a
    job moves the source, neither of which waits for the other: with five
    events, two of them rules of peers, both delete their copy of a chunk.
  - `OwnSkipMeansCurrent`: a refresh skips a file only if some project holds
    exactly its chunks, under a head cut into the same. It speaks of what
    replacements leave when they stop, and of the moves and purges that follow
    in any order; the four things above are excepted (`disturbed`), for each
    can make a mixture that passes for the file.
  - `Repaired`: once nothing disturbs them, refreshes bring the file's version
    to some project, whole and with its head, unless the source was disturbed;
    and they drop a deleted file's chunks, unless a peer's chunk is among them.
    The versions of this run are cut into different chunks; for versions that
    are cut alike it is false, as follows.

A refresh compares a file, and looks for a missing one, by the record of the
source that `get_source_states` returns, which is the payload of the point
scanned last (`vectorstore.py:1124`). Any stored point may be that one
(`LocalSource(last)`). When it is a peer's, a file that exists is read again,
which makes its chunks local; a deleted one is not missed
(`source_state.py:66`, `device.py:94`), and what is stored of it stays, local
chunks too, until the file comes back or the source is purged. A scan that ends
with a local point drops all chunks in that point's project, a peer's included.

A skip does not mean that the head is the file's. `vectorstore.py:196` leaves
the whitespace around a chunk out of its ID, so an edit of it keeps every ID;
`replace_source` gives the stored points the new hash (697) before their version
and spans (709). When it stops in between, the points agree in the new hash,
their version and their IDs agree with the old head, and every later refresh
skips the file, whose snapshot keeps the text from before the edit. TLC finds
this when `ChunksOf` gives two versions the same chunks and `OwnSkipMeansCurrent`
asks for the file's own head; `docs/chunking.md:31` promises that "mismatched
snapshot versions" trigger repair.

`OwnSkipMeansCurrent` needs its exceptions, although `vectorstore.py:1117` says of
an incomplete replacement "force a repair rather than calling it unchanged".
A peer's write: a replacement stops after one batch; a peer's version consisting
of just that batch's chunks arrives. `_align_received_chunks`
(`source_snapshots.py:161`) stamps them with the peer's version and leaves the
hash of the local file. Points, head and manifest now agree, the hash is the
file's, and every later refresh skips the file although a chunk of it is
missing. The others take five events: a peer's rule that arrives between two
batches splits a replacement over two projects, of which it stamps and prunes
only the first; a deletion of the file then clears one of them, and what is in
the other passes for the file when that comes back. A move that stops between
its copies splits a source in the same way, and a user's deletion takes a chunk
from a mixture.

`PurgedStaysGone` and `WholeVersion` were also checked with four events, for
files without purges and for inline sources.

### Proof

`SourcesProofs` proves the types, `PurgedStaysGone`, `WholeVersion` and
`OwnSkipMeansCurrent` for any projects, versions, chunks and events, for files
and inline sources, and for versions that are cut alike.
`SourcesAssumption` says that every version has a chunk and that `None` is not
a version.

`PurgeInv` is why a purge is complete: while the source is excluded the purge's
lists cover all that is stored and all heads, since a write asks `write_guard`
in the step in which it happens, and jobs exclude each other. `PurgedInv`: it
counts as completed only while excluded. For `WholeVersion` the invariant says,
as long as some version is whole, that a writer's stored chunks are still
somewhere (`ProgressInv`, `WriterInv`), so that pruning leaves the new version
whole, and that a move deletes only points that are in the target (`MoveInv`).

`OwnSkipMeansCurrent` was first stated without the last two exceptions and held on
its run; the attempt to prove it led to the traces of five events and to the edit
of whitespace. A refresh that skips has found one hash, the file's, on all
points, on a project's points the version of its head, and a head's chunks
stored. `HashInv` says that a point's hash is of a version its chunk belongs to,
so nothing stored is foreign to the file. Nothing is missing when the head is the
file's. When it is not, the points have the hash of one version and the spans of
another, and `TornInv` says of such a point that every chunk of the version of
its hash is in the same project, or in those a move under way takes it from and
to. It is made when a replacement has stored all its chunks and writes their hash
(`StampedInv`: what it has stored is in its project, then hashed and local, then
aligned, then all there is, since `LockInv` keeps the jobs away); moves and purges keep it
because they take everything they found and have found everything
(`GatheredInv`), so that no part stays behind; a replacement that publishes
after a disturbance leaves no such point (`PublishEnds`).

### Abstractions

Several sources share only the stores; one shows every race of one. The purge
is by source key; by path it enumerates more than once. Which of two snapshot
heads is newer is decided by clocks of two devices, and may go either way.
`unchanged` also compares the formats of extraction and chunking and the path's
spelling, each of which can only cause another reading; whether the path is one
of this device, by which a refresh also decides what to prune, is in the model.
Where a peer's head is placed (`source_snapshots.py:436`) and its publication
(`117`) are one step. The paged scrolls of one enumeration are one step. One
writer replaces the source at a time; a server that stores inline content twice
at once would prune each version's chunks by the other's. `--force`, redaction,
tags, and files without text are left out. Not repaired by a later refresh, and
not promised: the head left behind when `delete_by_source` stops between its two
stores (no refresh lists a source without chunks), and a URL whose ingestion
stopped halfway (`cli_ingest_url.py:119-129` believes the ETag on its first
point). A move saves its rules first, so that "a write that lands while points
are rewritten is already placed in the target" (`projects.py:317`); but a write
that was placed before the rules were saved lands in the old project after the
scan (`Receive`, `SaveRules`, `ScanStale`, `ImportPoints`) and stays there until
rules are applied to it again. The exclusion of a purge is asked again at the
write; the rules are not.

## 11. Voice conversation

### State and actions

Everything here runs on one event loop, so an action is what a task does from
one await to the next. `conversation` is `sessions.conversation`; `conv` the
conversations with their queue, current question, holder (`socket`), and the
positions of the `runner` and of the reply (`answer`). `turn` is each question's
state, its flag and how far its transcription is; `window` what the handler of a
websocket does (a connection is a window of its own); `worker` the process, and
`speech` the holder of `sessions.speech` with its request. `cut` says that the
worker was stopped under a request, which then fails.

| Code | Actions |
|---|---|
| `stream`: connect, boot, attach | `Connect` (`Resumes`, `StartsAnother`), `Launch`, `Attach` |
| `stream`: its messages | `Ask`, `TakeIn`, `Stop`, `EndFrom` |
| `stream`: `finally`; a failed `send` | `Leave`; `SendFails` |
| `conversation_end`, `current` | `EndFromOutside`, `Forget` |
| `run` | `RunnerStarts`, `Sent`, `Answered`, `Switched`, `Released` (`Advance`, `LetGo`) |
| `answer`, `speak`, `chat_events` | `Begin`, `Think`, `Want`, `Spoken`, `Saved`, `Fails` |
| `listen`, `decide` | `Listens`, `HearsQuestion`, `HearsNoise`, `HearsStop`, `HearingFails`, `HearingBreaks` |
| `Worker` | `Loads`, `HolderLaunches`, `HolderStreams`, `StopWorker` |
| `cancel`, `end` | `TurnsAfter`, `ConvAfter`, `End`, `Abandon` |

### Properties and runs

- `echo`: two visits, two questions, typed or spoken, one of which may wait; a
  chat in the same conversation or the small voice model in another; one stop or
  end; one failure or lost send.
  - `QuestionsSettle`: whatever windows come and go, a question is answered,
    stopped, ignored or failed, or its conversation ends. It depends on the
    loop in `run` that looks at the queue again after the worker was let go, and
    on every canceller freeing the lock it holds.
  - `WorkerIsReleased`: when the last window is gone and the last question
    settled, the worker is stopped, by whichever of handler and runner is last.
  - `LeavingCutsNothing`: a handler that ends stops the worker under nobody's
    question, be it attached, busy with a message or about to connect. Handlers
    that learn late that their window is gone run their `finally` while others
    connect and ask. Excepted is a handler that ends while it waits for a worker
    that it launched (see below).
  - `NobodyIsLockedOut`: the window that holds the conversation, which keeps all
    others out, has a handler that will let it go.

### Proof

`EchoProofs` proves both safety properties for any number of windows, questions,
conversations, stops and failures. `NobodyIsLockedOut` is nearly inductive. What
is missing is `AliveInv`: `sessions.conversation` is never one that ended. The
handler of a window leaves an ended conversation alone, socket and all, so a
window that held one and went away would keep everybody out. `Shape` keeps the
fields, sockets and windows in their types. Steps of the runner, of replies and
of transcriptions keep who holds what (`Kept`), and one lemma serves them all;
connecting, attaching, leaving, failed sends and ends have a lemma each.

`LeavingCutsNothing` needs to know where a question is that still waits for an
answer. The handler looks at two things when it ends: that its conversation did
not end, and that it is idle. Neither names the question the worker is used for.
`OwingInv` connects them. An unsettled question is queued by its conversation
or is its current one (`OwedInv`), unless that ended. Only
`sessions.conversation` has any to answer, and a handler has that one or one that
ended (`OneInv`). So if the question that is transcribed or answered is
unsettled, its conversation is the handler's, and busy. The rest says what keeps
this so. `StageInv`: the runner has a current question exactly while it announces
it or waits for its reply. `HoldInv`: a reply has the lock only while it speaks,
so that the conversation it belongs to has a current question. `PlaceInv`: what a
conversation has to answer was asked of it, and of nobody else; what is queued was
not stopped, and is not the current question. `FlagInv`: what was stopped is
settled. `HearInv` and `FreshInv`: what is transcribed was asked of some
conversation, and one that is about to be started owes nothing. Most steps only
settle questions of one conversation (`SettlesOf`), and one lemma (`SettlesInv`)
serves them; stops and the end of a conversation, a new question, the next
question taken, and a conversation that replaces another have their own.

### What the code does not provide for

Three things are marked by `astray` and excepted from `WorkerIsReleased`. TLC
finds each when its exception is taken out, in 11 to 31 steps.

- A handler that ends late, after a failed send, ends a conversation without
  questions (`voice_api.py:1163`) although another window is connecting to it;
  and a conversation may be ended, from outside or by a window that wants
  another, while a handler still has it. That handler goes on asking an ended
  conversation, whose runner returns at once, and does not stop the worker
  (`1160`).
- A question that arrives while the runner lets the worker go starts another
  worker; if the question is then settled and its window gone, the runner's
  last look has been.
- `intake` awaits the message `queued` (`727`) before it starts the
  transcription. If the runner takes the question during that await, it finds
  no transcription to wait for and answers the empty question, although by the
  docstring noise and "stop" "are known before its turn" (`718`). The
  transcription that starts afterwards may take the worker when everybody else
  has gone.

A handler that ends while it connects is excepted from `LeavingCutsNothing`.
Its `finally` cancels the boot (`voice_api.py:1103-1107`), and a cancelled
`start` stops the worker (`117-119`), which all share. Between the worker's
readiness and the handler's next look at it, a transcription or a reply of the
small voice model may have begun to use it, since `start` returns at once when
the process runs (`79`); that request fails, although by ADR 0145 closing a
window "only detaches" the conversation and "only the user's explicit stop
cancels" a request. TLC finds it in 12 steps when the exception is taken out: a
window that asked is gone and its worker stopped, another window launches one,
the transcription of the waiting question takes it, and the second window closes.

Two more are in the model and violate none of its properties. Stopping one
waiting question by its id also stops the worker (`848`), so that the reply being
read aloud fails; `cancel` says "or just the turn named". And a stop during the
await of `start` (`809`) finds no task to cancel: the reply begins with its flag
set, `chat_events` publishes no end (`372-389`), and the runner waits for the
timeout of two minutes, after which a question that was cancelled counts as
failed.

### Abstractions

A cancelled task ends at its next step; since whoever cancels awaits it, this is
one step, and a task that held the lock or was starting the worker frees the one
and stops the other. The worker is gone when it is let go; the wait for its
process is a step of its own only in `run`, where a question may come meanwhile.
Whether a connecting handler finds a worker is decided when it connects, before
it sends `connecting` (`1091`), not after. Timeouts are failures. Questions are
numbered as they are asked, so that a queue
is the set of those that wait, of which the runner takes the first. What is left
of a settled question or an ended conversation is reset to what is still read.
Left out: replays of an answer, the goodbye of the wake word, playback credit,
provisioning of a chat model, lease tokens, and what is saved in Chat history.

## 12. Fairness

Assumed, and why:

- A process that runs takes its next step (`Acquire`, `ClearStale`, `Child*`,
  `Step`, `Follow`, `Session`, `TaggerStep`, `SessionStep`): operating system,
  goroutine scheduler and event loop schedule everyone.
- Clocks advance and the kernel delivers signals (`Tick` of the lock, `Die`,
  `ChildKilled`).
- A job other than background tagging ends (`Release`, `ChildEnds` outside the
  background, `TerminalEnds`, `JobEnds`). Commands work through a finite input.
- A background run sees between two memories that a job waits
  (`BackgroundYields`); it need never end by itself.
- A server that crashed is started again (`RecoverOnStartup`).
- Both devices of a pair stay on and reach the relay: watchers tick and start
  attempts, and two that wait in the same room meet (`Start`, `Tick`, `Join`).
- In `Sources` a person runs the refresh again and again. Nothing in the code
  does so, and `Repaired` says what the next undisturbed refreshes achieve: it
  needs two, for what one finds may have changed before it ends. Replacements,
  purges, moves, imports and deletions that were started go on (`Replace`,
  `Purging`, `Moving`, `Importing`, `DeletePoint`).
- In `Echo` the event loop runs the runner, the reply, the transcriptions and
  the handler of a question that came in (`RunnerStep`, `AnswerStep`,
  `ListenStep`, `TakeIn`), and a worker that was started answers or ends
  (`WorkerStep`; the requests have timeouts). Windows need not go away.
- In `Tagging` the LLM answers, and the dispatcher starts the background job
  again while memories wait.

Only weak fairness is used. Nobody need submit, cancel, open a stream, end a
turn, connect, send, write, pair or delete, and nothing bad need happen.

## 13. Bounds

`MaxCrashes`, `MaxUpsets`, `MaxJobs`, `MaxEvents` cap what comes from outside,
`MaxRows`, `Turns`, `MaxLines`, `MaxConns`, `MaxFrames`, `MaxVersion`, `MaxTurns`,
`MaxConversations`, `MaxVisits`, `Sentences` the data;
each is a guard that carries its name. `MaxEvents` is one budget for all kinds
of events, so every pair of kinds occurs in every order; with two, a session
can be disturbed and its repair disturbed again. `SameStampSameTags` was also
checked with three. `Sources` has three: what is there (an ingest or a peer's
copy), what disturbs it, and what disturbs that. `Echo` has one
question that is answered and one that waits, a window that holds the
conversation and one that comes to it, one stop or end, and one failure or lost
send, each in every order. All runs switch off the
deadlock check: in a bounded world every process may have ended, and the
specifications then stop for good.

## 14. What is proved and what is only checked

Proved for all values of the constants: every safety and action property of
sections 3 to 8, with the three refinements (`OnlyPreemptibleSignalled` for Go takers
only, which is where it holds), the three of section
10 and the two of section 11. `CancelledJobIsStopped`
and `EveryStreamEnds` of sections 4 and 5 are no theorems: the code violates
them.

Checked on small instances only:

- all liveness properties: fairness and `ENABLED` are out of the provers' reach;
- `Tagging.SameStampSameTags`. It rests on how far the devices' clocks are
  apart: a stamp comes from a clock or moves past another stamp, and that the
  two never meet for different classifications needs a bound on both, which
  nothing in the code guarantees. The run shows it for one pair of clocks, and
  a theorem would have to assume what makes it true.

Out of the provers' reach are also results of recursive definitions for all
inputs; no module here uses recursion.

The type invariants (`TypeOK`) are listed by `lock` and `relay` only, since
elsewhere they say nothing beyond the types. They are proved for all modules but
`Tagging` and `Echo`, where they hold on the instances of their runs.

Every property is also run against a broken variant of the model: the slips
the modules name, at their head or beside the definition (a dropped guard, a lock
not taken, a marker forgotten), one of which each property must detect.

## 15. Abstractions and omissions

- Unix semantics of `flock`, signals and `unlink`; the Windows lock and
  `TerminateProcess` are not modelled.
- A process stands for its PID; PIDs are not reused.
- A job's process group is one process. SIGTERM and the SIGKILL three seconds
  later are one step that may come at any time.
- In `JobQueue` and `SessionLearn` the queue lock is taken and given up in one
  step. The takeover of a preemptible holder is `signalled` and `ChildKilled`.
- Browser captures, which never merge, behave as a command nobody else asks for.
- The 30 s poll, the 30 min pause after a failure and the backlog's size decide
  when background work starts; here it may start at any time when nothing else
  forbids it, unless a cancel holds it back.
- Rows come in the order of `created_at`: the wall clock is not set back between
  two submissions. Rows are not pruned; a client that disconnects from its stream is not shown; a
  log file that cannot be read is not shown.
- What a learner stores is the set of turns in the transcript it reads.
- `Relay`: the write timeout of five minutes and the read limit are a closed
  connection; held bytes are counted in frames; a room may expire at any time.
- `SyncPairs`: a manifest is read and a chunk stored in one step; the key
  exchange is part of `Join`, with its timeouts in `Fails`; one workspace per
  peer; policies that refuse, a workspace that is gone and changed identities
  end an attempt like `Fails`. Versions of memories, facts and sources differ
  only in how high they go.
- `Tagging`: what `SyncPairs` shows of sessions is not repeated: a session
  starts while manifests differ, p sends first, and the import a lost session
  leaves ends before the next begins (`_store` stops it after its chunk).
  Chunks hold one memory. A classification takes longer than the millisecond
  a stamp is moved by (`Stride`). Only the c side runs storing commands.
  Failures of the LLM, placement and redaction of received records are left
  out; pages have no order.

### Not modelled

- *One-time sync* (PIN, approval, resumable download): one user acts on each
  side and repeats the session when it fails; its transfer is the one of an
  older peer in `SyncPairs`. Cryptography is a matter of who has the key.
- *Runtime lock*: the same flock as the queue's without metadata or takeover.
- *Validity of facts, reconstruction of snapshots, core memories*: SQL
  statements in one transaction each; sync sees them as records with a version,
  as `SyncPairs` has them.
- *Extraction and chunking, Organize's passes, redaction, models*: they
  transform text and vectors in sequence, in one process that has the queue
  lock; what makes them right is data that TLC cannot enumerate.
- *Chat* (`chat.py`, `chat_replies.py`, `chat_store.py`): replies that run on
  their own thread and are watched by requests; the next candidate.
- *HTTP and MCP handlers, wake word and recordings, browser extension, user
  interfaces, the Go CLI's setup and hooks, installers, benchmark*: requests,
  devices and files handled one at a time, with no promise across processes
  beyond those above. This is the larger part of the repository by lines.

### Known and without a property

The models contain these, and no document promises otherwise, so nothing is
claimed about them: a cancel that read a PID before the job ended relabels a
done row as cancelled (`queue.py:398`); a crash between the start of a process
and the record of its PID leaves a row marked failed whose process runs
(`queue.py:847`); the device that asks for a pairing saves before it
acknowledges, so a lost acknowledgement leaves one side paired
(`sync_pairs.py:131`, which accepts it). Outside the models: a resume of
background work while `_run_background_if_due` awaits the backlog's size is
overwritten (`queue.py:706`). The others are among the hazards of
`PROJECT.json`, each with the reason.
