# A verification model of the HifiMule daemon

HifiMule keeps portable players (USB mass storage, MTP) in step with music and
audiobook servers, and plays from the same servers. One background process, the
**daemon** (`src/hifimule-daemon`), owns the devices, the sync operations, the
playback session and a JSON-RPC server; a tray icon and a Tauri **UI**
(`src/hifimule-ui`) drive it; `src/hifimule-lifecycle` holds the file protocol by
which UI, daemon and installer start, stop and replace each other.

The modules in this directory are translated from that source. `PROJECT.json` maps
every definition to the lines it stands for, lists the runs, the mutants that show
that each property can fail, the hazards, the findings and the theorems.

Paths below are relative to `src/hifimule-daemon/src/` unless they begin with `src/`.

## 1. The system

| Component | Code | State | Operations | Hard behaviour | What makes it correct |
|---|---|---|---|---|---|
| Admission and drain | `sync.rs` 700-980 | atomics `admission_closed`, `pipeline_active`, `pipeline_cancelled`, `shutdown_committed`, `active_mutations`; the pending plan | `try_start_pipeline`, `PipelineGuard::drop`, `try_admit_mutation`, `request_pipeline_cancel`, fence begin / fail / commit, drain | six atomics without a common lock, read and written by every RPC task, the tray and the core task | one pipeline; the drain returns only when admitted work has ended; no plan survives a cancel or a Quit |
| Operation ledger | `sync.rs` 980-1330, `rpc.rs` 8330-8700, `main.rs` 495-760 | `operations`, `cancel_tokens`, `finalization_gate` | create, update, cancel, fail on removal, finalize | update from an old clone, outcome against cancel, removal and Quit, a request that is dropped | outcomes are final; an accepted cancel wins; no Running record without device or worker; dirty flag agrees with the outcome |
| Quit protocol | `main.rs` 1085-1300, `sync.rs` 820-960, `rpc.rs`, `playback/session.rs` | tracker, lifecycle state, tray flags, channels, launch generation | request, retry, write of the fence, commit, session checkpoint, drain, exit | two threads and a task, a write that may fail, a save that may be lost, a deadline | one write at a time; commit only behind the fence; a failed quit reopens; exit only when saved and drained |
| Lifecycle files | `src/hifimule-lifecycle/src/lib.rs` | owner lock, tickets, generation, handoff records | acquire, publish, validate, consume, prune, advance, hand off | processes that race and die between two file operations | one daemon, which can be found; a ticket that was cancelled or is of an old generation starts nothing |
| Sync transfer | `sync.rs` 2600-5200 | staging budget, semaphore, channel, per-file tasks, staging directory | download, grow, rewrite tags, encode, enqueue, write, retry | many tasks sharing one byte budget, growth that could wait in a circle, errors on every step | budget equals permits; disk within budget; ends; no file is lost silently |
| Manifest checkpoints | `device/checkpoint.rs` | buffered changes, timer, failure latch | stage, flush, finish | timer against stage and clean commit; crash between device write and flush | a clean manifest is never evidence of something unfinished |
| Device manager, observers | `device/mod.rs` | connected devices, observation tokens, manifest in memory, selection | probe, detect, remove, update, commit, clear, observers | stale probes, publication that may or may not have happened | memory and device agree or the device is known to be dirty |
| Manifest codec, device I/O, MTP | `device/manifest_codec.rs`, `device_io.rs`, `device/mtp.rs` | none of their own | encode, atomic write, delete, list | platform calls | write is atomic or reports how far it came |
| Sync plan and delta | `sync_plan.rs`, `sync.rs` | none | compute adds, deletes, identity changes | pure | every wanted file is there after the plan, none is deleted and wanted |
| Playback session owner | `playback/session.rs`, `playback/persistence.rs` | queue, cursor, position, status, the kept plan of a transition that could not be written; rows of the session | commands, audio events, samples, commits, checkpoints, adoption of gapless successors | late events of another rendering, repeated commands, failed writes, the fence of a shutdown from another thread | cursor and position are earned and committed; what is audible is recorded; nothing is written behind the last save |
| Live reports | `playback/reporting.rs`, `playback/session.rs` 2169-2304 | evidence, the journal `playback_live_reports`, a channel of status samples | record, claim, verify, submit, settle, defer, recover, apply status | a request that is late, an answer or a write that is lost, a crash between claim and settle | a listen is submitted once; the status of a row is true; the queue drains |
| Feedback | `playback/feedback.rs`, `playback/session/feedback.rs`, `rpc/playback_feedback.rs` | the journal `playback_feedback`, dispositions of occurrences | accept, claim, verify, send, read back, settle, read and reconcile | the same, and writes of one track in an order that the server may change | nothing is sent twice or overtakes what is uncertain; a known view is current |
| Audio engine | `playback/audio.rs`, `decoder.rs`, `output.rs`, `devices/` | ring buffers, devices | decode, hand off, resample | real-time callbacks | - |
| Book progress | `playback/book_progress.rs`, `playback/session.rs`, `playback/persistence.rs` | rows that bind a part to its book, the last report sent | observe, resolve, decide, recheck, write | commands between the awaits of the reporter, lost answers, boundaries of parts | only heard places are reported, and the last one is |
| Radio, selection, exports | `playback/*.rs` | small maps | ranking, requests | - | - |
| Streaming sources | `playback/http_source.rs`, `streaming.rs` | buffer window | range requests, retry | cancel and retry | - |
| Protection policy | `sync/protection.rs` | samples, decisions | observe, decide | thresholds | releases as well as protects |
| Auto-fill, scrobbler, Rockbox database, artwork | `auto_fill/`, `scrobbler.rs`, `rockbox.rs`, `sync/artwork.rs` | cursors, device logs | select, submit, write | repeats after a failure | a play is submitted once |
| RPC server | `rpc.rs` | per-request tasks | handlers | a dropped request aborts its task | no half-done handler leaves state behind |
| Servers, vault, providers, database, transcoding, scans, i18n, UI | the other files | connections, credentials, tables | I/O | - | - |

### How they interact

* An RPC request runs as a task that is aborted if the client goes away
  (`rpc.rs:577`). `sync_execute` takes the pipeline guard (*Admission*), creates an
  operation (*ledger*) and detaches the transfer, which then belongs to no request.
* The transfer (*Sync transfer*) downloads into staging files under a byte budget
  and hands complete files to one writer, which writes them to the device and
  stages them in the manifest (*checkpoints*), which publishes through the *device
  manager*. The end of the transfer goes through the finalization gate of the ledger.
* The device event loop (`main.rs:495`) feeds detections and removals into the
  device manager and the ledger.
* Quit closes admission, writes the launch fence (*Lifecycle*), commits, sweeps the
  tokens of the ledger, saves the playback session and waits for the drain.
* The session owner runs on a thread of its own. Clients and the audio worker reach it
  through a mailbox and event slots, the shutdown through a fence it shares with the
  audio callback. It freezes the evidence of a listen when an occurrence ends; the
  reporter, a task, delivers it.
* The UI and every process that is started look for a daemon through the files of
  *Lifecycle* before there is any connection.

## 2. Structure

| Modules | Question | Answered by |
|---|---|---|
| `ShutdownFence`, `Admission`, `AdmissionProofs` | Do the atomics implement the promise of a fence? | TLC, proved |
| `Operations`, `OperationsProofs` | Can an operation get a wrong, a second or no outcome? | TLC, safety proved |
| `QuitProtocol`, `QuitProofs` | Does Quit end, and only in a clean exit? | TLC, safety proved |
| `SyncStaging`, `OperationsProofs` | Is the staging budget exact and free of circular waits, and every file accounted for? | TLC, safety proved |
| `ManifestCheckpoint`, `CheckpointProofs` | Can a crash, an unplug or a failed write leave clean evidence of an unfinished sync, or an old manifest over a newer one? | TLC, proved unless `LateEvents` |
| `LiveReports`, `ReportsProofs` | Is a listen lost or submitted twice? | TLC, safety proved |
| `PlaybackFeedback`, `FeedbackProofs` | Is a like undone by an earlier dislike that was late, does a client see an old value as known? | TLC, safety proved |
| `PlaybackOwner`, `OwnerProofs` | Do late events, failed writes and repetitions move the cursor wrongly? | TLC, proved, the cursor unless `LateTurns` |
| `ManifestStore`, `CheckpointProofs` | Is a manifest readable, and honest, after any crash or loss of power? | TLC, proved |
| `BookContinuity`, `ReportsProofs` | Is a server told only the places of a book that were heard, and is an end, or a stop of what was being heard, reported? | TLC, safety proved |
| `DaemonLaunch`, `LaunchProofs` | Do tickets, lock, generation and descriptor admit one daemon, and is it found? | TLC, safety proved |

Composition: `Admission` has `Fence == INSTANCE ShutdownFence`, the refinement that
`ImplementsFence` checks and `AdmissionImplementsFence` proves. `Operations` takes
from `Admission` that one run holds the pipeline; `QuitProtocol` takes from both
that admitted work is a number that goes to zero; `SyncStaging` is the inside of the
step `FinishTransfer` of `Operations`; `ManifestCheckpoint` is the inside of the
writes that `Operations` takes as one step (`MarkDirty`, `CommitManifest`); `PlaybackOwner`
is the owner of which `QuitProtocol` sees the answer to the final save, and
`QuitProtocol` the inside of the Quit of `DaemonLaunch`; `LiveReports` starts where
`PlaybackOwner` ends an occurrence. `ManifestStore` is the inside of the publication that
`ManifestCheckpoint` takes as one step with three ends; `BookContinuity` has of the owner
what matters to a book, adds seeking and the restart of a part, and composes it with a
reporter of its own. The
state that two modules share is small (a flag, a token, a count), so each is checked
against every behaviour of the other by leaving the shared part free.

Conventions: one action per handler, or per atomic access where handlers interleave
inside; definitions with a comment that begins with "Slip:" are not part of any
next-state relation. Each is the form that its neighbour would have after a
plausible mistake, and `PROJECT.json` "mutants" says which property notices it.

## 3. Modules

### ShutdownFence
The promise of Quit without its mechanism: work starts only while the fence is open, a
failed write reopens it, after the commit nothing starts, and the teardown begins
only when the last work has ended.

### Admission (`sync.rs` 700-980)
One action per atomic access. A pipeline goes through `LoadAdmission`,
`ClaimPipeline` (compare-exchange), `RecheckAdmission`, `LoadCommitted` and
`StoreCancelled` (the argument of `pipeline_cancelled.store` is a load of its own),
then publishes, abandons or executes a plan and drops its guard. A mutation goes
through load, `fetch_add`, recheck, and `fetch_sub`. `request_pipeline_cancel` is
load, store, take; the shutdown path is fence, first store, second store, release of
the plan, and a drain that loads the two words one after the other.

The atomics are accessed with `Acquire`, `Release` and `AcqRel`, so an interleaving of accesses on
the latest values is not enough. A store and an exchange act on the latest value; it overwrites
one that stays in `stale`, and a load may return any of those (`Loads`) until the store has become
visible (`Settle`) or a lock shows it (`CommittedUnderLock`, `TakePlan`; `StoreCancelled` for the
run itself). This allows a little more than the machine: a task may see a new value and then the
old one again. `overtaken` keeps the order of two stores of the flag of cancellation apart. Two
pairs of accesses are what the promise of the drain rests on: a worker writes `pipeline_active` or
`active_mutations` and then loads `admission_closed`, and Quit writes `admission_closed`, takes a
lock and then loads the other two. `Acquire` and `Release` do not keep a load behind an earlier
store to another atomic, so both sides may miss each other. `ordered` says whether the build does
(`LoadsBehind`): on x86-64 the exchange, the addition and the lock in between are full barriers.
It is a choice of the initial state, both are checked, and what is promised only when it is TRUE
says so (`DrainMeansQuiescent`, `ImplementsFence`); what happens when it is FALSE is a finding
(section 6). The other modules take such flags at their latest value. `cancelTarget` and
`cancelled` are history: which run a cancel met.

### Operations (`sync.rs` 980-1330, `rpc.rs` 8330-8700, `main.rs` 495-760, `device/mod.rs`)
The record of each operation (`status`, `target`, `errors`), its `token`, the
`gate`, the devices with their observation tokens, the dirty flag, and the tasks:
the run (an attached request until it is detached), the removal handler with its
list of victims, cancels, the repair `manifest_clear_dirty`, and `commit_shutdown`.
`UpdateOperation` writes a clone taken earlier (`SnapshotOperation`), as the progress
updates do. `AbortRequest` is the drop of the HTTP request. The clean
manifest is written (`CommitManifest`) between the decision and the publication of the
outcome, with the gate held; a write that fails turns the outcome into failed.

### QuitProtocol (`main.rs` 1085-1300, `sync.rs` 820-960, `src/hifimule-lifecycle/src/lib.rs` 1180-1230)
Three loops that talk through flags, a channel and replies. A write of the
launch generation is a thread that succeeds or fails; a failure reopens admission and
lets a retry begin. After the commit the core task joins the checkpoint of the
playback session and the drain, reports a delay after the deadline, and takes
retries of a failed checkpoint; the owner may answer, fail, or be gone.

### SyncStaging (`sync.rs` 2600-3200 and 3900-5200)
Every file goes through `planned`, `counting` (semaphore), `acquiring`
(`StagedByteLimiter::acquire`), `streaming`, `growing` (`reserve_additional`),
`tagging`, `encoding`, `shrinking`, `completing` (`mark_complete`), `sending`,
`queued`, `writing`, `closed`. `waiting` are the growth futures that are registered
as waiters; one that is granted or refused is counted until it runs again and drops
its `StagingGrowthWaiter` (stages `granted`, `refused`), because the code does so.
Retries of a stream and of a device write, the barrier in front of automatic
selections, and every break on cancellation are actions. The abstraction: sizes
are numbers from 0 to 2 or 3, a stream may end after any chunk, the encoder's
output may have any size that its headroom lets it write, and protection delays are
not visible because they are only delays.
`StagingAssumption` states what the plan is by the time it is transferred: an item is in one
place of one plan, and the cursor of a server hands out its items with the chosen ones first
(`ORDER BY priority, seq`, `sync_plan.rs:147`).

### ManifestCheckpoint (`device/checkpoint.rs`, `device/mod.rs` 740-915, 1246-1440, 1960-2340, 3386-3700, `rpc.rs` 8440-8600)
A manifest exists three times: on the device (`disk`), in the copy that the daemon
works on (`conn.manifest`), and in an event of the observer that waits for the event
loop (`events`). `disk` is the one that is read back after a reconnection: the file of
a mass-storage device, the local cache of an MTP device. An arrival has a number, the
observation token; a handle that was opened for an arrival works (`Reaches`) until an
MTP device is unplugged, and again after a mass-storage device returns to its path.

`update` and `checkpoint` are the two kinds of publication, both under the commit lock
(`lock`): `update_manifest_checked_result` changes the copy first and rolls it back
if it fails, `SyncManifestSession::flush` publishes the copy as it is. Each takes two
steps, so that an unplug, a replug, an observation or a crash falls into it, and ends
in what the code distinguishes: published, refused, or uncertain (`ManifestPublicationUncertain`,
`ManifestLegacyCleanupFailed`, `ManifestCacheCommitUncertain`). `run` goes through plan,
mark, session, tracks (`WriteTrack`, `DeleteTrack`, each followed by `Stage`),
`StopTimer`, the last checkpoint and the clean commit; `buffered` and
`timer` are the state of its session. The user saves baskets, plainly and with the
compare of an export, and clears the dirty flag (`CompareFiles`, `ClearDirty`).

Left out: pending ids, the markers of an interrupted MTP write, and the
reconciliation of server ids and profiles at detection (they only add evidence or
rename); files that replace others under the same id; the mirror of the MTP cache on
the device, which nothing reads back while the cache exists; the order of deletes,
which is any order here.

### ManifestStore (`device/mod.rs` 740-1120 and 2059-2340, `device_io.rs` 5-23 and 460-511, `device/checkpoint.rs` 300-316)
`dir` are the two files in which a manifest may be found (the present one, and the JSON
file of older versions), as programs see them; `medium` is for each the set of contents
that a loss of power may leave, which grows with a rename or a deletion and becomes one
element with the sync of the directory (`Durable`). An operation goes through
`WriteTemporary`, `Rename`, `SyncPublished`, `RetireLegacy`, `SyncRetired` and, on an MTP
device, `Mirror`; `FailCall` may end it at every stage, and after the rename an
update then publishes what it had replaced, with the dirty flag of either (`Evidence`).
`Update`, `UpdateBasket` and `Flush` are the three kinds of callers, which differ in what they
leave in memory. `DaemonEnds` keeps the directory, `LosePower` takes any image.
Left out: a directory that cannot be synced (Windows), the first manifest of a device,
the arrival repair that clears the flag, tracks and folders, encoding.

### BookContinuity (`playback/book_progress.rs`, `playback/session.rs` 4400-5100 and 5369-5815, `playback/persistence.rs` 1873-2030)
A book is a queue of parts of equal length. `own` is the owner with its part, position, status,
pending seek (`seek`, and `plays`, what to do after it) and whether an attempt is open; `closed`
is the outcome of the last closed attempt of each part, `row` the binding of the part to the book
with the mark of a stop (`flush`). The actions are the handlers: starts of a book at the place of
the server (`StartBook`), of one part, or without a binding; events of the audio; Pause, Resume,
Seek, Stop, Next, Back to the beginning of the part; the end of the daemon. `run_reporter` goes
through `Observe`, `Load`, `Choose`, `Resolve`, `Decide`, `Recheck`, `Reload`, `Patch` and
`Acknowledge`, with every interleaving of the owner's handlers; the server may not answer, apply a
write and lose its answer, or say that the book is gone. `heard`, `latest`, `earned`, `leftover`,
`stoppedAt` and `doubt` are history; `leftover` says that something was heard while the mark of a
stop was still there, `stoppedAt` is the place where a stop cut off what was heard, whether the
code marked it or not. Left out: Back to an earlier part and its wait for audio, previews, edits
of the queue, the verification of the parts of a book, durations that are not exact, failures of
the database. A start that replaces the book before its stop was reported loses the report; the
repository lists this as open
(`src/_bmad-output/implementation-artifacts/17-6-preserve-audiobookshelf-listening-continuity-safely.md:42`).

### LiveReports (`playback/reporting.rs`, `playback/session.rs` 2169-2240)
The owner hears an occurrence in samples up to the threshold (`StartListening`, `Hear`)
and ends the listening for a reason, which makes the row count or not
(`EndListening`, `RecordLiveReport` with the prune of settled rows and both limits).
`run_reporter` is one loop: `Recover` (what was being sent is ambiguous), `Claim` of the
first due row, `PreflightFails`, `Submit`, `Await` with the four classes of an answer,
`Settle`, `Defer` with the limit of attempts, and `StatusTurn`. A submission stays in
`wire` until the server executes it, which it may do after the reporter's 15 seconds or
never. Every write of the journal may fail; `Restart` may come at any step. Delays are
"due or not yet"; what a provider answers is reduced to what `classify_completion` tells
apart.

### PlaybackFeedback (`playback/feedback.rs`, `playback/session/feedback.rs`, `rpc/playback_feedback.rs`)
`Accept` is the handler of a client's operation: idempotence by the row, the disposition
of the occurrence in a transaction of its own, then the row, in an order per track, with
the prune and both limits. The worker claims what has nothing unresolved and nothing
queued before it, verifies the account, sends, classifies, reads back, settles; in the
transaction that makes a row ambiguous everything queued behind it becomes a conflict
(`SettledJournal`). When a settlement fails the worker repeats the settlement alone. A
client that refreshes takes a watermark, reads the server, reconciles up to the
watermark and publishes, each an action of its own. Late requests and restarts are as
in `LiveReports`.

### PlaybackOwner (`playback/session.rs`, `playback/persistence.rs`, `playback/audio.rs`, `playback/commands.rs`)
A handler of the owner computes a world (its state `own`, the row `disk`, the worker
`player`, whether a preparation starts) from the present one; the operators `Pause`,
`Resume`, `Retry`, `SkipTo`, `Stop`, `Replace`, `Failed`, `Completed`, `Lost`, `Adopt`,
`Commit`, `Checkpoint` are those handlers, in the order of their calls, and each action
takes one whole handler: the owner is one thread, and the command it has received (`held`)
and the event it has taken (`drained`) are variables because the fence can fall between.
`Commit` is the heart: write the end of an occurrence, then show it; if the write fails,
keep the plan and fall silent (`Freeze`). A `gen` names one rendering and `epoch` the
last accepted control. Preparations run in tasks and are checked against both at each
step except the publication of a failure, as in the code. The worker moves, reports
its position (also after it was stopped), completes, presents the next track without a
gap, or fails. `CompletionWaits` says that the end of a rendering waits for the owner, which
drains its slots every 25 ms (`playback/session.rs:1360`); without `LateTurns` the rendering
that follows it in the same generation is not heard to its end meanwhile. Commands carry the
generation and occurrence their client saw and an id;
`Repeat` sends one again. A position is 0 .. `End`. History: `heard`, `skipped`.
Left out: edits of the queue, seeking and Back (but see `BookContinuity`), radio,
previews, the choice of outputs, and what is shown to clients.

### DaemonLaunch (`src/hifimule-lifecycle/src/lib.rs`, `main.rs` 855-978 and 1138-1209, `src/hifimule-ui/src-tauri/src/lib.rs`)
A launch is an attempt of the UI (`coordinate_daemon_at` in a thread, with the epoch, the held
ticket and the closing of `StartupState`) or a process that was started directly. Its process goes
through `run_candidate`: validate, elect (`owner.lock`) or attach to who has it, verify the
generation, validate again, start the core, take the lock of the tickets for the last validation
and the publication of `owner.json` (`TakeFence`, `Publish`), consume the ticket, make the tray.
It ends by Quit, by a failure at any step, or by `Crash`, which releases its locks and leaves its
files. The descriptor is removed before the lock is released (`DropDescriptor`, `DropLock`). The
core is a thread that nobody joins (`core`): after a failure it runs, and answers, until the
process has written the failure and ends (`Report`), and that is after the lock was released
(section 6). A publication that fails once `owner.json` was replaced leaves the file there
(`PublishFails`): the guard does not know its instance yet. The UI looks at the same lock to see
whether there is an owner (`UiElect`, `UiVerify`); this probe is what a candidate may meet instead
of a daemon. A ticket may expire at any moment (`ExpireTicket`) and a UI may time out. Abstracted:
a process is named by its launch, so a port that another program took or an identity that does not
match is a refusal; a ready daemon answers health in time, one on its way out answers no more.
Left out: another protocol version, the handoff of an update, the activation mailbox, the endpoint
of older versions, and the pruning of old tickets.

## 4. Runs

Passing runs explore the whole state space of their instance; between them they take
every action. "Violation" runs show a disagreement between the code and what it says
of itself (section 6). The type invariants of the proved modules, and those safety
properties of section 5 that the table does not have, are theorems and not checked by runs.

| Run | Instance | Properties | Fairness |
|---|---|---|---|
| `Admission` | 2 pipelines, 1 mutation task, 1 canceller, Quit with any number of failed fences, builds that are `ordered` and not; 307,000 states | an acknowledged cancel drops the plan; refinement of `ShutdownFence`; a committed Quit drains | admitted tasks run to their end, the drain polls, stores become visible |
| `Operations` | 2 operations on 1 device with 2 connections; 177,000 states | evidence agrees with outcome; no Running record outlives its device; Quit reaches every operation; a detached operation gets one | detached tasks are polled; the transfer ends although progress updates come between (strong) |
| `Quit` | 3 attempts, 2 retries of the save, 2 pieces of work; 6,400 states | commit behind the fence, one write at a time; a checkpoint the exit waits for is served once or its failure shown; clean exit; every attempt is decided and a committed quit ends | both loops poll, writes and saves return, admitted work ends |
| `Staging` | 2 servers, 3 files: a tagged one, an automatic one that may exceed the budget, an encoded one; 4 bytes, 2 slots, files up to 2 bytes | disk within budget and budget the sum of the permits; manual before automatic; nothing silently lost; the transfer ends | tasks are polled, servers and encoders answer or fail |
| `Checkpoint` | 2 tracks, symmetric, a mass-storage or an MTP device, 2 arrivals in each life of the daemon, 1 save of the basket, any number of syncs, unplugs, replugs and crashes | a clean manifest is true; an acknowledged basket survives; dirty evidence is kept; complete means published | none |
| `LiveReports` | 3 occurrences, one of a server without reports, 3 listens, 2 rows of which 1 may wait, 2 claims, 1 fault | one submission for each listen; the queue drains | the reporter goes on, delays pass |
| `Feedback` | 3 operations with 2 values on 1 track, journal of 2, 1 fault; 2.0 million states | no overtaking; a known view is current; the queue drains | the worker goes on |
| `PlaybackOwner` | a queue of 3, tracks of length 1, 2 commands, 3 renderings, 2 faults; 1.8 million states | position heard; cursor earned; audible has an attempt; nothing after the save | none |
| `Launch` | 2 launches, 2 writes of the generation, 1 crash; 937,000 states | one daemon, discoverable; Quit and cancellation are final; a ready daemon is found | threads and processes take their next step; no deadline, no user |
| `Store` | either kind of device, with or without an old file, 4 publications, 3 faults; 137,000 states | a crash reads a manifest that was asked for; evidence of a sync survives; the copy on the device is not ahead; a failed update keeps evidence | none |
| `Books` | 2 parts of length 2, 2 starts, 3 commands, 1 fault; 1.8 million states | a position was heard; a finish is earned; a stop reports the last place; a start begins where it was left; an end, and a stop of what was heard, is reported | the reporter is polled |
| `StaleProbe` (violation) | as `Checkpoint`, with `LateEvents` | see section 6 | |

Why the bounds are enough. The races of `Admission` are between one task in a window and one that
disturbs it, so two pipelines and one mutation task show all of them; the theorems hold for any
number. Two operations are needed for one to follow another on the same device (a dirty mark of an
older operation), two connections for an old observation; the theorems hold for any number of
devices. Three attempts in `Quit` are a failure, a retry that fails and one that succeeds. In
`Staging`, two slots and three files make a file wait for the semaphore, four bytes and files of
up to two bytes (tagged: twice that while they are copied, encoded: with their output beside them)
make two downloads collide, and three parties meet: one that frees bytes, one that has been told
and one that asks. In `Checkpoint`, one track to add and one to delete make every kind of change,
two arrivals make a session of an old connection meet a new one, and one save is enough to be
overwritten by a checkpoint; lives of the daemon are not bounded. `LateEvents` is FALSE there:
between a probe of the observer and the handling of its event nothing is published. Without that
assumption the first property is false, which is the finding `StaleProbe`. In `LiveReports` two
listens of one occurrence and one of another fill the journal, so that a row is pruned or refused,
and two claims are a deferral and the last attempt; the numbers in the code (256 and 2048 rows, 5
claims) only make the same cases rarer. Three operations of `Feedback` are one that is uncertain,
one that waits behind it and a later one; on a second track nothing would meet them, since order
and views are per track. In `PlaybackOwner` a queue of three has a first, a middle and a last
track; two commands and two faults are, for instance, a Next whose write fails, its repetition and
the Retry; three renderings are the one that is left, the present one and the one that follows.
`LateTurns` is FALSE there: the completion of a rendering is drained before the one that follows
it in the same generation has been heard to its end. The owner drains every 25 ms and a track
lasts longer; with TRUE and three commands `CursorIsEarned` is violated (section 6). `MaxFaults`
counts failed writes, failures of the audio, lost answers and crashes together. In `Store` a
publication, the one it replaces and the one that restores are three versions, a fourth follows an
uncertain one; three faults are a failed call, the failure of its undo, and the loss of power that
shows what is left. In `Books` two parts have one boundary between them, length two has a place
inside, and two starts are a book that is left and found again; `MaxFailures` counts failures of
the audio and of the server. Two launches in `Launch` are the smallest election; a third would be
one more candidate that meets the same files, and the theorems hold for any number.

Fairness. The daemon runs on tokio; a spawned task that is ready is polled, which is weak fairness
of its steps. A store of an atomic becomes visible to a task that loads it again and again
(`Settle`), which the language promises as "in finite time". Nothing is assumed of clients,
devices, servers, or of Quit being requested. The reporters (of listens and of books) and the
feedback worker put a deadline on every await, so weak fairness of their loop is that of a task;
in `Books` the failures of the server are bounded, so it answers in the end; a delay of the
reporter passes. In `Launch` the threads and processes go on, their locks are held for a few file
operations; expiry, deadlines, starts and Quit are choices that may never come, so what is found
is found without them. `ReadyDaemonIsFound` says nothing while no daemon stays ready: a candidate
that meets the probe of a UI thread on the lock, and no daemon, waits until its deadline and
fails, which the code accepts. `PlaybackOwner` states no liveness: what a player should eventually
do depends on the user and the audio device. Three assumptions are about the outside: the write of
the launch fence and the save return (they are local disk writes in threads of their own), and, in
`Staging`, a server or an encoder answers or fails: the transfer has no read timeout of its own,
so with a server that stays silent for ever the code would wait until a cancel, which ends every
wait (`StopProducer`).

## 5. Proofs

Eight modules, `AdmissionProofs`, `OperationsProofs`, `CheckpointProofs`, `QuitProofs`,
`ReportsProofs`, `FeedbackProofs`, `OwnerProofs` and `LaunchProofs`, are checked by TLAPS to the
last leaf. What they assume of the constants is named in the modules and evaluated by TLC in every
run of them: `AdmissionAssumption` (pipelines and mutation tasks are disjoint, tasks are finitely
many, the markers are fresh), `OperationsAssumption` (`NoOp` is not an operation, at least one
connection), `StagingAssumption` (finitely many files, each in one place of one plan, chosen
before automatic ones; see section 3), `CheckpointAssumption` (the kinds of devices, at least one
arrival), `StoreAssumption` (the bounds are numbers), `QuitAssumption` (the bounds are positive),
`ReportsAssumption`, `FeedbackAssumption` (finitely many occurrences, limits are numbers, the two
preferences differ), `BookAssumption` (a book has a part, a part a length), `OwnerAssumption` (a
queue is not empty, a track has a length) and `LaunchAssumption` (`NoLaunch` is no launch). Two
things are hypotheses of theorems and not assumptions: `~LateEvents` and `~LateTurns`. TLC shows a
violation without the first (`StaleProbe`) and without the second (section 4).

Every invariant and every action property that a run checks is a theorem, for every value of the
constants; what is only model-checked is liveness.

**AdmissionInv** adds three facts to the checked properties. `Counted`: `activeMutations` is the
cardinality of the set of tasks between `fetch_add` and `fetch_sub`; without it neither
`activeMutations \in Nat` nor "zero means nobody" is inductive. `OwnerHoldsFlag`: a pipeline past
its compare-exchange implies the flag. `FenceFollowsQuit` and `DrainSawNoPipeline`: in a build
that is `ordered`, between the two loads of the drain no admitted pipeline can appear, because the
gate is closed and a pipeline that claims the flag surrenders it at its recheck;
`FenceFollowsQuit` speaks of the latest value of the gate, which the first load of a task may
miss. From it follow the five safety properties and, with one lemma per actor, the refinement of
`ShutdownFence`. What does not rest on the two pairs (one pipeline, no plan behind a commit, the
acknowledged cancel, the count) is proved of every build. `CancelStands` is added for the
acknowledged cancel (`CancelDropsPlan`): from the load of `request_pipeline_cancel` on, a run that
was running when it was loaded keeps the flag of its cancel until it ends, because only a run that
is still being admitted lowers the flag, and there is one run at a time; and nobody who has the
lock of the plan after the cancel reads an older value.

**OperationsInvariant** adds what each task knows between two steps: `RunOwnsRecord`
(the run's operation exists, is on the run's device, is running while the finalizer
holds the gate), `RunningIsConnectedOrDoomed` (a running operation is on a
connected device or the removal handler still has it ahead), `EarlyIsSeen` (an early
cancel has set the token and a decision that follows has seen it) and `MarkOfRun` (the
device of a run bears its mark, and the flag is what the finalizer is about to
publish). `EvidenceMatchesOutcome` is false in between without the last one.

**StagingInv** (in `OperationsProofs`) has two halves. `BudgetInv` is about bytes: each permit
covers what its file has on the disk and what its next step may add (`FilesFitPermits`), and
`budget.used` is the sum of the permits. A sum over files is stated as the number of their bytes
(`Total`), so that what a step on one file does to it (`TotalWithOne` and the lemmas after it)
follows from the facts about finite sets, and no induction is needed. `DiskWithinBudget` follows
from both. The other half
follows a file through its stages: `AheadIsPlanned`, `PassedAreOnTheirWay` (what a producer has
passed is on its way to the writer, or was given up with a report), `ArrivedAreThrough` (behind
the barrier the chosen files are through), `EndedHaveNoEncodings`, `WriterHasFiles` (a writer
that is done has nothing queued and nobody who may still send) and `ClosedAreReported`. From these
come `ManualBeforeAutoFill` and `NothingSilentlyLost`.

**CopyInvariant** says how the three manifests of `ManifestCheckpoint` agree:
`PublishedFromCopy` (what is being published is the copy in memory, because no
connection and no copy changes while the lock is held), `ProbesAreFresh` (a waiting
probe has read what is on the device), `DirtyIsKnown` and `BasketIsEverywhere` (the
dirty flag and the acknowledged basket are in every manifest that may be published
next: the copy, and the one to which a failed update returns). The two properties are
false in the middle of an update without the last clause. The proof has a lemma for the
beginning and one for the end of an update, which all seven callers share. Its theorems
assume `~LateEvents`, the case that the finding `StaleProbe` shows to be necessary;
`CheckpointTypes` does not.

**RunInvariant** adds the sync. `RunTracks`: while the device of the plan is connected and there
was no error or cancel, what is left to write and to delete, with the track between its write and
its staging, is all that the copy and the files are away from the goal. `RunIsMarked`: from the
end of the first update to the beginning of the last the manifest on the device is dirty; here
`DirtyIsKnown` is needed, because saves and their rollbacks publish in between. `RepairIsAlone`: a
comparison of the files that no sync has disturbed still holds. `UpdateTells` and
`CheckpointTells` say who waits for the publication under way, and `TokensIncrease` that a
connection of a later arrival is never taken for the one of the plan. So the last update finds the
copy equal to the goal and all of it on the device, a clean manifest is true wherever it is (on
the device, in the copy, in what a rollback restores: `CleanIsListed`), and a complete sync is
published (`CompleteSyncsArePublished`, an action property).

**StoreInv** is about `Found`, the manifests that may be read after a loss of power. Each step of a
publication leaves `Found`, adds the new manifest, or makes it the new manifest alone (with
the sync of the directory). `StageTells` says for each stage which of them the medium
certainly has, `WorkIsMarked` that every manifest that may be found while a sync works is dirty, in
memory and in what would be restored, and `MirrorIsOld` that the copy on an MTP device is
no newer than any of those. `FailuresKeepEvidence` is an action property.

**QuitProofs!Inv** says what the channel between tray and core may hold at each stage of
the tray (`CommandsQueued`: a failure and the next begin may be in it together, nothing
else), how far the fence is for each (`FenceFollowsTray`), that admission is closed exactly
while the tracker or the channel say so (`ClosedByTracker`) and who has the checkpoint of
the session (`CheckpointFollowsCore`: a pending one is with the save or with a retry, never both).
All four safety properties of the run follow.

**ReportsProofs!Inv** counts: what was submitted for an occurrence and what is still owed
(a row that waits, or one claimed and not sent) is at most its listens (`ListensCover`).
It holds because the reporter alone changes a row that is being sent (`JobHoldsRow`),
numbers of operations are fresh, and a verdict that gives a row back is reached only
before it was sent (`VerdictIsHonest`).

**BookInv** (in `ReportsProofs`) ties three things: what plays was heard (`PlaysHeard`,
`OutcomesAreHeard`), the mark of a stop keeps a heard place, the last one unless something was
heard since (`MarksAreHeard`), and what the reporter holds was true of the owner at the epoch it
read (`Behind`, `TellsHeard`, `TellsTheMark`); the second look at the owner (`Recheck`) and
the guard in the transaction of the row are where this is used. Proving it corrected the
model: a mark that survives a resume (finding `StopIsFinal`) also survives the activation after
it, so that `StopReportsLatest` as first stated is false, with seven commands, beyond the bound
of the run. It now excepts what `leftover` records.

**FeedbackProofs!Inv** orders the rows of a track: before a row that was ever claimed all
are settled (`OlderAreSettled`), an unresolved one leaves nothing queued
(`UnresolvedStops`), and status moves one way (`Later`). `SeenCovers` then carries a reader's
knowledge from the watermark to its publication: as long as its last row is unchanged,
nothing before it was confirmed that it has not seen.

**OwnerProofs!OwnerInv** is about worlds, because handlers call each other. `Good` says
that the cursor shown is the one on disk, that the gate is open only over an open attempt,
and that a kept plan is of this rendering and silent; each handler has a lemma that it leads
from a good world to a good one of no older generation (`Follows`), composed in the order
of the code, and the actions follow from them. Around the worlds: a repetition in the
mailbox names an executed command, an event carries a generation that was current once,
and after the fence was raised a save has been asked for. `NothingAfterSave` is an action
property proved from the last.

**HeardInv** adds what was heard. `Honest` says of a world that its positions, those of its row,
its slot and its kept plan were heard of their occurrence, and that each
occurrence before the cursor was heard out or skipped by a command. A second lemma for each handler
(`Leads`) says that it leads from an honest world to an honest one and moves the cursor within a
generation only to the track that the pipeline plays already. `CompletionTrue` is what makes the
handler of a completion honest: it compares the generation and no occurrence
(`playback/session.rs:5751`), so the event must be of the track at the cursor. This failed in
one place, which is how the entry on `playback/session.rs:1366` in section 6 was found, and why
the two theorems have
`~LateTurns` as a hypothesis.

**LaunchProofs!LaunchInv** says what each lock protects: a process is between its election
and the end of its drop exactly while it holds `owner.lock` (`Locked`), so nobody else writes
the descriptor or the generation (`Discoverable`, `UnderGeneration`), and no ticket is
cancelled while one holds the lock of the tickets (`Fenced`). A core runs in the owner or in a
process that has failed and is about to say so (`CoreHeld`).

Only model-checked: liveness (`CommittedQuitDrains`, `DetachedOperationEnds`,
`QuitIsAnswered`, `StagingEnds`, `QueueDrains`, `FeedbackDrains`, `ReadyDaemonIsFound`,
`EndIsReported`), which is out of the prover's reach, and what the two hypotheses exclude.
Proved and checked by no
run: `DrainMeansQuiescent` and `NoPlanAfterCommit`, which the refinement checked by `Admission`
contains; `CancellationOwnsOutcome` and `TerminalIsFinal` of `Operations`, `FailedQuitReopens`,
`StatusIsHonest`, `JournalIsHonest` and `CursorIsCommitted`.

## 6. Findings

`StaleProbe` has a run of its own (`rpc.rs:8458`): the observer's copy of the manifest may be
older than what a sync on the previous connection has written when the event loop
installs it; the next save publishes it, and the mark of the interrupted sync is gone.

The following are violated properties that the modules keep at their end. To see one, add
it to the configuration named. Documents are in
`src/_bmad-output/implementation-artifacts/`.

* `RunningHasOwner` (`Operations.cfg`; `rpc.rs:8443`): a request dropped between the admission of
  the operation and the spawn of its task leaves a Running record without a worker.
* `DrainedMeansQuiescent` (`Admission.cfg`; `sync.rs:732`): in a build that does not keep the
  second load of the gate behind the exchange before it, a pipeline (or a mutation) that is
  admitted while Quit closes the gate may still read it open, and the drain then still reads that
  nobody is at work: the daemon exits under admitted work. The orders of the code (`Acquire`,
  `Release`, `AcqRel`) allow it, and so do processors with weaker barriers than x86-64;
  sequentially consistent accesses (or fences) on both sides would not. The comment at
  `sync.rs:730`: "Serialize admission with Quit. If Quit closed the gate after our first read,
  surrender the pipeline before any device/provider work begins."
* `NoFabricatedFinish` (`Books.cfg` with one start, four commands, no fault;
  `playback/book_progress.rs:384`): a replay of a finished book that is sought to its end is
  reported as finished once more. The reporter asks for the outcome of the last closed attempt,
  and a seek to the end closes none.
  `17-6-preserve-audiobookshelf-listening-continuity-safely.md:20`: "Skip, stop, retry, seeking to
  the end, and failure must not fabricate completion."
* `StopIsFinal` (the same with five commands; `playback/session.rs:4307`): a resume while a seek
  is pending returns before it clears the mark of an earlier stop. What is heard afterwards is not
  recorded, and a pause and a stop report the place of the first stop. The mark even survives a
  further activation and the end of the daemon. Line 19 of the same document: "Coalesce routine
  updates and flush a final valid position on stop".
* `PlaysInAnAttempt` (three commands; `playback/session.rs:4307`): the same early return lets a part
  that was heard out play again without an attempt; its end cannot be written then.
  `15-15-restart-the-current-track-or-return-to-the-previous-track.md:83`: "replay Resume/Retry
  creates a new attempt when the previous one is terminal".
* `EndIsReportedAnyhow` (`Books.cfg` with one start; `playback/book_progress.rs:398`): after a
  write that was applied and whose answer was lost, a stop at the place that was acknowledged
  before is suppressed as a repetition, in every round.
* `StopIsReported` (`Books.cfg` with one start, no fault; `playback/session.rs:4561`): a stop
  marks its place only if the book is playing or has just been heard out. After a pause, or while
  a seek is pending, nothing is marked, and the reporter sends nothing of a paused or stopped book
  without a mark: what was heard since the last report (up to the 15 seconds of coalescing) is
  never sent. Line 19 of the same document, and line 43, where "Stop can discard the final valid
  position, including short sessions" is ticked off.
* `CoresAreAlone` (`Launch.cfg`; `main.rs:967`): a start that fails once its core is up, because
  the lock of the tickets cannot be had, the ticket was cancelled, a file cannot be written or the
  tray cannot be made, releases `owner.lock` before its process ends and its core with it. Another
  launch is elected meanwhile and starts a second core; a UI that read the descriptor left by such
  a start may bind to the core that is about to end. `docs/architecture-hifimule-lifecycle.md:7`:
  "coordinates exactly one daemon and one UI per app-data profile".

Seen while modelling, without such a property:

* `sync.rs:738`: `pipeline_cancelled.store(shutdown_committed.load())` is two accesses; a
  commit of Quit in between is overwritten, which the comment above it excludes. The
  plan is still not published (`NoPlanAfterCommit`, proved). In the same window a cancel that
  answered true is overwritten, and the cancelled run publishes its plan.
* `device/mod.rs:2948`: `manifest_clear_dirty` compares the files with one copy and clears the
  flag of another, which a sync in progress or a reconnection may have put there
  meanwhile. `CleanManifestIsTrue` excepts this case by its history variable `overridden`; the
  exception ends with the next sync that completes.
* `sync.rs:2791`: a waiter whose bytes are free is counted as blocked until it runs, and
  another download is refused meanwhile.
* `playback/session/feedback.rs:129`: the rejection of an occurrence is written before the row
  that makes its operation idempotent. If the row cannot be written, a repetition
  rejects again what was liked in between; `docs/data-models-hifimule-daemon.md:527`
  says that "Idempotent operation replay cannot reapply an older Dislike after a newer
  Like" (`Accept` in `PlaybackFeedback`).

* `playback/session.rs:2303`: `publish_health` sends a sample after every command and four times a
  second, the reporter applies one in each turn (`playback/reporting.rs:381`) and then the
  present one. The channel fills with old samples, and after a change of track the server
  is told again and again that the old one plays.
* `playback/session.rs:1366`: of the events of a worker that was replaced under the same
  generation, the owner drops those of an older control epoch, but not a completion, and
  `complete_occurrence` (line 5751) compares the generation alone. If a track ends, a Resume starts
  another rendering of it before the owner drains the completion, and this one is heard to its end
  and presents the next track, then the completion ends the next track, of which nothing was heard.
  It takes a drain later than the whole second rendering (`LateTurns`).
* `scrobbler.rs:304`: the passes of two detections of a device may overlap, and submit an entry
  twice that neither has recorded yet.

## 7. Not modelled

* Real-time audio, codecs, tags, image conversion, byte layouts (manifest codec,
  Rockbox): data without protocol state.
* HTTP clients, credentials, SQLite: I/O; what the callers see of them (an answer, a
  failure, a transaction) is a choice or an atomic step.
* MTP: a library call per operation; modelled as the success, the failure or the
  uncertainty that its callers distinguish.
* Computations on data that one task does alone: the delta of a sync, auto-fill, radio
  candidates, the protection policy, the scrobbler's pass over a log.
  Their results are inputs or choices of the modules above.
* In the session owner: edits of the queue, radio, previews, outputs, Back to another track,
  and seeking outside of books (`BookContinuity`). They share its handlers (`Commit`,
  `NewGeneration`) and have no others.
* The handoff of an update and the activation mailbox of the lifecycle files.
* The UI, except how it finds and starts the daemon.
* Vendored audio crates under `src/third_party` and the probes in `src/experiments`.

The greater part of the repository is of these kinds, which is why the mapped lines are
a small share of all.

`PROJECT.json` "components" lists each part with its status, "hazards" every place of
the code where this kind of check pays, those without a property with the reason.

## 8. Running

    tlc -workers 2 -config Admission.cfg MCAdmission
    tlapm AdmissionProofs.tla

The module of each run is in `PROJECT.json`. `Admission`, `Checkpoint`, `Feedback`, `Books` and
`Launch` take about two minutes, `Staging`, `LiveReports` and `PlaybackOwner` about one each, the
others seconds. `OperationsProofs` takes five minutes, `OwnerProofs`, `ReportsProofs` and
`CheckpointProofs` two to three, the other proofs up to one.
