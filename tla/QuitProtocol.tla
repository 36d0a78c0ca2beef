---------------------------- MODULE QuitProtocol ----------------------------
(***************************************************************************)
(* Quit, from the request to the exit of the process (main.rs, sync.rs):   *)
(*   the tray loop, which turns requests into attempts, starts the thread  *)
(*   that advances the launch generation on disk, and exits;               *)
(*   the core loop, which takes commands from a channel, and on            *)
(*   CommitShutdown runs finish_shutdown_with_playback: the checkpoint of  *)
(*   the playback session and the drain of admitted work, side by side;    *)
(*   the RPC handlers daemon.quit, daemon.retryQuit and                    *)
(*   playback.retryCheckpoint.                                             *)
(* Admission and Operations look inside "admitted work"; here it is a      *)
(* number.                                                                 *)
(***************************************************************************)
EXTENDS Naturals, Sequences

CONSTANTS
  MaxAttempts,   \* bound on the attempts at the launch fence
  MaxSaves,      \* bound on the retries of the session checkpoint
  MaxWork        \* bound on the work admitted at once

ASSUME QuitAssumption == {MaxAttempts, MaxSaves, MaxWork} \subseteq Nat \ {0}

VARIABLES
  quitRequested,     \* quit_requested
  retryRequested,    \* quit_retry_requested
  tray,              \* which of quit_reply, fence_reply, shutdown_pending is set
  commands,          \* command_tx .. command_rx
  beginReply,        \* the core has answered BeginShutdown
  writers,           \* threads in advance_launch_generation
  fenceReply,        \* what the last of them has sent
  generation,        \* the launch generation on disk
  stopping,          \* LIFECYCLE_STATE >= 2
  closed,            \* admission_closed
  tracker,           \* ShutdownTracker
  checkpointRetry,   \* checkpoint_retry_requested
  core,              \* where the core loop is
  save,              \* the receiver of the session checkpoint, and what it holds
  saved, drained,    \* the two branches of the join are through
  overdue,           \* SHUTDOWN_DEADLINE_MS has elapsed since the commit
  work,              \* admitted guards
  attempts, saves    \* bounded counters

requestVars == <<quitRequested, retryRequested>>
fenceVars   == <<beginReply, writers, fenceReply, generation, stopping>>
coreVars    == <<core, save, saved, drained, overdue>>
vars == <<requestVars, tray, commands, fenceVars, closed, tracker, checkpointRetry,
          coreVars, work, attempts, saves>>

Phases      == {"none", "fencing", "fenceFailed", "draining", "waiting", "finalizing"}
ErrorCodes  == {"none", "QUIT_PERSISTENCE_FAILED", "PLAYBACK_CHECKPOINT_FAILED",
                "SHUTDOWN_TIMEOUT", "PLAYBACK_OWNER_FAILED"}
Checkpoints == {"notRequired", "pending", "succeeded", "failed"}
NoTracker   == [phase |-> "none", committed |-> FALSE, error |-> "none",
                checkpoint |-> "notRequired", retry |-> FALSE]

QuitTypeOK ==
  /\ quitRequested \in BOOLEAN /\ retryRequested \in BOOLEAN
  /\ tray \in {"running", "fencing", "writing", "quitting", "exited"}
  /\ commands \in Seq({"begin", "fail", "commit"}) /\ Len(commands) <= 2
  /\ beginReply \in BOOLEAN
  /\ writers \in 0..MaxAttempts /\ fenceReply \in {"empty", "ok", "error"}
  /\ generation \in 0..MaxAttempts
  /\ stopping \in BOOLEAN /\ closed \in BOOLEAN
  /\ tracker \in [phase : Phases, committed : BOOLEAN, error : ErrorCodes,
                  checkpoint : Checkpoints, retry : BOOLEAN]
  /\ checkpointRetry \in BOOLEAN
  /\ core \in {"loop", "committing", "finishing", "teardownFailed", "done"}
  /\ save \in {"none", "queued", "ok", "error", "disconnected"}
  /\ saved \in BOOLEAN /\ drained \in BOOLEAN /\ overdue \in BOOLEAN
  /\ work \in 0..MaxWork
  /\ attempts \in 0..MaxAttempts /\ saves \in 0..MaxSaves

QuitInit ==
  /\ quitRequested = FALSE /\ retryRequested = FALSE
  /\ tray = "running"
  /\ commands = <<>>
  /\ beginReply = FALSE /\ writers = 0 /\ fenceReply = "empty" /\ generation = 0
  /\ stopping = FALSE /\ closed = FALSE
  /\ tracker = NoTracker
  /\ checkpointRetry = FALSE
  /\ core = "loop" /\ save = "none"
  /\ saved = FALSE /\ drained = FALSE /\ overdue = FALSE
  /\ work = 0 /\ attempts = 0 /\ saves = 0

----------------------------------------------------------------------------
(* Requests. A stopping daemon answers only health and retryCheckpoint.    *)

Rejecting == stopping \/ tracker.committed

RequestQuit ==
  /\ ~Rejecting
  /\ quitRequested' = TRUE
  /\ UNCHANGED <<retryRequested, tray, commands, fenceVars, closed, tracker,
                 checkpointRetry, coreVars, work, attempts, saves>>

RequestQuitRetry ==
  /\ ~Rejecting
  /\ tracker.phase = "fenceFailed"
  /\ retryRequested' = TRUE
  /\ UNCHANGED <<quitRequested, tray, commands, fenceVars, closed, tracker,
                 checkpointRetry, coreVars, work, attempts, saves>>

\* request_checkpoint_retry: only a failed attempt starts another; a request
\* during an attempt joins it, which changes nothing.
RequestCheckpointRetry ==
  /\ tray # "exited"
  /\ tracker.committed
  /\ tracker.checkpoint = "failed"
  /\ tracker' = [tracker EXCEPT !.checkpoint = "pending", !.retry = TRUE, !.error = "none"]
  /\ checkpointRetry' = TRUE
  /\ saves < MaxSaves
  /\ saves' = saves + 1
  /\ UNCHANGED <<requestVars, tray, commands, fenceVars, closed, coreVars, work, attempts>>

AdmitWork ==
  /\ ~closed
  /\ work < MaxWork
  /\ work' = work + 1
  /\ UNCHANGED <<requestVars, tray, commands, fenceVars, closed, tracker, checkpointRetry,
                 coreVars, attempts, saves>>

EndWork ==
  /\ work > 0
  /\ work' = work - 1
  /\ UNCHANGED <<requestVars, tray, commands, fenceVars, closed, tracker, checkpointRetry,
                 coreVars, attempts, saves>>

----------------------------------------------------------------------------
(* The tray loop.                                                          *)

\* take_quit_request() || take_quit_retry() clears the first flag that is set.
TakeRequest ==
  /\ quitRequested \/ retryRequested
  /\ quitRequested' = FALSE
  /\ retryRequested' = (quitRequested /\ retryRequested)

BeginAttempt ==
  /\ tray = "running"
  /\ attempts < MaxAttempts
  /\ TakeRequest
  /\ commands' = Append(commands, "begin")
  /\ tray' = "fencing"
  /\ attempts' = attempts + 1
  /\ UNCHANGED <<fenceVars, closed, tracker, checkpointRetry, coreVars, work, saves>>

\* A request that meets an attempt is consumed by it.
JoinAttempt ==
  /\ tray \in {"fencing", "writing", "quitting"}
  /\ TakeRequest
  /\ UNCHANGED <<tray, commands, fenceVars, closed, tracker, checkpointRetry, coreVars,
                 work, attempts, saves>>

\* The Quit item of the tray menu sends the command itself.
SelectQuitItem ==
  /\ tray = "running"
  /\ attempts < MaxAttempts
  /\ commands' = Append(commands, "begin")
  /\ tray' = "fencing"
  /\ attempts' = attempts + 1
  /\ UNCHANGED <<requestVars, fenceVars, closed, tracker, checkpointRetry, coreVars, work,
                 saves>>

\* Admission is closed: the daemon stops answering, and the thread starts.
StartFenceWrite ==
  /\ tray = "fencing"
  /\ beginReply
  /\ beginReply' = FALSE
  /\ stopping' = TRUE
  /\ writers' = writers + 1
  /\ tray' = "writing"
  /\ UNCHANGED <<requestVars, commands, fenceReply, generation, closed, tracker,
                 checkpointRetry, coreVars, work, attempts, saves>>

\* advance_launch_generation replaces the file and syncs its directory.
FenceWriteSucceeds ==
  /\ writers > 0 /\ fenceReply = "empty"
  /\ writers' = writers - 1
  /\ generation' = generation + 1
  /\ fenceReply' = "ok"
  /\ UNCHANGED <<requestVars, tray, commands, beginReply, stopping, closed, tracker,
                 checkpointRetry, coreVars, work, attempts, saves>>

\* It fails before the replacement, or after it, in the sync of the directory.
FenceWriteFails ==
  /\ writers > 0 /\ fenceReply = "empty"
  /\ writers' = writers - 1
  /\ generation' \in {generation, generation + 1}
  /\ fenceReply' = "error"
  /\ UNCHANGED <<requestVars, tray, commands, beginReply, stopping, closed, tracker,
                 checkpointRetry, coreVars, work, attempts, saves>>

\* Slip: the result of the write is not looked at.
CommitAnyway ==
  /\ tray = "writing"
  /\ fenceReply # "empty"
  /\ fenceReply' = "empty"
  /\ commands' = Append(commands, "commit")
  /\ tray' = "quitting"
  /\ UNCHANGED <<requestVars, beginReply, writers, generation, stopping, closed, tracker,
                 checkpointRetry, coreVars, work, attempts, saves>>

CommitAttempt ==
  /\ tray = "writing"
  /\ fenceReply = "ok"
  /\ fenceReply' = "empty"
  /\ commands' = Append(commands, "commit")
  /\ tray' = "quitting"
  /\ UNCHANGED <<requestVars, beginReply, writers, generation, stopping, closed, tracker,
                 checkpointRetry, coreVars, work, attempts, saves>>

FailAttempt ==
  /\ tray = "writing"
  /\ fenceReply = "error"
  /\ fenceReply' = "empty"
  /\ commands' = Append(commands, "fail")
  /\ stopping' = FALSE
  /\ tray' = "running"
  /\ UNCHANGED <<requestVars, beginReply, writers, generation, closed, tracker,
                 checkpointRetry, coreVars, work, attempts, saves>>

\* completed_rx: the core has ended.
ExitProcess ==
  /\ tray = "quitting"
  /\ core = "done"
  /\ tray' = "exited"
  /\ UNCHANGED <<requestVars, commands, fenceVars, closed, tracker, checkpointRetry,
                 coreVars, work, attempts, saves>>

----------------------------------------------------------------------------
(* The core loop: one command at a time.                                   *)

Receives(command) ==
  /\ core = "loop"
  /\ commands # <<>>
  /\ Head(commands) = command
  /\ commands' = Tail(commands)

\* begin_shutdown_fence closes admission; a tracker is replaced only after a
\* failed fence.
CoreBegin ==
  /\ Receives("begin")
  /\ closed' = TRUE
  /\ tracker' = IF tracker.phase \in {"none", "fenceFailed"}
                THEN [NoTracker EXCEPT !.phase = "fencing"] ELSE tracker
  /\ beginReply' = TRUE
  /\ UNCHANGED <<requestVars, tray, writers, fenceReply, generation, stopping,
                 checkpointRetry, coreVars, work, attempts, saves>>

\* fail_shutdown_fence reopens admission, unless Quit has been committed.
CoreFail ==
  /\ Receives("fail")
  /\ IF tracker.phase # "none" /\ ~tracker.committed
     THEN /\ tracker' = [tracker EXCEPT !.phase = "fenceFailed",
                                        !.error = "QUIT_PERSISTENCE_FAILED"]
          /\ closed' = FALSE
     ELSE UNCHANGED <<tracker, closed>>
  /\ UNCHANGED <<requestVars, tray, fenceVars, checkpointRetry, coreVars, work, attempts,
                 saves>>

\* finish_shutdown_with_playback starts: the checkpoint is pending, and the
\* playback owner has the request ("queued") or is gone ("disconnected").
CoreCommit ==
  /\ Receives("commit")
  /\ tracker' = [tracker EXCEPT !.checkpoint = "pending"]
  /\ core' = "committing"
  /\ save' \in {"queued", "disconnected"}
  /\ UNCHANGED <<requestVars, tray, fenceVars, closed, checkpointRetry, saved, drained,
                 overdue, work, attempts, saves>>

\* commit_shutdown; an error recorded before it would be lost here.
CommitShutdown ==
  /\ core = "committing"
  /\ tracker' = [tracker EXCEPT !.phase = "draining", !.committed = TRUE,
                                !.error = "none"]
  /\ core' = "finishing"
  /\ UNCHANGED <<requestVars, tray, commands, fenceVars, closed, checkpointRetry, save,
                 saved, drained, overdue, work, attempts, saves>>

\* The owner of the playback session answers the save, or ends without.
AnswerSave ==
  /\ save = "queued"
  /\ save' \in {"ok", "error", "disconnected"}
  /\ UNCHANGED <<requestVars, tray, commands, fenceVars, closed, tracker, checkpointRetry,
                 core, saved, drained, overdue, work, attempts, saves>>

\* finish_session_checkpoint
SaveSucceeded ==
  [tracker EXCEPT !.checkpoint = "succeeded",
                  !.error = IF @ = "PLAYBACK_CHECKPOINT_FAILED" THEN "none" ELSE @]
SaveFailed ==
  [tracker EXCEPT !.checkpoint = "failed", !.error = "PLAYBACK_CHECKPOINT_FAILED"]

\* Slip: an owner that ends without an answer is not a failure.
ReceiveAnswered ==
  /\ core = "finishing" /\ ~saved
  /\ save \in {"ok", "error", "disconnected"}
  /\ save' = "none"
  /\ saved' = (save = "ok")
  /\ tracker' = CASE save = "ok"    -> SaveSucceeded
                  [] save = "error" -> SaveFailed
                  [] OTHER          -> tracker
  /\ UNCHANGED <<requestVars, tray, commands, fenceVars, closed, checkpointRetry, core,
                 drained, overdue, work, attempts, saves>>

ReceiveSave ==
  /\ core = "finishing" /\ ~saved
  /\ save \in {"ok", "error", "disconnected"}
  /\ save' = "none"
  /\ saved' = (save = "ok")
  /\ tracker' = IF save = "ok" THEN SaveSucceeded ELSE SaveFailed
  /\ UNCHANGED <<requestVars, tray, commands, fenceVars, closed, checkpointRetry, core,
                 drained, overdue, work, attempts, saves>>

\* With no save under way an accepted retry starts the next one.
TakeCheckpointRetry ==
  /\ core = "finishing" /\ ~saved
  /\ save = "none"
  /\ checkpointRetry
  /\ checkpointRetry' = FALSE
  /\ \/ save' = "queued" /\ UNCHANGED tracker
     \/ tracker' = SaveFailed /\ UNCHANGED save
  /\ UNCHANGED <<requestVars, tray, commands, fenceVars, closed, core, saved, drained,
                 overdue, work, attempts, saves>>

\* Slip: only the checkpoint is waited for.
DrainCheckpoint ==
  /\ core = "finishing" /\ ~drained
  /\ tracker.checkpoint \in {"notRequired", "succeeded"}
  /\ drained' = TRUE
  /\ tracker' = [tracker EXCEPT !.phase = "finalizing"]
  /\ UNCHANGED <<requestVars, tray, commands, fenceVars, closed, checkpointRetry, core,
                 save, saved, overdue, work, attempts, saves>>

\* wait_for_shutdown_drain
Drain ==
  /\ core = "finishing" /\ ~drained
  /\ work = 0
  /\ tracker.checkpoint \in {"notRequired", "succeeded"}
  /\ drained' = TRUE
  /\ tracker' = [tracker EXCEPT !.phase = "finalizing"]
  /\ UNCHANGED <<requestVars, tray, commands, fenceVars, closed, checkpointRetry, core,
                 save, saved, overdue, work, attempts, saves>>

\* The deadline passes.
PassDeadline ==
  /\ tracker.committed
  /\ ~overdue
  /\ overdue' = TRUE
  /\ UNCHANGED <<requestVars, tray, commands, fenceVars, closed, tracker, checkpointRetry,
                 core, save, saved, drained, work, attempts, saves>>

Undrained == work > 0 \/ tracker.checkpoint \in {"pending", "failed"}

\* Slip: the delay hides the failure of the checkpoint.
ReportAnyDelay ==
  /\ core = "finishing" /\ ~drained
  /\ Undrained /\ overdue
  /\ tracker' = [tracker EXCEPT !.phase = "waiting", !.error = "SHUTDOWN_TIMEOUT"]
  /\ UNCHANGED <<requestVars, tray, commands, fenceVars, closed, checkpointRetry, coreVars,
                 work, attempts, saves>>

\* An overdue drain is reported, a failed checkpoint stays reported.
ReportDelay ==
  /\ core = "finishing" /\ ~drained
  /\ Undrained /\ overdue
  /\ tracker' = [tracker EXCEPT !.phase = "waiting",
                                !.error = IF tracker.checkpoint = "failed"
                                          THEN @ ELSE "SHUTDOWN_TIMEOUT"]
  /\ UNCHANGED <<requestVars, tray, commands, fenceVars, closed, checkpointRetry, coreVars,
                 work, attempts, saves>>

\* Both branches are through: audio, playback and provider cleanups are joined.
FinishTeardown ==
  /\ core = "finishing" /\ saved /\ drained
  /\ \/ core' = "done" /\ UNCHANGED tracker
     \/ /\ core' = "teardownFailed"
        /\ tracker' = [tracker EXCEPT !.phase = "waiting",
                                      !.error = "PLAYBACK_OWNER_FAILED"]
  /\ UNCHANGED <<requestVars, tray, commands, fenceVars, closed, checkpointRetry, save,
                 saved, drained, overdue, work, attempts, saves>>

----------------------------------------------------------------------------
ClientNext == RequestQuit \/ RequestQuitRetry \/ RequestCheckpointRetry \/ AdmitWork
                \/ SelectQuitItem \/ PassDeadline
TrayNext   == BeginAttempt \/ JoinAttempt \/ StartFenceWrite \/ CommitAttempt
                \/ FailAttempt \/ ExitProcess
WriterNext == FenceWriteSucceeds \/ FenceWriteFails
CoreNext   == CoreBegin \/ CoreFail \/ CoreCommit \/ CommitShutdown
SaveNext   == AnswerSave \/ ReceiveSave \/ TakeCheckpointRetry
DrainNext  == Drain \/ FinishTeardown

QuitNext == ClientNext \/ TrayNext \/ WriterNext \/ CoreNext \/ SaveNext \/ DrainNext
              \/ ReportDelay \/ EndWork

QuitSpec == QuitInit /\ [][QuitNext]_vars

\* Both loops poll for ever, the write and the save return, admitted work ends.
\* Nothing is promised of clients.
QuitFairness ==
  /\ WF_vars(BeginAttempt) /\ WF_vars(StartFenceWrite)
  /\ WF_vars(CommitAttempt \/ FailAttempt) /\ WF_vars(ExitProcess)
  /\ WF_vars(WriterNext)
  /\ WF_vars(CoreNext)
  /\ WF_vars(SaveNext)
  /\ WF_vars(DrainNext)
  /\ WF_vars(EndWork)

FairQuitSpec == QuitSpec /\ QuitFairness

----------------------------------------------------------------------------
(* Safety.                                                                 *)

\* A write of the fence is never retried while it may still commit: at most one
\* thread writes, and its answer is read before another starts (the comment at
\* request_quit_retry).
OneFenceWrite == writers <= 1 /\ (fenceReply # "empty" => writers = 0)

\* Quit is committed only behind a fence that is on disk and that no thread still
\* writes, and from then on admission stays closed.
CommittedBehindFence ==
  /\ OneFenceWrite
  /\ tracker.committed => generation > 0 /\ writers = 0 /\ closed /\ stopping

\* A failed attempt leaves a daemon that works: when the tray is back in its
\* normal state and the core has caught up, requests are answered and admission
\* is open.
FailedQuitReopens == tray = "running" /\ commands = <<>> => ~closed /\ ~stopping

\* While the exit waits for a failed checkpoint the status says so: neither the
\* commit nor the deadline hides the error the user can act on.
CheckpointFailureIsVisible ==
  core = "finishing" /\ tracker.checkpoint = "failed" =>
    tracker.error = "PLAYBACK_CHECKPOINT_FAILED"

\* A pending checkpoint is served by exactly one save or one accepted retry.
\* With neither the exit would wait for ever, since only a failed checkpoint
\* takes a retry; with both the session would be saved twice.
PendingCheckpointIsServed ==
  core = "finishing" =>
    (tracker.checkpoint = "pending" <=> (save # "none" \/ checkpointRetry))
    /\ ~(save # "none" /\ checkpointRetry)

\* The checkpoint of the session is not forgotten while the exit waits for it: a
\* pending one is served, a failed one is shown to the user who must retry it.
CheckpointIsAttended == CheckpointFailureIsVisible /\ PendingCheckpointIsServed

\* The process exits only with the session saved and all admitted work done.
ExitIsClean ==
  tray = "exited" => tracker.checkpoint = "succeeded" /\ work = 0

(* Liveness.                                                               *)

\* An attempt is decided: it never leaves the daemon between the two.
AttemptIsDecided == tray = "fencing" ~> tray \in {"running", "quitting"}

\* A committed quit ends; if not, its teardown has failed or, after the last
\* retry a client sends, the checkpoint stays failed and takes another.
CommittedQuitEnds ==
  [](tray = "quitting" => <>(\/ tray = "exited"
                             \/ core = "teardownFailed"
                             \/ [](tracker.checkpoint = "failed")))

\* Every attempt to quit is decided, and a committed one ends.
QuitIsAnswered == AttemptIsDecided /\ CommittedQuitEnds
=============================================================================
