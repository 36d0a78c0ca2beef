------------------------- MODULE ManifestCheckpoint -------------------------
(***************************************************************************)
(* What the daemon knows of a device and what is written there.            *)
(* The observer of device/mod.rs numbers each arrival of the device, reads *)
(* its manifest and sends it to the event loop of main.rs, which installs  *)
(* it as the copy in memory. From then on all changes go to that copy and  *)
(* are published from it, one at a time behind the commit lock of the      *)
(* device:                                                                 *)
(*   update_manifest_* and update_basket_checked change the copy and       *)
(*   publish it, or roll it back;                                          *)
(*   SyncManifestSession (checkpoint.rs) stages the changes of a sync in   *)
(*   the copy and publishes them together, after some number of them, by a *)
(*   timer, and at the end.                                                *)
(* "disk" is the manifest that is read back: the file on a mass-storage    *)
(* device, the local cache of an MTP device. The device is unplugged and   *)
(* plugged in, and the daemon killed, at any step.                         *)
(***************************************************************************)
EXTENDS Naturals, Sequences

CONSTANTS
  Items,            \* tracks
  Classes,          \* the kinds of devices: "msc" (mass storage), "mtp"
  MaxObservations,  \* bound on the arrivals that one life of the daemon sees
  MaxSaves,         \* bound on the saves of the basket
  LateEvents        \* whether commits happen between a probe and its event

ASSUME CheckpointAssumption ==
  /\ Classes \subseteq {"msc", "mtp"}
  /\ MaxObservations \in Nat \ {0}
  /\ MaxSaves \in Nat /\ LateEvents \in BOOLEAN

VARIABLES
  class,
  plugged, open,       \* the device, and the arrivals whose handle still reaches it
  disk, files,         \* the manifest that is read back, the tracks on the device
  seen, observations,  \* the observer: the arrival it sees (0: none), how many it saw
  events,              \* the channel of DeviceEvents
  conn,                \* ConnectedDevice: the copy in memory, its arrival, its handle
  lock,                \* manifest_commit_locks[device]
  update, checkpoint,  \* the manifest that an update, or the session, is publishing
  run,                 \* the sync
  buffered, timer,     \* BufferedState of its session, and whether the timer lives
  outcome,             \* the status of its operation
  repair,              \* clear_dirty_flag: whether the files have been compared
  saves, acked,        \* the baskets saved, the one last acknowledged (0: in flight)
  overridden           \* the files were compared before, or while, a sync or a
                       \* reconnection changed the copy, and the flag may be cleared

deviceVars == <<class, plugged, open, files>>
eventVars  == <<seen, observations, events>>
runVars    == <<run, buffered, timer, outcome>>
userVars   == <<repair, saves, acked, overridden>>
vars == <<deviceVars, disk, eventVars, conn, lock, update, checkpoint, runVars, userVars>>

Manifests == [items : SUBSET Items, dirty : BOOLEAN, basket : 0..MaxSaves]
NotConnected == [token |-> 0]
NoCommit == [by |-> "none"]
Unbuffered == [changed |-> FALSE, failure |-> FALSE]
NoRun == [pc |-> "idle", goal |-> {}, adds |-> {}, deletes |-> {}, token |-> 0,
          item |-> {}, errors |-> FALSE, cancelled |-> FALSE]

\* A cancelled sync starts no other track.
Cancelled(r) == [r EXCEPT !.cancelled = TRUE, !.adds = {}, !.deletes = {}]

Connected == conn.token # 0
Reaches(token) == plugged /\ token \in open
\* The cache of an MTP device is a file of this computer.
Publishable == class = "mtp" \/ plugged

\* A device synced by earlier runs, or a new one.
Init ==
  /\ class \in Classes /\ plugged = TRUE /\ open = {}
  /\ files \in SUBSET Items
  /\ disk = [items |-> files, dirty |-> FALSE, basket |-> 0]
  /\ seen = 0 /\ observations = 0 /\ events = <<>>
  /\ conn = NotConnected
  /\ lock = "free" /\ update = NoCommit /\ checkpoint = NoCommit
  /\ run = NoRun /\ buffered = Unbuffered /\ timer = FALSE /\ outcome = "none"
  /\ repair = FALSE /\ saves = 0 /\ acked = 0 /\ overridden = FALSE

-----------------------------------------------------------------------------
(* The device, the observers, and the event loop.                          *)

\* The handle of an MTP device is lost. A drive comes back under the same path,
\* and an old handle works again.
Unplug ==
  /\ plugged /\ plugged' = FALSE
  /\ open' = IF class = "mtp" THEN {} ELSE open
  /\ UNCHANGED <<class, files, disk, eventVars, conn, lock, update, checkpoint,
                 runVars, userVars>>

Replug ==
  /\ ~plugged /\ plugged' = TRUE
  /\ UNCHANGED <<class, open, files, disk, eventVars, conn, lock, update, checkpoint,
                 runVars, userVars>>

\* The poll of the observer misses what was there: the device is gone, or the
\* enumeration of MTP devices failed and counts as empty. A device that left
\* and came back between two polls is not noticed.
ObserveRemoval ==
  /\ seen # 0 /\ (plugged => class = "mtp")
  /\ seen' = 0 /\ events' = Append(events, [kind |-> "removed"])
  /\ UNCHANGED <<deviceVars, observations, disk, conn, lock, update, checkpoint,
                 runVars, userVars>>

\* The arrival gets its number, then the manifest is read and sent.
ObserveArrival ==
  /\ seen = 0 /\ plugged /\ observations < MaxObservations
  /\ lock = "free" \/ LateEvents
  /\ observations' = observations + 1 /\ seen' = observations'
  /\ open' = open \cup {seen'}
  /\ events' = Append(events, [kind |-> "detected", token |-> seen', manifest |-> disk])
  /\ UNCHANGED <<class, plugged, files, disk, conn, lock, update, checkpoint, runVars, userVars>>

\* handle_device_detected_at: under the commit lock, and only if nothing is
\* connected there.
HandleDetected ==
  /\ events # <<>> /\ Head(events).kind = "detected" /\ lock = "free"
  /\ events' = Tail(events)
  /\ conn' = IF Connected THEN conn
             ELSE [token |-> Head(events).token, manifest |-> Head(events).manifest]
  /\ overridden' = (overridden \/ repair)
  /\ UNCHANGED <<deviceVars, seen, observations, disk, lock, update, checkpoint,
                 runVars, repair, saves, acked>>

\* remove_observed_device, under the commit lock; then the event loop fails
\* and cancels the operation that is running on the device.
HandleRemoved ==
  /\ events # <<>> /\ Head(events).kind = "removed" /\ lock = "free"
  /\ events' = Tail(events) /\ conn' = NotConnected
  /\ run' = IF Connected /\ run.pc \notin {"idle", "prepared"}
            THEN Cancelled([run EXCEPT !.errors = TRUE]) ELSE run
  /\ UNCHANGED <<deviceVars, seen, observations, disk, lock, update, checkpoint,
                 buffered, timer, outcome, userVars>>

\* What a publication that was cut off leaves.
InFlight == {c.manifest : c \in {update, checkpoint} \ {NoCommit}}

\* The process dies and is started again.
Crash ==
  /\ disk' \in {disk} \cup (IF Publishable THEN InFlight ELSE {})
  /\ open' = {}
  /\ seen' = 0 /\ observations' = 0 /\ events' = <<>> /\ conn' = NotConnected
  /\ lock' = "free" /\ update' = NoCommit /\ checkpoint' = NoCommit
  /\ run' = NoRun /\ buffered' = Unbuffered /\ timer' = FALSE /\ outcome' = "none"
  /\ repair' = FALSE
  /\ UNCHANGED <<class, plugged, files, saves, acked, overridden>>

-----------------------------------------------------------------------------
(* update_manifest_checked_result and update_basket_checked.               *)

\* Without LateEvents the event of a probe is handled before anything is published.
MayPublish == LateEvents \/ \A i \in DOMAIN events : events[i].kind # "detected"

BeginUpdate(by, manifest) ==
  /\ lock = "free" /\ MayPublish /\ lock' = "update"
  /\ update' = [by |-> by, previous |-> conn.manifest, manifest |-> manifest]
  /\ conn' = [conn EXCEPT !.manifest = manifest]
  /\ UNCHANGED <<deviceVars, disk, eventVars, checkpoint>>

\* Slip: the rollback forgets that the refused manifest may be on the device.
RolledBackToPrevious == update.previous

\* The copy as it was, and every sign of an interruption that the failed
\* publication may have left.
RolledBack ==
  [update.previous EXCEPT
     !.dirty = IF class = "mtp" THEN TRUE ELSE @ \/ update.manifest.dirty]

\* How a publication ends: the new manifest is there, or the old one, or
\* either, because what failed came after the replacement.
Published == Publishable /\ disk' = update.manifest
Refused   == disk' = disk
Uncertain == disk' \in {disk} \cup (IF Publishable THEN {update.manifest} ELSE {})

EndUpdate(by) ==
  /\ update.by = by /\ lock' = "free" /\ update' = NoCommit
  /\ UNCHANGED <<deviceVars, eventVars, checkpoint, timer>>

UpdateSucceeds == Published /\ UNCHANGED conn

\* A certain failure restores the copy; after an uncertain one the restored
\* copy is also published again, if that works.
UpdateFails ==
  \/ Refused /\ conn' = [conn EXCEPT !.manifest = update.previous]
  \/ /\ Uncertain \/ (Publishable /\ disk' = RolledBack)
     /\ conn' = [conn EXCEPT !.manifest = RolledBack]

-----------------------------------------------------------------------------
(* A sync, from its plan to its clean manifest.                            *)

\* The plan, from the copy in memory and from the files that are still there.
Prepare(goal) ==
  /\ run.pc = "idle" /\ Connected /\ Reaches(conn.token)
  /\ run' = [NoRun EXCEPT
       !.pc = "prepared", !.goal = goal, !.token = conn.token,
       !.adds = goal \ (conn.manifest.items \cap files),
       !.deletes = conn.manifest.items \ goal]
  /\ outcome' = "none"
  /\ UNCHANGED <<deviceVars, disk, eventVars, conn, lock, update, checkpoint,
                 buffered, timer, userVars>>

OnTarget == Connected /\ conn.token = run.token

EndRun(status) == run' = NoRun /\ outcome' = status

\* admit_sync_operation, then the update that marks the manifest.
MarkDirty ==
  /\ run.pc = "prepared" /\ OnTarget
  /\ BeginUpdate("mark", [conn.manifest EXCEPT !.dirty = TRUE])
  /\ run' = [run EXCEPT !.pc = "marking"]
  /\ overridden' = (overridden \/ repair)
  /\ UNCHANGED <<buffered, timer, outcome, repair, saves, acked>>

TargetChanged ==
  /\ run.pc \in {"prepared", "opening"} /\ ~OnTarget /\ lock = "free"
  /\ EndRun("failed")
  /\ UNCHANGED <<deviceVars, disk, eventVars, conn, lock, update, checkpoint,
                 buffered, timer, userVars>>

\* Slip: a sync goes on although it could not mark the manifest.
MarkFailureIgnored ==
  /\ EndUpdate("mark")
  /\ UpdateSucceeds \/ UpdateFails
  /\ run' = [run EXCEPT !.pc = "opening"]
  /\ UNCHANGED <<outcome, buffered, userVars>>

MarkEnds ==
  /\ EndUpdate("mark")
  /\ \/ UpdateSucceeds /\ run' = [run EXCEPT !.pc = "opening"] /\ UNCHANGED outcome
     \/ UpdateFails /\ EndRun("failed")
  /\ UNCHANGED <<buffered, userVars>>

\* SyncManifestSession::for_target
OpenSession ==
  /\ run.pc = "opening" /\ OnTarget
  /\ run' = [run EXCEPT !.pc = "transfer"] /\ buffered' = Unbuffered /\ timer' = TRUE
  /\ UNCHANGED <<deviceVars, disk, eventVars, conn, lock, update, checkpoint, outcome,
                 userVars>>

\* The device write of a track. A failed write stops the sync; a download that
\* failed, or a file that is not found after its write, is left out.
WriteTrack(i) ==
  /\ run.pc = "transfer" /\ i \in run.adds
  /\ \/ /\ Reaches(run.token) /\ files' = files \cup {i}
        /\ run' = [run EXCEPT !.pc = "stage", !.item = {i}, !.adds = @ \ {i}]
     \/ /\ UNCHANGED files
        /\ run' \in {Cancelled([run EXCEPT !.errors = TRUE]),
                    [run EXCEPT !.errors = TRUE, !.adds = @ \ {i}]}
  /\ UNCHANGED <<class, plugged, open, disk, eventVars, conn, lock, update, checkpoint,
                 buffered, timer, outcome, userVars>>

\* delete_scheduled_managed_item: a file that is not there counts as deleted,
\* and one that cannot be deleted does not stop the others. The code pairs one
\* with each written track and leaves the rest to the end; here any order.
DeleteTrack(i) ==
  /\ run.pc = "transfer" /\ i \in run.deletes
  /\ \/ /\ Reaches(run.token) /\ files' = files \ {i}
        /\ run' = [run EXCEPT !.pc = "stage", !.item = {i}, !.deletes = @ \ {i}]
     \/ /\ UNCHANGED files
        /\ run' = [run EXCEPT !.errors = TRUE, !.deletes = @ \ {i}]
  /\ UNCHANGED <<class, plugged, open, disk, eventVars, conn, lock, update, checkpoint,
                 buffered, timer, outcome, userVars>>

StopTransfer ==
  run' = Cancelled([run EXCEPT !.pc = "transfer", !.item = {}, !.errors = TRUE])

\* The change of the manifest that follows a written or a deleted track.
Staged(manifest) ==
  [manifest EXCEPT !.dirty = TRUE,
     !.items = IF run.item \subseteq run.goal THEN @ \cup run.item ELSE @ \ run.item]

\* stage_checked: the copy in memory, under the buffer's lock and the commit
\* lock. The number of changes since the last checkpoint, and the time, decide
\* whether it is followed by one.
Stage ==
  /\ run.pc = "stage" /\ lock = "free"
  /\ \/ /\ ~buffered.failure /\ OnTarget
        /\ conn' = [conn EXCEPT !.manifest = Staged(@)]
        /\ buffered' = [buffered EXCEPT !.changed = TRUE]
        /\ \E due \in BOOLEAN :
             run' = [run EXCEPT !.pc = IF due THEN "checkpoint" ELSE "transfer", !.item = {}]
     \/ /\ buffered.failure \/ ~OnTarget
        /\ StopTransfer /\ UNCHANGED <<conn, buffered>>
  /\ UNCHANGED <<deviceVars, disk, eventVars, lock, update, checkpoint, timer, outcome,
                 userVars>>

\* request_cancel. Nothing reads the token after finalize_operation has.
CancelRun ==
  /\ run.pc \notin {"idle", "prepared", "cleaning"} /\ ~run.cancelled
  /\ run' = Cancelled(run)
  /\ UNCHANGED <<deviceVars, disk, eventVars, conn, lock, update, checkpoint,
                 buffered, timer, outcome, userVars>>

\* SyncManifestSession::finish: the timer is stopped and joined.
StopTimer ==
  /\ run.pc = "transfer" /\ run.adds \cup run.deletes = {}
  /\ checkpoint.by # "timer"
  /\ timer' = FALSE
  /\ run' = [run EXCEPT !.pc = "finish"]
  /\ UNCHANGED <<deviceVars, disk, eventVars, conn, lock, update, checkpoint,
                 buffered, outcome, userVars>>

\* Who asks for a checkpoint: the staging of a change, the timer, the end.
Asks(by) ==
  CASE by = "stage"  -> run.pc = "checkpoint" /\ checkpoint = NoCommit
    [] by = "timer"  -> timer /\ run.pc \in {"transfer", "stage"} /\ checkpoint = NoCommit
    [] by = "finish" -> run.pc = "finish" /\ checkpoint = NoCommit

\* Slip: the session copies the manifest without holding the commit lock.
TakeNoLock == lock = "free" /\ MayPublish /\ UNCHANGED lock

TakeLock == lock = "free" /\ MayPublish /\ lock' = "checkpoint"

\* flush: the manifest is copied under the commit lock, and encoded.
BeginCheckpoint(by) ==
  /\ Asks(by) /\ buffered.changed /\ OnTarget
  /\ TakeLock
  /\ checkpoint' = [by |-> by, manifest |-> conn.manifest]
  /\ UNCHANGED <<deviceVars, disk, eventVars, conn, update, runVars, userVars>>

\* What each of them does with the result. A failure stays in the buffer, and
\* is the error of every later change and of the end.
Deliver(by, ok) ==
  CASE by = "stage" ->
         /\ buffered' = [changed |-> ~ok, failure |-> ~ok] /\ UNCHANGED timer
         /\ IF ok THEN run' = [run EXCEPT !.pc = "transfer"] ELSE StopTransfer
    [] by = "timer" ->
         /\ buffered' = [buffered EXCEPT !.changed = ~ok, !.failure = @ \/ ~ok]
         /\ timer' = ok /\ run' = IF ok THEN run ELSE Cancelled(run)
    [] by = "finish" ->
         /\ buffered' = [buffered EXCEPT !.changed = ~ok] /\ UNCHANGED timer
         /\ run' = [run EXCEPT !.pc = "finalize",
                      !.errors = @ \/ ~ok \/ buffered.failure,
                      !.cancelled = @ \/ ~ok \/ buffered.failure]

EndCheckpoint(by) ==
  /\ checkpoint.by = by /\ checkpoint' = NoCommit /\ lock' = "free"
  /\ \/ Publishable /\ disk' = checkpoint.manifest /\ Deliver(by, TRUE)
     \/ disk' \in {disk} \cup (IF Publishable THEN {checkpoint.manifest} ELSE {})
        /\ Deliver(by, FALSE)
  /\ UNCHANGED <<deviceVars, eventVars, conn, update, outcome, userVars>>

\* Nothing to write, or no longer the device of the session.
SkipCheckpoint(by) ==
  /\ Asks(by) /\ (by = "finish" \/ buffered.changed)
  /\ ~buffered.changed \/ (~OnTarget /\ lock = "free")
  /\ IF buffered.changed THEN Deliver(by, FALSE) ELSE Deliver(by, TRUE)
  /\ UNCHANGED <<deviceVars, disk, eventVars, conn, lock, update, checkpoint, outcome,
                 userVars>>

\* Slip: only a cancellation prevents the clean manifest.
MayCommitDespiteErrors == ~run.cancelled

\* finalize_operation: no clean manifest after an error or a cancellation.
MayCommit == ~run.errors /\ ~run.cancelled

CommitClean ==
  /\ run.pc = "finalize" /\ MayCommit /\ OnTarget
  /\ BeginUpdate("clean", [conn.manifest EXCEPT !.dirty = FALSE])
  /\ run' = [run EXCEPT !.pc = "cleaning"]
  /\ UNCHANGED <<buffered, timer, outcome, userVars>>

FinalizeWithoutCommit ==
  /\ run.pc = "finalize" /\ (~MayCommit \/ (~OnTarget /\ lock = "free"))
  /\ EndRun("failed")
  /\ UNCHANGED <<deviceVars, disk, eventVars, conn, lock, update, checkpoint,
                 buffered, timer, userVars>>

CleanEnds ==
  /\ EndUpdate("clean")
  /\ \/ UpdateSucceeds /\ EndRun("complete") /\ overridden' = FALSE
     \/ UpdateFails /\ EndRun("failed") /\ UNCHANGED overridden
  /\ UNCHANGED <<buffered, repair, saves, acked>>

-----------------------------------------------------------------------------
(* What the user does meanwhile.                                           *)

Basket == [conn.manifest EXCEPT !.basket = saves + 1]

\* save_basket, and update_basket_checked of an export.
SaveBasket(by) ==
  /\ Connected /\ saves < MaxSaves
  /\ BeginUpdate(by, Basket)
  /\ saves' = saves + 1 /\ acked' = 0
  /\ UNCHANGED <<runVars, repair, overridden>>

SaveEnds ==
  /\ EndUpdate("save")
  /\ \/ UpdateSucceeds /\ acked' = update.manifest.basket
     \/ UpdateFails /\ UNCHANGED acked
  /\ UNCHANGED <<run, buffered, outcome, repair, saves, overridden>>

\* The checked save keeps the new basket where it may have been written.
CheckedSaveEnds ==
  /\ EndUpdate("checkedSave")
  /\ \/ UpdateSucceeds /\ acked' = update.manifest.basket
     \/ /\ class = "mtp" /\ Refused /\ conn' = [conn EXCEPT !.manifest = update.previous]
        /\ UNCHANGED acked
     \/ Uncertain /\ UNCHANGED <<conn, acked>>
  /\ UNCHANGED <<run, buffered, outcome, repair, saves, overridden>>

\* get_discrepancies: no listed file is missing. An MTP device has no path to
\* look at, so that everything is missing there.
CompareFiles ==
  /\ ~repair /\ Connected /\ Reaches(conn.token)
  /\ conn.manifest.items \subseteq (IF class = "mtp" THEN {} ELSE files)
  /\ repair' = TRUE /\ overridden' = (overridden \/ run.pc \notin {"idle", "prepared"})
  /\ UNCHANGED <<deviceVars, disk, eventVars, conn, lock, update, checkpoint, runVars,
                 saves, acked>>

ClearDirty ==
  /\ repair /\ Connected
  /\ BeginUpdate("repair", [conn.manifest EXCEPT !.dirty = FALSE])
  /\ UNCHANGED <<runVars, userVars>>

ClearRefused ==
  /\ repair /\ ~Connected /\ repair' = FALSE
  /\ UNCHANGED <<deviceVars, disk, eventVars, conn, lock, update, checkpoint, runVars,
                 saves, acked, overridden>>

ClearEnds ==
  /\ EndUpdate("repair")
  /\ UpdateSucceeds \/ UpdateFails
  /\ repair' = FALSE
  /\ UNCHANGED <<run, buffered, outcome, saves, acked, overridden>>

-----------------------------------------------------------------------------
Sync ==
  \/ \E goal \in SUBSET Items : Prepare(goal)
  \/ MarkDirty \/ TargetChanged \/ MarkEnds \/ OpenSession
  \/ \E i \in Items : WriteTrack(i) \/ DeleteTrack(i)
  \/ Stage \/ CancelRun \/ StopTimer
  \/ \E by \in {"stage", "timer", "finish"} :
       BeginCheckpoint(by) \/ EndCheckpoint(by) \/ SkipCheckpoint(by)
  \/ CommitClean \/ FinalizeWithoutCommit \/ CleanEnds

User ==
  \/ \E by \in {"save", "checkedSave"} : SaveBasket(by)
  \/ SaveEnds \/ CheckedSaveEnds \/ CompareFiles
  \/ ClearDirty \/ ClearRefused \/ ClearEnds

Next ==
  \/ Unplug \/ Replug \/ ObserveRemoval \/ ObserveArrival
  \/ HandleDetected \/ HandleRemoved \/ Crash
  \/ Sync \/ User

CheckpointSpec == Init /\ [][Next]_vars
-----------------------------------------------------------------------------
Pcs == {"idle", "prepared", "marking", "opening", "transfer", "stage", "checkpoint",
        "finish", "finalize", "cleaning"}
Updaters == {"mark", "clean", "save", "checkedSave", "repair"}
Askers == {"stage", "timer", "finish"}
Arrivals == 1..MaxObservations

Probes == [kind : {"detected"}, token : Arrivals, manifest : Manifests]
Connections == [token : Arrivals, manifest : Manifests]
Updates == [by : Updaters, previous : Manifests, manifest : Manifests]
Checkpoints == [by : Askers, manifest : Manifests]
Runs == [pc : Pcs, goal : SUBSET Items, adds : SUBSET Items, deletes : SUBSET Items,
         token : {0} \cup Arrivals, item : SUBSET Items,
         errors : BOOLEAN, cancelled : BOOLEAN]

\* Publications exclude each other: the lock says which one is under way.
CommitTypeOK ==
  \/ lock = "free" /\ update = NoCommit /\ checkpoint = NoCommit
  \/ lock = "update" /\ update \in Updates /\ checkpoint = NoCommit
  \/ lock = "checkpoint" /\ update = NoCommit /\ checkpoint \in Checkpoints

\* The types of all variables.
CheckpointTypeOK ==
  /\ class \in Classes /\ plugged \in BOOLEAN /\ open \subseteq Arrivals
  /\ disk \in Manifests /\ files \subseteq Items
  /\ observations \in 0..MaxObservations /\ seen \in {0, observations}
  /\ events \in Seq({[kind |-> "removed"]} \cup Probes)
  /\ conn \in {NotConnected} \cup Connections
  /\ CommitTypeOK
  /\ run \in Runs
  /\ buffered \in [changed : BOOLEAN, failure : BOOLEAN] /\ timer \in BOOLEAN
  /\ outcome \in {"none", "failed", "complete"}
  /\ {repair, overridden} \subseteq BOOLEAN
  /\ {saves, acked} \subseteq 0..MaxSaves

\* A manifest that is read back clean lists only tracks that are on the device:
\* whatever a sync had begun to write or delete, and wherever a crash, a
\* removal or a failed checkpoint stopped it, the flag says so, until a later
\* sync completes or the user clears it. (Excepted is a repair that compares the
\* files and clears the flag around a sync, or around a reconnection that brings back an older copy.)
CleanManifestIsTrue == ~disk.dirty /\ ~overridden => disk.items \subseteq files

\* A sync is complete only when the manifest that is read back is clean and
\* lists exactly what was asked for, all of it on the device: checkpoints by
\* count, by timer and at the end have lost nothing that was staged.
CompleteMeansPublished ==
  [][outcome' = "complete" /\ outcome # "complete" =>
       /\ disk' = conn'.manifest /\ ~disk'.dirty
       /\ disk'.items = run.goal /\ run.goal \subseteq files']_vars

\* A basket whose save was acknowledged stays in the manifest until another
\* save begins: no checkpoint of a sync, no final commit, no rollback of a
\* failed update and no reconnection publishes an older one over it.
AcknowledgedBasketSurvives == acked # 0 => disk.basket = acked

\* The copy in memory is never cleaner than the manifest it came from: what is
\* published next cannot erase a sign of an interruption that was on the device.
DirtyEvidenceIsKept == Connected /\ lock = "free" /\ disk.dirty => conn.manifest.dirty
=============================================================================
