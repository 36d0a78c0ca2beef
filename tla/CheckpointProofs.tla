--------------------------- MODULE CheckpointProofs ---------------------------
(***************************************************************************)
(* What ManifestCheckpoint promises for any set of tracks and any number   *)
(* of arrivals and saves. Every publication goes through the commit lock   *)
(* and starts from the copy in memory: CopyInvariant says how the copy,    *)
(* the manifest that is read back and the one in flight agree while the    *)
(* lock is held and while it is free. RunInvariant adds what a sync knows: *)
(* how far the copy and the files are from its goal, and that the manifest *)
(* on the device is marked for as long as they may differ. The last part   *)
(* is about the inside of a publication, ManifestStore.                    *)
(***************************************************************************)
EXTENDS ManifestStore, ManifestCheckpoint, SequenceTheorems, TLAPS

Detections == {i \in DOMAIN events : events[i].kind = "detected"}

\* What is being published is the copy in memory: nobody changes the copy, or
\* the connection, while a publication holds the lock.
PublishedFromCopy ==
  /\ lock = "update" => Connected /\ conn.manifest = update.manifest
  /\ lock = "checkpoint" => Connected /\ conn.manifest = checkpoint.manifest

\* A probe that waits for the event loop has seen what is still on the device.
ProbesAreFresh ==
  /\ lock # "free" => Detections = {}
  /\ \A i \in Detections : events[i].manifest = disk

\* The dirty flag of the device is in the copy, or in what a failed update
\* would restore.
DirtyIsKnown ==
  disk.dirty =>
    /\ Connected /\ lock # "update" => conn.manifest.dirty
    /\ lock = "update" => /\ update.previous.dirty
                          /\ update.by = "checkedSave" => update.manifest.dirty

\* An acknowledged basket is in every manifest that may be published next.
BasketIsEverywhere ==
  acked # 0 =>
    /\ disk.basket = acked
    /\ Connected => conn.manifest.basket = acked
    /\ lock = "update" => /\ update.by \notin {"save", "checkedSave"}
                          /\ update.previous.basket = acked

CopyInvariant ==
  /\ CheckpointTypeOK
  /\ PublishedFromCopy
  /\ ProbesAreFresh
  /\ DirtyIsKnown
  /\ BasketIsEverywhere

-----------------------------------------------------------------------------
(* Types.                                                                  *)

Outcomes == {"none", "failed", "complete"}

\* What the actions do to the run keeps its type.
LEMMA RunUpdates ==
  /\ NoRun \in Runs
  /\ \A r \in Runs : Cancelled(r) \in Runs
  /\ \A r \in Runs, pc \in Pcs : [r EXCEPT !.pc = pc] \in Runs
  /\ \A r \in Runs, pc \in Pcs : [r EXCEPT !.pc = pc, !.item = {}] \in Runs
  /\ \A r \in Runs, e \in BOOLEAN : [r EXCEPT !.errors = e] \in Runs
  /\ \A r \in Runs, pc \in Pcs, e \in BOOLEAN :
       [r EXCEPT !.pc = pc, !.item = {}, !.errors = e] \in Runs
  /\ \A r \in Runs, pc \in Pcs, e \in BOOLEAN, c \in BOOLEAN :
       [r EXCEPT !.pc = pc, !.errors = e, !.cancelled = c] \in Runs
<1> USE CheckpointAssumption DEF Runs
<1>1. NoRun \in Runs
  BY DEF NoRun, Pcs
<1>2. \A r \in Runs : Cancelled(r) \in Runs
  BY DEF Cancelled
<1> QED
  BY <1>1, <1>2

\* What the actions do to a manifest keeps its type.
LEMMA ManifestUpdates ==
  /\ \A m \in Manifests, d \in BOOLEAN : [m EXCEPT !.dirty = d] \in Manifests
  /\ \A m \in Manifests, s \in 0..MaxSaves : [m EXCEPT !.basket = s] \in Manifests
  /\ \A m \in Manifests, i \in SUBSET Items :
       [m EXCEPT !.dirty = TRUE, !.items = i] \in Manifests
  BY CheckpointAssumption DEF Manifests

\* A connection is a record with a manifest, and the marks of an idle lock and
\* of a missing connection are no such records.
LEMMA ConnectedHasManifest ==
  ASSUME conn \in {NotConnected} \cup Connections
  PROVE  /\ Connected => conn \in Connections /\ conn.manifest \in Manifests
         /\ ~Connected => conn = NotConnected
  BY CheckpointAssumption DEF NotConnected, Connections, Connected, Arrivals

\* The lock tells which publication is under way.
LEMMA LockTells ==
  ASSUME CommitTypeOK
  PROVE  /\ \A by \in Updaters : update.by = by => lock = "update"
         /\ \A by \in Askers : checkpoint.by = by => lock = "checkpoint"
         /\ lock = "update" => update \in Updates /\ checkpoint = NoCommit
         /\ lock = "checkpoint" => checkpoint \in Checkpoints /\ update = NoCommit
         /\ lock = "free" => update = NoCommit /\ checkpoint = NoCommit
         /\ lock \in {"free", "update", "checkpoint"}
  BY DEF CommitTypeOK, NoCommit, Updaters, Askers

\* The commits that a crash may cut off.
LEMMA InFlightManifests ==
  ASSUME CommitTypeOK
  PROVE  InFlight = IF lock = "update" THEN {update.manifest}
                    ELSE IF lock = "checkpoint" THEN {checkpoint.manifest} ELSE {}
<1>1. CASE lock = "free"
  BY <1>1, LockTells DEF InFlight
<1>2. CASE lock = "update"
  <2>1. update # NoCommit /\ checkpoint = NoCommit
    BY <1>2, LockTells DEF NoCommit, Updates, Updaters
  <2> QED
    BY <1>2, <2>1 DEF InFlight
<1>3. CASE lock = "checkpoint"
  <2>1. checkpoint # NoCommit /\ update = NoCommit
    BY <1>3, LockTells DEF NoCommit, Checkpoints, Askers
  <2> QED
    BY <1>3, <2>1 DEF InFlight
<1> QED
  BY <1>1, <1>2, <1>3, LockTells

\* The parts of the types that a step of the daemon changes one at a time.
EventTypeOK ==
  /\ class \in Classes /\ plugged \in BOOLEAN /\ open \subseteq Arrivals
  /\ files \subseteq Items
  /\ observations \in 0..MaxObservations /\ seen \in {0, observations}
  /\ events \in Seq({[kind |-> "removed"]} \cup Probes)

RunTypeOK ==
  /\ run \in Runs
  /\ buffered \in [changed : BOOLEAN, failure : BOOLEAN] /\ timer \in BOOLEAN
  /\ outcome \in Outcomes
  /\ {repair, overridden} \subseteq BOOLEAN
  /\ {saves, acked} \subseteq 0..MaxSaves

CopyTypeOK ==
  /\ disk \in Manifests
  /\ conn \in {NotConnected} \cup Connections
  /\ CommitTypeOK

\* Two events that a step adds, and what is left when one is handled.
LEMMA EventSequences ==
  ASSUME events \in Seq({[kind |-> "removed"]} \cup Probes)
  PROVE  /\ Append(events, [kind |-> "removed"]) \in Seq({[kind |-> "removed"]} \cup Probes)
         /\ \A p \in Probes : Append(events, p) \in Seq({[kind |-> "removed"]} \cup Probes)
         /\ events # <<>> =>
              /\ Head(events) \in {[kind |-> "removed"]} \cup Probes
              /\ Tail(events) \in Seq({[kind |-> "removed"]} \cup Probes)
  BY HeadTailProperties, AppendProperties

\* The device and the channel of its events.
LEMMA EventTypeStep == CheckpointTypeOK /\ [Next]_vars => EventTypeOK'
<1> SUFFICES ASSUME CheckpointTypeOK, [Next]_vars
             PROVE  EventTypeOK'
  OBVIOUS
<1> USE CheckpointAssumption DEF CheckpointTypeOK, EventTypeOK, deviceVars, eventVars, Arrivals
<1>1. CASE Unplug
  BY <1>1 DEF Unplug
<1>2. CASE Replug
  BY <1>2 DEF Replug
<1>3. CASE ObserveRemoval
  BY <1>3, EventSequences DEF ObserveRemoval
<1>4. CASE ObserveArrival
  <2>1. observations + 1 \in Arrivals
    BY <1>4 DEF ObserveArrival
  <2>2. [kind |-> "detected", token |-> observations + 1, manifest |-> disk] \in Probes
    BY <2>1 DEF Probes
  <2> QED
    BY <1>4, <2>1, <2>2, EventSequences DEF ObserveArrival
<1>5. CASE HandleDetected
  BY <1>5, EventSequences DEF HandleDetected
<1>6. CASE HandleRemoved
  BY <1>6, EventSequences DEF HandleRemoved
<1>7. CASE Crash
  BY <1>7 DEF Crash
<1>8. CASE Sync \/ User
  <2>1. \/ UNCHANGED <<deviceVars, eventVars>>
        \/ \E i \in Items : WriteTrack(i) \/ DeleteTrack(i)
    BY <1>8 DEF Sync, User, Prepare, MarkDirty, BeginUpdate, TargetChanged, MarkEnds, EndUpdate,
         OpenSession, Stage, CancelRun, StopTimer, BeginCheckpoint, EndCheckpoint,
         SkipCheckpoint, CommitClean, FinalizeWithoutCommit, CleanEnds, SaveBasket, SaveEnds,
         CheckedSaveEnds, CompareFiles, ClearDirty, ClearRefused, ClearEnds
  <2>2. CASE UNCHANGED <<deviceVars, eventVars>>
    BY <2>2
  <2>3. ASSUME NEW i \in Items, WriteTrack(i) \/ DeleteTrack(i)
        PROVE  EventTypeOK'
    BY <2>3 DEF WriteTrack, DeleteTrack
  <2> QED
    BY <2>1, <2>2, <2>3
<1>9. CASE UNCHANGED vars
  BY <1>9 DEF vars
<1> QED
  BY <1>1, <1>2, <1>3, <1>4, <1>5, <1>6, <1>7, <1>8, <1>9 DEF Next

\* The sync, its session and the user.
LEMMA RunTypeStep == CheckpointTypeOK /\ [Next]_vars => RunTypeOK'
<1> SUFFICES ASSUME CheckpointTypeOK, [Next]_vars
             PROVE  RunTypeOK'
  OBVIOUS
<1> USE CheckpointAssumption DEF CheckpointTypeOK, RunTypeOK, Outcomes, deviceVars, eventVars,
      runVars, userVars
<1>0. {"idle", "prepared", "marking", "opening", "transfer", "stage", "checkpoint",
       "finish", "finalize", "cleaning"} = Pcs
  BY DEF Pcs
<1>1. CASE \/ Unplug \/ Replug \/ ObserveRemoval \/ ObserveArrival \/ HandleDetected
  BY <1>1 DEF Unplug, Replug, ObserveRemoval, ObserveArrival, HandleDetected
<1>2. CASE HandleRemoved
  BY <1>2, RunUpdates DEF HandleRemoved
<1>3. CASE Crash
  BY <1>3, RunUpdates DEF Crash, Unbuffered
<1>4. ASSUME NEW goal \in SUBSET Items, Prepare(goal)
      PROVE  RunTypeOK'
  <2>1. run' \in Runs
    <3>1. conn.token \in Arrivals /\ conn.manifest.items \subseteq Items
      BY <1>4, ConnectedHasManifest DEF Prepare, Connections, Manifests
    <3> QED
      BY <1>4, <3>1 DEF Prepare, NoRun, Runs, Pcs
  <2> QED
    BY <1>4, <2>1 DEF Prepare
<1>5. CASE MarkDirty
  BY <1>5, <1>0, RunUpdates DEF MarkDirty, BeginUpdate
<1>6. CASE TargetChanged \/ FinalizeWithoutCommit
  BY <1>6, RunUpdates DEF TargetChanged, FinalizeWithoutCommit, EndRun
<1>7. CASE MarkEnds \/ CleanEnds
  <2>1. NoRun \in Runs /\ [run EXCEPT !.pc = "opening"] \in Runs
    BY <1>0, RunUpdates
  <2>2. CASE MarkEnds
    BY <2>1, <2>2 DEF MarkEnds, EndRun, EndUpdate
  <2>3. CASE CleanEnds
    BY <2>1, <2>3 DEF CleanEnds, EndRun, EndUpdate
  <2> QED
    BY <1>7, <2>2, <2>3
<1>8. CASE OpenSession
  BY <1>8, <1>0, RunUpdates DEF OpenSession, Unbuffered
<1>9. ASSUME NEW i \in Items, WriteTrack(i) \/ DeleteTrack(i)
      PROVE  RunTypeOK'
  <2>1. /\ [run EXCEPT !.pc = "stage", !.item = {i}, !.adds = @ \ {i}] \in Runs
        /\ [run EXCEPT !.pc = "stage", !.item = {i}, !.deletes = @ \ {i}] \in Runs
        /\ [run EXCEPT !.errors = TRUE, !.adds = @ \ {i}] \in Runs
        /\ [run EXCEPT !.errors = TRUE, !.deletes = @ \ {i}] \in Runs
    BY DEF Runs, Pcs
  <2>2. Cancelled([run EXCEPT !.errors = TRUE]) \in Runs
    BY RunUpdates
  <2> QED
    BY <1>9, <2>1, <2>2 DEF WriteTrack, DeleteTrack
<1>10. CASE Stage
  <2>1. Cancelled([run EXCEPT !.pc = "transfer", !.item = {}, !.errors = TRUE]) \in Runs
    BY <1>0, RunUpdates
  <2>2. \A due \in BOOLEAN :
          [run EXCEPT !.pc = IF due THEN "checkpoint" ELSE "transfer", !.item = {}] \in Runs
    BY <1>0, RunUpdates
  <2> QED
    BY <1>10, <2>1, <2>2 DEF Stage, StopTransfer
<1>11. CASE CancelRun \/ StopTimer
  <2>1. Cancelled(run) \in Runs /\ [run EXCEPT !.pc = "finish"] \in Runs
    BY <1>0, RunUpdates
  <2>2. CASE CancelRun
    BY <2>1, <2>2 DEF CancelRun
  <2>3. CASE StopTimer
    BY <2>1, <2>3 DEF StopTimer
  <2> QED
    BY <1>11, <2>2, <2>3
<1>12. ASSUME NEW by \in Askers, BeginCheckpoint(by)
       PROVE  RunTypeOK'
  BY <1>12 DEF BeginCheckpoint
<1>13. ASSUME NEW by \in Askers, NEW ok \in BOOLEAN, Deliver(by, ok),
              UNCHANGED <<outcome, userVars>>
       PROVE  RunTypeOK'
  <2>1. CASE by = "stage"
    <3>1. /\ Cancelled([run EXCEPT !.pc = "transfer", !.item = {}, !.errors = TRUE]) \in Runs
          /\ [run EXCEPT !.pc = "transfer"] \in Runs
      BY <1>0, RunUpdates
    <3> QED
      <4>1. buffered' = [changed |-> ~ok, failure |-> ~ok] /\ UNCHANGED timer
        BY <1>13, <2>1 DEF Deliver
      <4>2. IF ok THEN run' = [run EXCEPT !.pc = "transfer"] ELSE StopTransfer
        BY <1>13, <2>1 DEF Deliver
      <4>3. buffered' \in [changed : BOOLEAN, failure : BOOLEAN]
        BY <4>1
      <4>4. run' \in Runs
        BY <3>1, <4>2 DEF StopTransfer
      <4> QED
        BY <1>13, <4>1, <4>3, <4>4
  <2>2. CASE by = "timer"
    BY <1>13, <2>2, RunUpdates DEF Deliver
  <2>3. CASE by = "finish"
    <3>1. [run EXCEPT !.pc = "finalize",
             !.errors = @ \/ ~ok \/ buffered.failure,
             !.cancelled = @ \/ ~ok \/ buffered.failure] \in Runs
      BY DEF Runs, Pcs
    <3> QED
      BY <1>13, <2>3, <3>1 DEF Deliver
  <2> QED
    BY <2>1, <2>2, <2>3 DEF Askers
<1>14. ASSUME NEW by \in Askers, EndCheckpoint(by) \/ SkipCheckpoint(by)
       PROVE  RunTypeOK'
  <2>1. \E ok \in BOOLEAN : Deliver(by, ok)
    BY <1>14 DEF EndCheckpoint, SkipCheckpoint
  <2> QED
    BY <1>14, <1>13, <2>1 DEF EndCheckpoint, SkipCheckpoint
<1>15. CASE CommitClean
  BY <1>15, <1>0, RunUpdates DEF CommitClean, BeginUpdate
<1>16. CASE User
  <2>1. ASSUME NEW by \in {"save", "checkedSave"}, SaveBasket(by)
        PROVE  RunTypeOK'
    BY <2>1 DEF SaveBasket, BeginUpdate
  <2>2. CASE SaveEnds \/ CheckedSaveEnds
    <3>1. update.manifest.basket \in 0..MaxSaves
      BY <2>2, LockTells DEF SaveEnds, CheckedSaveEnds, EndUpdate, Updaters, Updates, Manifests
    <3> QED
      BY <2>2, <3>1 DEF SaveEnds, CheckedSaveEnds, EndUpdate
  <2>3. CASE CompareFiles \/ ClearDirty \/ ClearRefused \/ ClearEnds
    BY <2>3 DEF CompareFiles, ClearDirty, ClearRefused, ClearEnds, BeginUpdate, EndUpdate
  <2> QED
    BY <1>16, <2>1, <2>2, <2>3 DEF User
<1>17. CASE UNCHANGED vars
  BY <1>17 DEF vars
<1> QED
  BY <1>1, <1>2, <1>3, <1>4, <1>5, <1>6, <1>7, <1>8, <1>9, <1>10, <1>11, <1>12, <1>14,
     <1>15, <1>16, <1>17 DEF Next, Sync, Askers

\* A publication begins with the copy and a changed one, both manifests.
LEMMA BeginUpdateTypes ==
  ASSUME CopyTypeOK, Connected, NEW by \in Updaters, NEW m \in Manifests, BeginUpdate(by, m)
  PROVE  CopyTypeOK'
<1>1. conn \in Connections /\ conn.manifest \in Manifests
  BY ConnectedHasManifest DEF CopyTypeOK
<1>2. update' \in Updates
  BY <1>1 DEF BeginUpdate, Updates
<1>3. conn' \in Connections
  BY <1>1 DEF BeginUpdate, Connections
<1>4. checkpoint' = NoCommit /\ lock' = "update"
  BY LockTells DEF CopyTypeOK, BeginUpdate
<1> QED
  BY <1>2, <1>3, <1>4 DEF CopyTypeOK, CommitTypeOK, BeginUpdate

\* It ends with the changed manifest, the copy as it was, or the copy with the
\* signs of an interruption added.
LEMMA EndUpdateTypes ==
  ASSUME CheckpointTypeOK, NEW by \in Updaters, EndUpdate(by),
         UpdateSucceeds \/ UpdateFails \/ (Uncertain /\ UNCHANGED conn)
  PROVE  CopyTypeOK'
<1> USE DEF CheckpointTypeOK
<1>1. update \in Updates /\ checkpoint = NoCommit
  BY LockTells DEF EndUpdate
<1>2. update.manifest \in Manifests /\ update.previous \in Manifests
  BY <1>1 DEF Updates
<1>3. RolledBack \in Manifests
  BY <1>2 DEF RolledBack, Manifests
<1>4. disk' \in Manifests
  BY <1>2, <1>3 DEF UpdateSucceeds, UpdateFails, Published, Refused, Uncertain
<1>5. conn' \in {NotConnected} \cup Connections
  <2>1. \A m \in Manifests : [conn EXCEPT !.manifest = m] \in {NotConnected} \cup Connections
    BY DEF Connections, NotConnected
  <2> QED
    BY <1>2, <1>3, <2>1 DEF UpdateSucceeds, UpdateFails
<1> QED
  BY <1>1, <1>4, <1>5 DEF CopyTypeOK, CommitTypeOK, EndUpdate

\* The manifest that is read back, the copy and the commits.
LEMMA CopyTypeStep == CheckpointTypeOK /\ [Next]_vars => CopyTypeOK'
<1> SUFFICES ASSUME CheckpointTypeOK, [Next]_vars
             PROVE  CopyTypeOK'
  OBVIOUS
<1> USE DEF CheckpointTypeOK
<1>0. CASE UNCHANGED <<disk, conn, lock, update, checkpoint>>
  BY <1>0 DEF CopyTypeOK, CommitTypeOK
<1>1. CASE HandleDetected
  <2>1. Head(events) \in Probes
    BY <1>1, EventSequences DEF HandleDetected
  <2>2. conn' \in {NotConnected} \cup Connections
    BY <1>1, <2>1 DEF HandleDetected, Probes, Connections
  <2> QED
    BY <1>1, <2>2 DEF HandleDetected, CopyTypeOK, CommitTypeOK
<1>2. CASE HandleRemoved
  BY <1>2 DEF HandleRemoved, CopyTypeOK, CommitTypeOK
<1>3. CASE Crash
  <2>1. InFlight \subseteq Manifests
    BY InFlightManifests, LockTells DEF Updates, Checkpoints
  <2> QED
    BY <1>3, <2>1 DEF Crash, CopyTypeOK, CommitTypeOK
<1>4. ASSUME Connected, NEW by \in Updaters, NEW m \in Manifests, BeginUpdate(by, m)
      PROVE  CopyTypeOK'
  BY <1>4, BeginUpdateTypes DEF CopyTypeOK
<1>5. CASE MarkDirty \/ CommitClean \/ ClearDirty
  <2>1. Connected
    BY <1>5 DEF MarkDirty, CommitClean, ClearDirty, OnTarget
  <2>2. \A d \in BOOLEAN : [conn.manifest EXCEPT !.dirty = d] \in Manifests
    BY <2>1, ConnectedHasManifest, ManifestUpdates
  <2> QED
    BY <1>4, <1>5, <2>1, <2>2 DEF MarkDirty, CommitClean, ClearDirty, Updaters
<1>6. ASSUME NEW by \in {"save", "checkedSave"}, SaveBasket(by)
      PROVE  CopyTypeOK'
  <2>1. saves + 1 \in 0..MaxSaves
    BY <1>6, CheckpointAssumption DEF SaveBasket
  <2>2. Basket \in Manifests
    BY <1>6, <2>1, ConnectedHasManifest, ManifestUpdates DEF SaveBasket, Basket
  <2> QED
    BY <1>4, <1>6, <2>2 DEF SaveBasket, Updaters
<1>7. CASE MarkEnds \/ CleanEnds \/ SaveEnds \/ ClearEnds
  BY <1>7, EndUpdateTypes DEF MarkEnds, CleanEnds, SaveEnds, ClearEnds, Updaters
<1>8. CASE CheckedSaveEnds
  BY <1>8, EndUpdateTypes DEF CheckedSaveEnds, UpdateFails, Updaters
<1>9. CASE Stage
  <2>1. conn' \in {NotConnected} \cup Connections
    <3>1. CASE UNCHANGED conn
      BY <3>1
    <3>2. CASE OnTarget
      <4>1. conn \in Connections /\ conn.manifest \in Manifests
        BY <3>2, ConnectedHasManifest DEF OnTarget
      <4>2. Staged(conn.manifest) \in Manifests
        BY <4>1 DEF Staged, Manifests, Runs
      <4> QED
        BY <1>9, <3>2, <4>1, <4>2 DEF Stage, Connections
    <3> QED
      BY <1>9, <3>1, <3>2 DEF Stage
  <2> QED
    BY <1>9, <2>1 DEF Stage, CopyTypeOK, CommitTypeOK
<1>10. ASSUME NEW by \in Askers, BeginCheckpoint(by)
       PROVE  CopyTypeOK'
  <2>1. checkpoint' \in Checkpoints
    BY <1>10, ConnectedHasManifest DEF BeginCheckpoint, Checkpoints, OnTarget
  <2>2. update = NoCommit
    BY <1>10, LockTells DEF BeginCheckpoint, TakeLock
  <2> QED
    BY <1>10, <2>1, <2>2 DEF BeginCheckpoint, TakeLock, CopyTypeOK, CommitTypeOK
<1>11. ASSUME NEW by \in Askers, EndCheckpoint(by)
       PROVE  CopyTypeOK'
  <2>1. checkpoint.manifest \in Manifests /\ update = NoCommit
    BY <1>11, LockTells DEF EndCheckpoint, Checkpoints
  <2> QED
    BY <1>11, <2>1 DEF EndCheckpoint, CopyTypeOK, CommitTypeOK
<1>12. CASE \/ Unplug \/ Replug \/ ObserveRemoval \/ ObserveArrival
            \/ \E goal \in SUBSET Items : Prepare(goal)
            \/ TargetChanged \/ OpenSession \/ CancelRun \/ StopTimer
            \/ \E i \in Items : WriteTrack(i) \/ DeleteTrack(i)
            \/ \E by \in Askers : SkipCheckpoint(by)
            \/ FinalizeWithoutCommit \/ CompareFiles \/ ClearRefused
  BY <1>0, <1>12 DEF Unplug, Replug, ObserveRemoval, ObserveArrival, Prepare, TargetChanged,
       OpenSession, CancelRun, StopTimer, WriteTrack, DeleteTrack, SkipCheckpoint,
       FinalizeWithoutCommit, CompareFiles, ClearRefused
<1>13. CASE UNCHANGED vars
  BY <1>0, <1>13 DEF vars
<1> QED
  BY <1>1, <1>2, <1>3, <1>5, <1>6, <1>7, <1>8, <1>9, <1>10, <1>11, <1>12, <1>13
     DEF Next, Sync, User, Askers

\* The three parts together.
LEMMA TypeStep == CheckpointTypeOK /\ [Next]_vars => CheckpointTypeOK'
<1> SUFFICES ASSUME CheckpointTypeOK, [Next]_vars
             PROVE  CheckpointTypeOK'
  OBVIOUS
<1>1. EventTypeOK' /\ RunTypeOK' /\ CopyTypeOK'
  BY EventTypeStep, RunTypeStep, CopyTypeStep
<1> QED
  BY <1>1 DEF CheckpointTypeOK, EventTypeOK, RunTypeOK, CopyTypeOK, Outcomes

\* Types are kept by every step, for any number of tracks, arrivals and saves.
THEOREM CheckpointTypes == CheckpointSpec => []CheckpointTypeOK
<1>1. Init => CheckpointTypeOK
  <2> SUFFICES ASSUME Init PROVE CheckpointTypeOK
    OBVIOUS
  <2>1. disk \in Manifests
    BY CheckpointAssumption DEF Init, Manifests
  <2>2. events \in Seq({[kind |-> "removed"]} \cup Probes)
    BY DEF Init
  <2>3. run \in Runs /\ buffered \in [changed : BOOLEAN, failure : BOOLEAN]
    BY RunUpdates DEF Init, Unbuffered
  <2>4. CommitTypeOK
    BY DEF Init, CommitTypeOK
  <2>5. 0 \in 0..MaxSaves /\ 0 \in 0..MaxObservations
    BY CheckpointAssumption
  <2> QED
    BY <2>1, <2>2, <2>3, <2>4, <2>5 DEF Init, CheckpointTypeOK
<1> QED
  BY <1>1, TypeStep, PTL DEF CheckpointSpec

-----------------------------------------------------------------------------
(* The copy in memory and the manifest that is read back.                  *)

CopyFacts == PublishedFromCopy /\ ProbesAreFresh /\ DirtyIsKnown /\ BasketIsEverywhere

\* A publication begins: what was known of the copy is now known of the manifest
\* that a failure restores.
LEMMA BeginUpdateKeeps ==
  ASSUME CopyInvariant, ~LateEvents, Connected,
         NEW by \in Updaters, NEW m \in Manifests, BeginUpdate(by, m),
         by = "checkedSave" => m.dirty = conn.manifest.dirty,
         \/ acked' = 0
         \/ /\ UNCHANGED acked /\ by \notin {"save", "checkedSave"}
            /\ m.basket = conn.manifest.basket
  PROVE  CopyFacts'
<1> USE DEF CopyInvariant
<1>1. /\ lock = "free" /\ lock' = "update" /\ Detections = {}
      /\ UNCHANGED <<disk, events, checkpoint>>
  BY DEF BeginUpdate, MayPublish, Detections, eventVars
<1>2. update' = [by |-> by, previous |-> conn.manifest, manifest |-> m]
  BY DEF BeginUpdate
<1>3. Connected' /\ conn'.manifest = m
  <2>1. conn \in Connections
    BY ConnectedHasManifest DEF CheckpointTypeOK
  <2> QED
    BY <2>1 DEF BeginUpdate, Connections, Connected
<1>4. PublishedFromCopy'
  BY <1>1, <1>2, <1>3 DEF PublishedFromCopy
<1>5. ProbesAreFresh'
  BY <1>1 DEF ProbesAreFresh, Detections
<1>6. DirtyIsKnown'
  BY <1>1, <1>2 DEF DirtyIsKnown
<1>7. BasketIsEverywhere'
  BY <1>1, <1>2, <1>3 DEF BasketIsEverywhere
<1> QED
  BY <1>4, <1>5, <1>6, <1>7 DEF CopyFacts

\* However it ends, the copy is the manifest that was published or one that
\* says at least as much of an interruption.
LEMMA EndUpdateKeeps ==
  ASSUME CopyInvariant, NEW by \in Updaters, EndUpdate(by),
         \/ UpdateSucceeds \/ UpdateFails
         \/ by = "checkedSave" /\ Uncertain /\ UNCHANGED conn,
         \/ UNCHANGED acked
         \/ UpdateSucceeds /\ acked' = update.manifest.basket
  PROVE  CopyFacts'
<1> USE DEF CopyInvariant, CheckpointTypeOK
<1>1. /\ lock = "update" /\ lock' = "free" /\ UNCHANGED events /\ Detections = {}
      /\ update \in Updates /\ update.by = by
  BY LockTells DEF EndUpdate, eventVars, ProbesAreFresh
<1>2. /\ Connected /\ conn \in Connections /\ conn.manifest = update.manifest
  BY <1>1, ConnectedHasManifest DEF PublishedFromCopy
<1>3. /\ RolledBack.basket = update.previous.basket
      /\ update.previous.dirty \/ update.manifest.dirty => RolledBack.dirty
  BY <1>1 DEF RolledBack, Updates, Manifests
<1>4. \/ UNCHANGED conn /\ disk' = update.manifest
      \/ by = "checkedSave" /\ UNCHANGED conn /\ disk' \in {disk, update.manifest}
      \/ UNCHANGED disk /\ conn' = [conn EXCEPT !.manifest = update.previous]
      \/ /\ disk' \in {disk, update.manifest, RolledBack}
         /\ conn' = [conn EXCEPT !.manifest = RolledBack]
  BY DEF UpdateSucceeds, UpdateFails, Published, Refused, Uncertain
<1>5. Connected' /\ conn'.manifest \in {update.manifest, update.previous, RolledBack}
  BY <1>2, <1>4 DEF Connections, Connected
<1>6. PublishedFromCopy' /\ ProbesAreFresh'
  BY <1>1 DEF PublishedFromCopy, ProbesAreFresh, Detections
<1>7. DirtyIsKnown'
  <2> SUFFICES ASSUME disk'.dirty PROVE conn'.manifest.dirty
    BY <1>1 DEF DirtyIsKnown
  <2>1. disk.dirty => update.previous.dirty /\ (by = "checkedSave" => update.manifest.dirty)
    BY <1>1 DEF DirtyIsKnown
  <2>2. CASE UNCHANGED conn /\ disk' = update.manifest
    BY <2>2, <1>2
  <2>3. CASE by = "checkedSave" /\ UNCHANGED conn /\ disk' \in {disk, update.manifest}
    BY <2>1, <2>3, <1>2
  <2>4. CASE UNCHANGED disk /\ conn' = [conn EXCEPT !.manifest = update.previous]
    BY <2>1, <2>4, <1>2 DEF Connections
  <2>5. CASE /\ disk' \in {disk, update.manifest, RolledBack}
             /\ conn' = [conn EXCEPT !.manifest = RolledBack]
    BY <2>1, <2>5, <1>2, <1>3 DEF Connections
  <2> QED
    BY <1>4, <2>2, <2>3, <2>4, <2>5
<1>8. BasketIsEverywhere'
  <2> SUFFICES ASSUME acked' # 0
               PROVE  disk'.basket = acked' /\ conn'.manifest.basket = acked'
    BY <1>1 DEF BasketIsEverywhere
  <2>1. CASE UpdateSucceeds /\ acked' = update.manifest.basket
    BY <2>1, <1>2 DEF UpdateSucceeds, Published
  <2>2. CASE UNCHANGED acked
    <3>1. /\ by \notin {"save", "checkedSave"} /\ disk.basket = acked
          /\ update.previous.basket = acked /\ update.manifest.basket = acked
      BY <2>2, <1>1, <1>2 DEF BasketIsEverywhere
    <3> QED
      BY <2>2, <3>1, <1>3, <1>4, <1>5
  <2> QED
    BY <2>1, <2>2
<1> QED
  BY <1>6, <1>7, <1>8 DEF CopyFacts

\* The steps of the observer and of the event loop.
LEMMA EventKeeps ==
  ASSUME CopyInvariant, ~LateEvents,
         ObserveRemoval \/ ObserveArrival \/ HandleDetected \/ HandleRemoved
  PROVE  CopyFacts'
<1> USE DEF CopyInvariant, CheckpointTypeOK
<1>1. CASE ObserveRemoval
  <2>1. /\ Detections' = Detections /\ \A i \in Detections : events'[i] = events[i]
        /\ UNCHANGED <<disk, conn, lock, update, checkpoint, acked>>
    BY <1>1, AppendProperties DEF ObserveRemoval, Detections, userVars
  <2> QED
    BY <2>1 DEF CopyFacts, PublishedFromCopy, ProbesAreFresh, DirtyIsKnown,
         BasketIsEverywhere, Connected
<1>2. CASE ObserveArrival
  <2>1. /\ lock = "free" /\ UNCHANGED <<disk, conn, lock, update, checkpoint, acked>>
    BY <1>2 DEF ObserveArrival, userVars
  <2>2. \A i \in Detections' : events'[i].manifest = disk
    <3>1. PICK e \in Probes : events' = Append(events, e) /\ e.manifest = disk
      <4>1. observations + 1 \in Arrivals
        BY <1>2, CheckpointAssumption DEF ObserveArrival, Arrivals
      <4> QED
        BY <1>2, <4>1 DEF ObserveArrival, Probes
    <3> QED
      BY <3>1, AppendProperties DEF Detections, ProbesAreFresh
  <2> QED
    BY <2>1, <2>2 DEF CopyFacts, PublishedFromCopy, ProbesAreFresh, DirtyIsKnown,
         BasketIsEverywhere, Connected
<1>3. ASSUME lock = "free", events # <<>>, events' = Tail(events),
             UNCHANGED <<disk, lock, update, checkpoint, acked>>,
             \/ UNCHANGED conn \/ conn' = NotConnected \/ conn'.manifest = disk
      PROVE  CopyFacts'
  <2>1. \A i \in Detections' : i + 1 \in Detections /\ events'[i] = events[i + 1]
    BY <1>3, HeadTailProperties DEF Detections
  <2>2. ProbesAreFresh'
    BY <1>3, <2>1 DEF ProbesAreFresh
  <2>3. ~Connected' \/ UNCHANGED conn \/ conn'.manifest = disk
    BY <1>3 DEF Connected, NotConnected
  <2> QED
    BY <1>3, <2>2, <2>3 DEF CopyFacts, PublishedFromCopy, DirtyIsKnown, BasketIsEverywhere,
         Connected
<1>4. CASE HandleDetected
  <2>1. Head(events) = events[1] /\ 1 \in Detections
    BY <1>4, HeadTailProperties DEF HandleDetected, Detections
  <2>2. UNCHANGED conn \/ conn'.manifest = disk
    BY <1>4, <2>1 DEF HandleDetected, ProbesAreFresh
  <2> QED
    BY <1>3, <1>4, <2>2 DEF HandleDetected
<1>5. CASE HandleRemoved
  BY <1>3, <1>5 DEF HandleRemoved, userVars
<1> QED
  BY <1>1, <1>2, <1>4, <1>5

\* The steps of the session and the crash.
LEMMA SessionKeeps ==
  ASSUME CopyInvariant, ~LateEvents,
         \/ Stage \/ Crash
         \/ \E by \in Askers : BeginCheckpoint(by) \/ EndCheckpoint(by)
  PROVE  CopyFacts'
<1> USE DEF CopyInvariant, CheckpointTypeOK
<1>1. CASE Stage
  <2>1. /\ lock = "free" /\ lock' = "free"
        /\ UNCHANGED <<disk, events, update, checkpoint, acked>>
    BY <1>1 DEF Stage, eventVars, userVars
  <2>2. \/ UNCHANGED conn
        \/ /\ Connected /\ Connected' /\ conn'.manifest.dirty
           /\ conn'.manifest.basket = conn.manifest.basket
    <3>1. CASE UNCHANGED conn
      BY <3>1
    <3>2. CASE OnTarget /\ conn' = [conn EXCEPT !.manifest = Staged(@)]
      <4>1. conn \in Connections /\ conn.manifest \in Manifests
        BY <3>2, ConnectedHasManifest DEF OnTarget
      <4>2. /\ Staged(conn.manifest).dirty
            /\ Staged(conn.manifest).basket = conn.manifest.basket
        BY <4>1 DEF Staged, Manifests
      <4> QED
        BY <3>2, <4>1, <4>2 DEF OnTarget, Connected, Connections
    <3> QED
      BY <1>1, <3>1, <3>2 DEF Stage
  <2>3. PublishedFromCopy' /\ ProbesAreFresh'
    BY <2>1 DEF PublishedFromCopy, ProbesAreFresh, Detections
  <2>4. DirtyIsKnown' /\ BasketIsEverywhere'
    BY <2>1, <2>2 DEF DirtyIsKnown, BasketIsEverywhere, Connected
  <2> QED
    BY <2>3, <2>4 DEF CopyFacts
<1>2. CASE Crash
  <2>1. lock' = "free" /\ ~Connected' /\ events' = <<>> /\ UNCHANGED acked
    BY <1>2 DEF Crash, NotConnected, Connected
  <2>2. \/ disk' = disk
        \/ Connected /\ disk' = conn.manifest
    BY <1>2, InFlightManifests DEF Crash, PublishedFromCopy
  <2>3. PublishedFromCopy' /\ ProbesAreFresh' /\ DirtyIsKnown'
    BY <2>1 DEF PublishedFromCopy, ProbesAreFresh, DirtyIsKnown, Detections
  <2>4. BasketIsEverywhere'
    BY <2>1, <2>2 DEF BasketIsEverywhere
  <2> QED
    BY <2>3, <2>4 DEF CopyFacts
<1>3. ASSUME NEW by \in Askers, BeginCheckpoint(by)
      PROVE  CopyFacts'
  <2>1. /\ lock = "free" /\ lock' = "checkpoint" /\ Detections = {} /\ Connected
        /\ UNCHANGED <<disk, events, conn, update, acked>>
        /\ checkpoint' = [by |-> by, manifest |-> conn.manifest]
    BY <1>3 DEF BeginCheckpoint, TakeLock, MayPublish, OnTarget, Detections, eventVars, userVars
  <2> QED
    BY <2>1 DEF CopyFacts, PublishedFromCopy, ProbesAreFresh, DirtyIsKnown,
         BasketIsEverywhere, Connected, Detections
<1>4. ASSUME NEW by \in Askers, EndCheckpoint(by)
      PROVE  CopyFacts'
  <2>1. lock = "checkpoint" /\ Connected /\ conn.manifest = checkpoint.manifest
    BY <1>4, LockTells DEF EndCheckpoint, PublishedFromCopy
  <2>2. /\ lock' = "free" /\ Detections = {} /\ disk' \in {disk, conn.manifest}
        /\ UNCHANGED <<events, conn, update, acked>>
    BY <1>4, <2>1 DEF EndCheckpoint, ProbesAreFresh, eventVars, userVars
  <2> QED
    BY <2>1, <2>2 DEF CopyFacts, PublishedFromCopy, ProbesAreFresh, DirtyIsKnown,
         BasketIsEverywhere, Connected, Detections
<1> QED
  BY <1>1, <1>2, <1>3, <1>4

\* Every step keeps them.
LEMMA CopyStep == ~LateEvents /\ CopyInvariant /\ [Next]_vars => CopyInvariant'
<1> SUFFICES ASSUME ~LateEvents, CopyInvariant, [Next]_vars
             PROVE  CopyInvariant'
  OBVIOUS
<1>0. CheckpointTypeOK'
  BY TypeStep DEF CopyInvariant
<1> SUFFICES CopyFacts'
  BY <1>0 DEF CopyInvariant, CopyFacts
<1>1. CASE UNCHANGED <<disk, events, conn, lock, update, checkpoint, acked>>
  BY <1>1 DEF CopyInvariant, CopyFacts, PublishedFromCopy, ProbesAreFresh, DirtyIsKnown,
       BasketIsEverywhere, Connected, Detections
<1>2. CASE ObserveRemoval \/ ObserveArrival \/ HandleDetected \/ HandleRemoved
  BY <1>2, EventKeeps
<1>3. CASE Stage \/ Crash \/ \E by \in Askers : BeginCheckpoint(by) \/ EndCheckpoint(by)
  BY <1>3, SessionKeeps
<1>4. CASE MarkDirty \/ CommitClean \/ ClearDirty
  <2>1. Connected /\ conn.manifest \in Manifests
    BY <1>4, ConnectedHasManifest
       DEF MarkDirty, CommitClean, ClearDirty, OnTarget, CopyInvariant, CheckpointTypeOK
  <2>2. \A d \in BOOLEAN :
          /\ [conn.manifest EXCEPT !.dirty = d] \in Manifests
          /\ [conn.manifest EXCEPT !.dirty = d].basket = conn.manifest.basket
    BY <2>1, ManifestUpdates DEF Manifests
  <2>3. PICK by \in Updaters \ {"save", "checkedSave"}, d \in BOOLEAN :
          BeginUpdate(by, [conn.manifest EXCEPT !.dirty = d])
    BY <1>4 DEF MarkDirty, CommitClean, ClearDirty, Updaters
  <2>4. UNCHANGED acked
    BY <1>4 DEF MarkDirty, CommitClean, ClearDirty, userVars
  <2> QED
    BY <2>1, <2>2, <2>3, <2>4, BeginUpdateKeeps
<1>5. ASSUME NEW by \in {"save", "checkedSave"}, SaveBasket(by)
      PROVE  CopyFacts'
  <2>1. Connected /\ conn.manifest \in Manifests
    BY <1>5, ConnectedHasManifest DEF SaveBasket, CopyInvariant, CheckpointTypeOK
  <2>2. saves + 1 \in 0..MaxSaves
    BY <1>5, CheckpointAssumption DEF SaveBasket, CopyInvariant, CheckpointTypeOK
  <2>3. Basket \in Manifests /\ Basket.dirty = conn.manifest.dirty
    BY <2>1, <2>2 DEF Basket, Manifests
  <2> QED
    BY <1>5, <2>1, <2>3, BeginUpdateKeeps DEF SaveBasket, Updaters
<1>6. CASE MarkEnds \/ CleanEnds \/ ClearEnds
  BY <1>6, EndUpdateKeeps DEF MarkEnds, CleanEnds, ClearEnds, Updaters, userVars
<1>7. CASE SaveEnds
  BY <1>7, EndUpdateKeeps DEF SaveEnds, Updaters
<1>8. CASE CheckedSaveEnds
  BY <1>8, EndUpdateKeeps DEF CheckedSaveEnds, UpdateFails, Updaters
<1>9. CASE \/ Unplug \/ Replug
           \/ \E goal \in SUBSET Items : Prepare(goal)
           \/ TargetChanged \/ OpenSession \/ CancelRun \/ StopTimer
           \/ \E i \in Items : WriteTrack(i) \/ DeleteTrack(i)
           \/ \E by \in Askers : SkipCheckpoint(by)
           \/ FinalizeWithoutCommit \/ CompareFiles \/ ClearRefused
  BY <1>1, <1>9 DEF Unplug, Replug, Prepare, TargetChanged, OpenSession, CancelRun, StopTimer,
       WriteTrack, DeleteTrack, SkipCheckpoint, FinalizeWithoutCommit, CompareFiles,
       ClearRefused, eventVars, userVars
<1>10. CASE UNCHANGED vars
  BY <1>1, <1>10 DEF vars, eventVars, userVars
<1> QED
  BY <1>2, <1>3, <1>4, <1>5, <1>6, <1>7, <1>8, <1>9, <1>10 DEF Next, Sync, User, Askers

\* So they hold in every behaviour in which nobody publishes between a probe
\* and its event.
LEMMA CopyInvariantHolds == ~LateEvents /\ CheckpointSpec => []CopyInvariant
<1>1. Init /\ CheckpointTypeOK => CopyInvariant
  BY DEF Init, CopyInvariant, PublishedFromCopy, ProbesAreFresh, DirtyIsKnown,
         BasketIsEverywhere, Detections
<1>2. Init /\ CheckpointSpec => CopyInvariant
  BY <1>1, CheckpointTypes, PTL
<1>3. ~LateEvents /\ CopyInvariant /\ [Next]_vars => CopyInvariant'
  BY CopyStep
<1>4. CASE ~LateEvents
  <2>1. CopyInvariant /\ [Next]_vars => CopyInvariant'
    BY <1>3, <1>4
  <2> QED
    BY <1>2, <2>1, PTL DEF CheckpointSpec
<1>5. CASE LateEvents
  BY <1>5, PTL
<1> QED
  BY <1>4, <1>5, CheckpointAssumption

\* A basket whose save was acknowledged stays in the manifest until another
\* save begins, whatever a sync, its checkpoints, failed updates, reconnections
\* and crashes do meanwhile.
THEOREM AcknowledgedBasketIsKept ==
  ~LateEvents /\ CheckpointSpec => []AcknowledgedBasketSurvives
<1>1. CopyInvariant => AcknowledgedBasketSurvives
  BY DEF CopyInvariant, BasketIsEverywhere, AcknowledgedBasketSurvives
<1> QED
  BY <1>1, CopyInvariantHolds, PTL

\* While nobody publishes, the copy in memory is dirty if the device is: what
\* is written next cannot erase a sign of an interruption.
THEOREM DirtyEvidenceInCopy ==
  ~LateEvents /\ CheckpointSpec => []DirtyEvidenceIsKept
<1>1. CopyInvariant => DirtyEvidenceIsKept
  BY DEF CopyInvariant, DirtyIsKnown, DirtyEvidenceIsKept
<1> QED
  BY <1>1, CopyInvariantHolds, PTL

-----------------------------------------------------------------------------
(* A sync, from its plan to its clean manifest.                            *)

\* An arrival has a larger number than all earlier ones: the one that is
\* connected and the one that the sync was planned for are older than those
\* that wait for the event loop.
TokensIncrease ==
  /\ conn.token <= observations /\ run.token <= observations
  /\ \A i \in Detections :
       /\ conn.token < events[i].token /\ run.token < events[i].token
       /\ events[i].token <= observations
       /\ \A j \in Detections : i < j => events[i].token < events[j].token

\* What the kind of an update says of its manifests, and who waits for it.
UpdateTells ==
  /\ lock = "update" =>
       /\ update.previous.items = update.manifest.items
       /\ update.by = "mark" => update.manifest.dirty /\ run.pc = "marking"
       /\ update.by \in {"save", "checkedSave"} =>
            update.manifest.dirty = update.previous.dirty
       /\ update.by = "clean" => ~update.manifest.dirty /\ run.pc = "cleaning"
       /\ update.by = "repair" => repair
  /\ run.pc = "marking" => lock = "update" /\ update.by = "mark"
  /\ run.pc = "cleaning" => lock = "update" /\ update.by = "clean" /\ OnTarget /\ MayCommit

\* So does the kind of a checkpoint.
CheckpointTells ==
  /\ checkpoint.by = "stage" => run.pc = "checkpoint"
  /\ checkpoint.by = "finish" => run.pc = "finish"

\* What is left to write and to delete is what the copy in memory, with the
\* files that are there, is away from the goal.
RunTracks ==
  /\ run.adds \subseteq run.goal /\ run.deletes \cap run.goal = {}
  /\ run.item \subseteq run.goal \/ run.item \cap run.goal = {}
  /\ run.pc # "stage" => run.item = {}
  /\ run.pc \in {"finish", "finalize", "cleaning"} => run.adds = {} /\ run.deletes = {}
  /\ run.pc # "idle" /\ OnTarget /\ MayCommit =>
       /\ conn.manifest.items \ run.goal \subseteq run.deletes \cup run.item
       /\ run.goal \ (conn.manifest.items \cap files) \subseteq run.adds \cup run.item
       /\ run.item \cap run.goal \subseteq files

\* From the end of the first update of a sync to its last one, the manifest on
\* the device says that a sync is under way.
Running == run.pc \notin {"idle", "prepared", "marking"}
RunIsMarked == Running /\ ~overridden => disk.dirty

\* So whatever is read back, published or restored is dirty, or lists only what
\* is there.
Listed(m) == ~m.dirty /\ ~overridden => m.items \subseteq files
CleanIsListed ==
  /\ Listed(disk)
  /\ Connected => Listed(conn.manifest)
  /\ lock = "update" => Listed(update.previous)

\* A comparison of the files that no sync has disturbed still holds.
RepairIsAlone ==
  repair /\ ~overridden =>
    /\ run.pc \in {"idle", "prepared"}
    /\ Connected => conn.manifest.items \subseteq files

RunFacts ==
  /\ TokensIncrease
  /\ UpdateTells
  /\ CheckpointTells
  /\ RunTracks
  /\ RunIsMarked
  /\ CleanIsListed
  /\ RepairIsAlone

RunInvariant == CopyInvariant /\ RunFacts

\* A publication begins.
LEMMA BeginUpdateTracks ==
  ASSUME RunInvariant, Connected,
         NEW by \in Updaters, NEW m \in Manifests, BeginUpdate(by, m),
         NEW pc \in Pcs, run' = [run EXCEPT !.pc = pc], UNCHANGED repair,
         m.items = conn.manifest.items, Listed(m),
         overridden => overridden', repair /\ by = "mark" => overridden',
         by = "mark" => m.dirty /\ run.pc = "prepared" /\ pc = "marking",
         by = "clean" => /\ ~m.dirty /\ run.pc = "finalize" /\ MayCommit /\ OnTarget
                         /\ pc = "cleaning",
         by \in {"save", "checkedSave"} => m.dirty = conn.manifest.dirty /\ pc = run.pc,
         by = "repair" => repair /\ pc = run.pc
  PROVE  RunFacts'
<1> USE DEF RunInvariant, RunFacts, CopyInvariant, CheckpointTypeOK
<1>1. /\ lock = "free" /\ lock' = "update" /\ checkpoint' = NoCommit
      /\ UNCHANGED <<disk, files, events, observations>>
  BY LockTells DEF BeginUpdate, deviceVars, eventVars
<1>2. /\ update'.by = by /\ update'.previous = conn.manifest /\ update'.manifest = m
  BY DEF BeginUpdate
<1>3. /\ Connected' /\ conn'.manifest = m /\ conn'.token = conn.token
  <2>1. conn \in Connections
    BY ConnectedHasManifest
  <2> QED
    BY <2>1 DEF BeginUpdate, Connections, Connected
<1>4. /\ run'.pc = pc
      /\ \A f \in DOMAIN run \ {"pc"} : run'[f] = run[f]
      /\ run'.goal = run.goal /\ run'.adds = run.adds /\ run'.deletes = run.deletes
      /\ run'.item = run.item /\ run'.token = run.token
      /\ run'.errors = run.errors /\ run'.cancelled = run.cancelled
  BY DEF Runs
<1>5. TokensIncrease'
  BY <1>1, <1>3, <1>4 DEF TokensIncrease, Detections
<1>6. UpdateTells' /\ CheckpointTells'
  BY <1>1, <1>2, <1>3, <1>4 DEF UpdateTells, CheckpointTells, NoCommit, OnTarget, MayCommit,
       Updaters
<1>7. RunTracks'
  <2>1. OnTarget' <=> OnTarget
    BY <1>3, <1>4 DEF OnTarget
  <2>2. MayCommit' <=> MayCommit
    BY <1>4 DEF MayCommit
  <2>3. run.pc # "cleaning" /\ pc # "idle" => run.pc # "idle"
    BY <1>1 DEF UpdateTells, Updaters
  <2>4. pc # "stage" => run.item = {}
    BY DEF RunTracks, Updaters
  <2> QED
    BY <1>1, <1>3, <1>4, <2>1, <2>2, <2>3, <2>4 DEF RunTracks, Updaters
<1>8. RunIsMarked'
  BY <1>1, <1>4 DEF RunIsMarked, Running, Updaters
<1>9. CleanIsListed'
  BY <1>1, <1>2, <1>3 DEF CleanIsListed, Listed
<1>10. RepairIsAlone'
  BY <1>1, <1>3, <1>4 DEF RepairIsAlone, Updaters
<1> QED
  BY <1>5, <1>6, <1>7, <1>8, <1>9, <1>10

\* And ends: by then the copy, and the manifest that is read back, are the one
\* that was published or the one before, dirtier perhaps.
LEMMA EndUpdateTracks ==
  ASSUME RunInvariant, NEW by \in Updaters, EndUpdate(by),
         \/ UpdateSucceeds \/ UpdateFails
         \/ by = "checkedSave" /\ Uncertain /\ UNCHANGED conn,
         \/ by \notin {"mark", "clean"} /\ UNCHANGED run
         \/ by \in {"mark", "clean"} /\ run' = NoRun
         \/ by = "mark" /\ UpdateSucceeds /\ run' = [run EXCEPT !.pc = "opening"],
         UNCHANGED overridden \/ (by = "clean" /\ UpdateSucceeds),
         repair' => repair /\ by # "repair"
  PROVE  RunFacts'
<1> USE DEF RunInvariant, RunFacts, CopyInvariant, CheckpointTypeOK
<1>1. /\ lock = "update" /\ lock' = "free" /\ checkpoint' = NoCommit /\ checkpoint = NoCommit
      /\ UNCHANGED <<files, events, observations>>
      /\ update \in Updates /\ update.by = by
  BY LockTells DEF EndUpdate, deviceVars, eventVars
<1>2. /\ Connected /\ conn \in Connections /\ conn.manifest = update.manifest
  BY <1>1, ConnectedHasManifest DEF PublishedFromCopy
<1>3. /\ RolledBack.items = update.previous.items
      /\ update.previous.dirty \/ update.manifest.dirty => RolledBack.dirty
  BY <1>1 DEF RolledBack, Updates, Manifests
<1>4. /\ disk' \in {disk, update.manifest, RolledBack}
      /\ UpdateSucceeds => disk' = update.manifest /\ UNCHANGED conn
      /\ \/ UNCHANGED conn
         \/ conn' = [conn EXCEPT !.manifest = update.previous]
         \/ conn' = [conn EXCEPT !.manifest = RolledBack]
  BY DEF UpdateSucceeds, UpdateFails, Published, Refused, Uncertain
<1>5. /\ Connected' /\ conn'.manifest \in {update.manifest, update.previous, RolledBack}
      /\ conn'.token = conn.token
      /\ conn'.manifest.items = conn.manifest.items
  BY <1>1, <1>2, <1>3, <1>4 DEF Connections, Connected, UpdateTells
<1>6. TokensIncrease'
  <2>1. run'.token = run.token \/ run'.token = 0
    BY DEF NoRun, Runs
  <2>2. \A i \in Detections : events[i].token \in Arrivals
    BY DEF Detections, Probes
  <2> QED
    BY <1>1, <1>5, <2>1, <2>2 DEF TokensIncrease, Detections, Arrivals
<1>7. /\ by = "mark" => run.pc = "marking" /\ run'.pc \in {"idle", "opening"}
      /\ by = "clean" => run.pc = "cleaning" /\ run'.pc = "idle"
      /\ by \notin {"mark", "clean"} => UNCHANGED run
      /\ run'.pc = "opening" /\ by = "mark" => UpdateSucceeds
  BY <1>1 DEF UpdateTells, NoRun, Runs
<1>8. run'.pc \notin {"marking", "cleaning"}
  BY <1>1, <1>7 DEF UpdateTells
<1>9. UpdateTells' /\ CheckpointTells'
  BY <1>1, <1>8 DEF UpdateTells, CheckpointTells, NoCommit
<1>10. RunTracks'
  <2>1. CASE run'.pc = "idle" /\ run' = NoRun
    BY <2>1 DEF RunTracks, NoRun
  <2>2. CASE run' = run \/ (by = "mark" /\ run' = [run EXCEPT !.pc = "opening"])
    <3>1. /\ run'.goal = run.goal /\ run'.adds = run.adds /\ run'.deletes = run.deletes
          /\ run'.item = run.item /\ run'.token = run.token
          /\ run'.errors = run.errors /\ run'.cancelled = run.cancelled
          /\ run'.pc = run.pc \/ (run.pc = "marking" /\ run'.pc = "opening")
      <4>1. CASE run' = run
        BY <4>1
      <4>2. CASE by = "mark" /\ run' = [run EXCEPT !.pc = "opening"]
        BY <4>2, <1>7 DEF Runs
      <4> QED
        BY <2>2, <4>1, <4>2
    <3>2. (OnTarget' <=> OnTarget) /\ (MayCommit' <=> MayCommit)
      BY <1>2, <1>5, <3>1 DEF OnTarget, MayCommit
    <3> QED
      BY <1>1, <1>5, <3>1, <3>2 DEF RunTracks
  <2> QED
    BY <2>1, <2>2 DEF NoRun
<1>11. CASE overridden' = overridden
  <2>1. Listed(update.previous) /\ Listed(update.manifest) /\ Listed(disk)
    BY <1>1, <1>2 DEF CleanIsListed
  <2>2. Listed(RolledBack)
    BY <1>1, <1>3, <2>1 DEF Listed
  <2>3. CleanIsListed'
    BY <1>1, <1>4, <1>5, <1>11, <2>1, <2>2 DEF CleanIsListed, Listed
  <2>4. RunIsMarked'
    <3> SUFFICES ASSUME Running', ~overridden PROVE disk'.dirty
      BY <1>11 DEF RunIsMarked
    <3>1. CASE by = "mark"
      BY <3>1, <1>1, <1>4, <1>7 DEF Running, UpdateTells
    <3>2. CASE by \in {"save", "checkedSave"}
      <4>1. disk.dirty /\ update.previous.dirty /\ update.manifest.dirty
        BY <3>2, <1>1, <1>7 DEF RunIsMarked, Running, DirtyIsKnown, UpdateTells
      <4> QED
        BY <4>1, <1>3, <1>4
    <3>3. CASE by \in {"clean", "repair"}
      BY <3>3, <1>1, <1>7 DEF Running, RepairIsAlone, UpdateTells
    <3> QED
      BY <3>1, <3>2, <3>3 DEF Updaters
  <2>5. RepairIsAlone'
    <3> SUFFICES ASSUME repair', ~overridden
                 PROVE  /\ run'.pc \in {"idle", "prepared"}
                        /\ conn'.manifest.items \subseteq files
      BY <1>1, <1>11 DEF RepairIsAlone
    <3>1. repair /\ run.pc \in {"idle", "prepared"} /\ conn.manifest.items \subseteq files
      BY <1>2 DEF RepairIsAlone
    <3> QED
      BY <3>1, <1>5, <1>7
  <2> QED
    BY <1>6, <1>9, <1>10, <2>3, <2>4, <2>5
<1>12. CASE by = "clean" /\ UpdateSucceeds
  <2>1. update.manifest.items \subseteq files
    BY <1>1, <1>2, <1>12 DEF UpdateTells, RunTracks
  <2>2. disk' = update.manifest /\ conn'.manifest = update.manifest /\ run'.pc = "idle"
    BY <1>2, <1>4, <1>7, <1>12
  <2> QED
    BY <1>1, <1>6, <1>9, <1>10, <2>1, <2>2
       DEF CleanIsListed, Listed, RunIsMarked, Running, RepairIsAlone
<1> QED
  BY <1>11, <1>12

\* A sync that has published its clean manifest has what was asked for, and
\* nothing else, in it and on the device.
LEMMA CleaningIsDone ==
  ASSUME RunFacts, run.pc = "cleaning"
  PROVE  conn.manifest.items = run.goal /\ run.goal \subseteq files
  BY DEF RunFacts, UpdateTells, RunTracks

\* The steps of the observer and of the event loop.
LEMMA EventTracks ==
  ASSUME RunInvariant,
         ObserveRemoval \/ ObserveArrival \/ HandleDetected \/ HandleRemoved
  PROVE  RunFacts'
<1> USE DEF RunInvariant, RunFacts, CopyInvariant, CheckpointTypeOK
<1>0. \A i \in Detections : events[i].token \in Arrivals
  BY DEF Detections, Probes
<1>1. CASE ObserveRemoval
  <2>1. /\ Detections' = Detections /\ \A i \in Detections : events'[i] = events[i]
        /\ UNCHANGED <<disk, files, observations, conn, lock, update, checkpoint, run,
                       repair, overridden>>
    BY <1>1, AppendProperties DEF ObserveRemoval, Detections, deviceVars, runVars, userVars
  <2> QED
    BY <2>1 DEF TokensIncrease, UpdateTells, CheckpointTells, RunTracks, RunIsMarked, Running,
         CleanIsListed, Listed, RepairIsAlone, Connected, OnTarget, MayCommit
<1>2. CASE ObserveArrival
  <2>1. UNCHANGED <<disk, files, conn, lock, update, checkpoint, run, repair, overridden>>
    BY <1>2 DEF ObserveArrival, runVars, userVars
  <2>2. TokensIncrease'
    <3>1. PICK e \in Probes : events' = Append(events, e) /\ e.token = observations + 1
      <4>1. observations + 1 \in Arrivals
        BY <1>2, CheckpointAssumption DEF ObserveArrival, Arrivals
      <4> QED
        BY <1>2, <4>1 DEF ObserveArrival, Probes
    <3>2. /\ Detections' = Detections \cup {Len(events) + 1}
          /\ \A i \in Detections : events'[i] = events[i] /\ i < Len(events) + 1
          /\ events'[Len(events) + 1] = e
      BY <3>1, AppendProperties DEF Detections, Probes
    <3>3. observations' = observations + 1 /\ observations \in Nat
      BY <1>2, CheckpointAssumption DEF ObserveArrival
    <3>4. conn.token \in Nat /\ run.token \in Nat
      BY DEF Connections, NotConnected, Runs, Arrivals
    <3> QED
      BY <1>0, <2>1, <3>1, <3>2, <3>3, <3>4 DEF TokensIncrease, Detections, Arrivals
  <2> QED
    BY <2>1, <2>2 DEF UpdateTells, CheckpointTells, RunTracks, RunIsMarked, Running,
         CleanIsListed, Listed, RepairIsAlone, Connected, OnTarget, MayCommit
<1>3. ASSUME lock = "free", events # <<>>, events' = Tail(events),
             UNCHANGED <<files, disk, observations, lock, update, checkpoint, repair>>
      PROVE  /\ \A i \in Detections' : i + 1 \in Detections /\ events'[i] = events[i + 1]
             /\ UpdateTells' \/ run'.pc \in {"marking", "cleaning"}
             /\ run.pc \notin {"marking", "cleaning"}
             /\ CheckpointTells'
  BY <1>3, HeadTailProperties, LockTells
     DEF Detections, UpdateTells, CheckpointTells, NoCommit
<1>4. CASE HandleDetected
  <2>1. Head(events) = events[1] /\ 1 \in Detections /\ events[1] \in Probes
    BY <1>4, HeadTailProperties DEF HandleDetected, Detections, Probes
  <2>2. /\ lock = "free" /\ events # <<>> /\ events' = Tail(events)
        /\ UNCHANGED <<files, disk, observations, lock, update, checkpoint, run, repair>>
        /\ overridden' = (overridden \/ repair)
        /\ \/ UNCHANGED conn
           \/ conn'.token = events[1].token /\ conn'.manifest = disk
    BY <1>4, <2>1 DEF HandleDetected, ProbesAreFresh, deviceVars, runVars
  <2>3. TokensIncrease'
    BY <1>0, <1>3, <2>1, <2>2 DEF TokensIncrease, Detections, Arrivals
  <2>4. UpdateTells' /\ CheckpointTells'
    BY <1>3, <2>2
  <2>5. RunTracks'
    <3>1. OnTarget' => UNCHANGED conn
      BY <2>1, <2>2 DEF OnTarget, TokensIncrease, Probes, Arrivals, Runs
    <3> QED
      BY <2>2, <3>1 DEF RunTracks, OnTarget, Connected, MayCommit
  <2>6. RunIsMarked' /\ CleanIsListed' /\ RepairIsAlone'
    BY <2>2 DEF RunIsMarked, Running, CleanIsListed, Listed, RepairIsAlone, Connected
  <2> QED
    BY <2>3, <2>4, <2>5, <2>6
<1>5. CASE HandleRemoved
  <2>1. /\ lock = "free" /\ events # <<>> /\ events' = Tail(events)
        /\ UNCHANGED <<files, disk, observations, lock, update, checkpoint, repair, overridden>>
        /\ conn' = NotConnected /\ ~Connected' /\ conn'.token = 0
    BY <1>5 DEF HandleRemoved, deviceVars, userVars, NotConnected, Connected
  <2>2. /\ run'.pc = run.pc /\ run'.goal = run.goal /\ run'.item = run.item
        /\ run'.token = run.token
        /\ run'.adds \in {run.adds, {}} /\ run'.deletes \in {run.deletes, {}}
    BY <1>5 DEF HandleRemoved, Cancelled, Runs
  <2>3. TokensIncrease'
    BY <1>0, <1>3, <2>1, <2>2 DEF TokensIncrease, Detections, Arrivals
  <2>4. UpdateTells' /\ CheckpointTells'
    BY <1>3, <2>1, <2>2
  <2>5. RunTracks'
    BY <2>1, <2>2 DEF RunTracks, OnTarget
  <2>6. RunIsMarked' /\ CleanIsListed' /\ RepairIsAlone'
    BY <2>1, <2>2 DEF RunIsMarked, Running, CleanIsListed, Listed, RepairIsAlone
  <2> QED
    BY <2>3, <2>4, <2>5, <2>6
<1> QED
  BY <1>1, <1>2, <1>4, <1>5
\* While a sync is marked, any change of the files leaves the manifests listed.
LEMMA MarkedIsListed ==
  ASSUME RunInvariant, Running, run.pc # "cleaning",
         UNCHANGED <<disk, conn, lock, update, overridden>>
  PROVE  CleanIsListed'
<1> USE DEF RunInvariant, RunFacts, CopyInvariant, CheckpointTypeOK
<1> SUFFICES ASSUME ~overridden
             PROVE  /\ disk.dirty
                    /\ Connected => conn.manifest.dirty
                    /\ lock = "update" => update.previous.dirty
  BY DEF CleanIsListed, Listed, Connected
<1>1. disk.dirty /\ ~repair
  BY DEF RunIsMarked, RepairIsAlone, Running
<1>2. CASE lock # "update"
  BY <1>1, <1>2 DEF DirtyIsKnown
<1>3. CASE lock = "update"
  <2>1. conn.manifest = update.manifest /\ update.previous.dirty /\ update.by \in Updaters
    BY <1>1, <1>3, LockTells DEF DirtyIsKnown, PublishedFromCopy, Updates
  <2>2. update.by # "repair"
    BY <1>1, <1>3 DEF UpdateTells
  <2> QED
    BY <1>1, <1>3, <2>1, <2>2 DEF UpdateTells, Running, Updaters
<1> QED
  BY <1>2, <1>3

\* A step of the sync that changes no manifest.
LEMMA RunMoves ==
  ASSUME RunInvariant, RunTracks', CheckpointTells',
         UNCHANGED <<disk, conn, lock, update, events, observations, repair, overridden>>,
         run'.token \in {0, run.token, conn.token},
         UNCHANGED files \/ (Running /\ run.pc # "cleaning"),
         \/ run.pc = "marking" /\ run'.pc = "marking"
         \/ {run.pc, run'.pc} \cap {"marking", "cleaning"} = {},
         Running' => Running
  PROVE  RunFacts'
<1> USE DEF RunInvariant, RunFacts, CopyInvariant, CheckpointTypeOK
<1>1. TokensIncrease'
  <2>1. \A i \in Detections : events[i].token \in Arrivals
    BY DEF Detections, Probes
  <2> QED
    BY <2>1 DEF TokensIncrease, Detections, Arrivals
<1>2. UpdateTells'
  BY DEF UpdateTells
<1>3. CleanIsListed'
  <2>1. CASE UNCHANGED files
    BY <2>1 DEF CleanIsListed, Listed, Connected
  <2> QED
    BY <2>1, MarkedIsListed
<1>4. RunIsMarked'
  BY DEF RunIsMarked
<1>5. RepairIsAlone'
  BY DEF RepairIsAlone, Running, Connected
<1> QED
  BY <1>1, <1>2, <1>3, <1>4, <1>5

\* What a cancellation, and the stop of a transfer, leave of the run.
LEMMA RunStops ==
  ASSUME run \in Runs
  PROVE  /\ \A r \in Runs :
              LET c == Cancelled(r)
              IN  /\ c.pc = r.pc /\ c.goal = r.goal /\ c.token = r.token /\ c.item = r.item
                  /\ c.adds = {} /\ c.deletes = {} /\ c.errors = r.errors /\ c.cancelled
         /\ StopTransfer =>
              /\ run'.pc = "transfer" /\ run'.goal = run.goal /\ run'.token = run.token
              /\ run'.item = {} /\ run'.adds = {} /\ run'.deletes = {}
              /\ run'.errors /\ run'.cancelled
<1>1. \A r \in Runs :
        LET c == Cancelled(r)
        IN  /\ c.pc = r.pc /\ c.goal = r.goal /\ c.token = r.token /\ c.item = r.item
            /\ c.adds = {} /\ c.deletes = {} /\ c.errors = r.errors /\ c.cancelled
  BY DEF Cancelled, Runs
<1> DEFINE s == [run EXCEPT !.pc = "transfer", !.item = {}, !.errors = TRUE]
<1>2. /\ s \in Runs /\ s.pc = "transfer" /\ s.goal = run.goal /\ s.token = run.token
      /\ s.item = {} /\ s.errors
  BY DEF Runs, Pcs
<1>3. StopTransfer => run' = Cancelled(s)
  BY DEF StopTransfer
<1> HIDE DEF s
<1> QED
  BY <1>1, <1>2, <1>3

\* The result of a checkpoint, as the one who asked for it takes it.
LEMMA DeliverTracks ==
  ASSUME RunInvariant, NEW by \in Askers, NEW ok \in BOOLEAN, Deliver(by, ok),
         by = "stage" => run.pc = "checkpoint", by = "finish" => run.pc = "finish",
         UNCHANGED <<conn, files>>
  PROVE  /\ RunTracks' /\ run'.token = run.token
         /\ \/ by = "timer" /\ run'.pc = run.pc
            \/ by = "stage" /\ run'.pc = "transfer"
            \/ by = "finish" /\ run'.pc = "finalize"
<1> USE DEF RunInvariant, RunFacts, CopyInvariant, CheckpointTypeOK
<1>1. CASE by = "stage"
  <2>1. /\ run'.pc = "transfer" /\ run'.goal = run.goal /\ run'.token = run.token
        /\ run'.item = {}
        /\ \/ run'.adds = run.adds /\ run'.deletes = run.deletes
              /\ run'.errors = run.errors /\ run'.cancelled = run.cancelled
           \/ run'.adds = {} /\ run'.deletes = {} /\ run'.errors
    <3>1. run.item = {}
      BY <1>1 DEF RunTracks
    <3> QED
      <4>1. CASE ok
        BY <1>1, <3>1, <4>1 DEF Deliver, Runs
      <4>2. CASE ~ok
        BY <1>1, <4>2, RunStops DEF Deliver
      <4> QED
        BY <4>1, <4>2
  <2> QED
    BY <1>1, <2>1 DEF RunTracks, OnTarget, MayCommit, Connected
<1>2. CASE by = "timer"
  <2>1. \/ run' = run
        \/ /\ run'.pc = run.pc /\ run'.goal = run.goal /\ run'.token = run.token
           /\ run'.item = run.item /\ run'.adds = {} /\ run'.deletes = {} /\ run'.cancelled
    BY <1>2 DEF Deliver, Cancelled, Runs
  <2> QED
    BY <1>2, <2>1 DEF RunTracks, OnTarget, MayCommit, Connected
<1>3. CASE by = "finish"
  <2>1. /\ run'.pc = "finalize" /\ run'.goal = run.goal /\ run'.token = run.token
        /\ run'.item = run.item /\ run'.adds = run.adds /\ run'.deletes = run.deletes
        /\ run.errors => run'.errors
        /\ run.cancelled => run'.cancelled
    BY <1>3 DEF Deliver, Runs
  <2> QED
    BY <1>3, <2>1 DEF RunTracks, OnTarget, MayCommit, Connected
<1> QED
  BY <1>1, <1>2, <1>3 DEF Askers

\* The checkpoints, and the change that is staged before one.
LEMMA SessionTracks ==
  ASSUME RunInvariant,
         \/ Stage \/ Crash
         \/ \E by \in Askers : BeginCheckpoint(by) \/ EndCheckpoint(by) \/ SkipCheckpoint(by)
  PROVE  RunFacts'
<1> USE DEF RunInvariant, RunFacts, CopyInvariant, CheckpointTypeOK
<1>1. CASE Stage
  <2>1. /\ lock = "free" /\ run.pc = "stage" /\ Running
        /\ checkpoint = NoCommit /\ checkpoint' = NoCommit
        /\ UNCHANGED <<disk, files, events, observations, lock, update, repair, overridden>>
    BY <1>1, LockTells DEF Stage, deviceVars, eventVars, userVars, Running
  <2>2. /\ run'.token = run.token /\ run'.goal = run.goal /\ run'.item = {}
        /\ run'.pc \in {"checkpoint", "transfer"}
        /\ \/ /\ OnTarget /\ conn' = [conn EXCEPT !.manifest = Staged(@)]
              /\ run'.adds = run.adds /\ run'.deletes = run.deletes
              /\ run'.errors = run.errors /\ run'.cancelled = run.cancelled
           \/ /\ UNCHANGED conn /\ run'.adds = {} /\ run'.deletes = {} /\ run'.errors
    <3>1. CASE StopTransfer /\ UNCHANGED conn
      BY <3>1, RunStops
    <3>2. CASE ~(StopTransfer /\ UNCHANGED conn)
      BY <1>1, <3>2 DEF Stage, Runs
    <3> QED
      BY <3>1, <3>2
  <2>3. CheckpointTells'
    BY <2>1 DEF CheckpointTells, NoCommit
  <2>4. CASE UNCHANGED conn /\ run'.adds = {} /\ run'.deletes = {} /\ run'.errors
    <3>1. RunTracks'
      BY <2>2, <2>4 DEF RunTracks, MayCommit
    <3> QED
      BY <2>1, <2>2, <2>3, <2>4, <3>1, RunMoves DEF Running
  <2>5. CASE /\ OnTarget /\ conn' = [conn EXCEPT !.manifest = Staged(@)]
             /\ run'.adds = run.adds /\ run'.deletes = run.deletes
             /\ run'.errors = run.errors /\ run'.cancelled = run.cancelled
    <3>1. conn \in Connections /\ conn.manifest \in Manifests
      BY <2>5, ConnectedHasManifest DEF OnTarget
    <3>2. /\ Connected' /\ conn'.token = conn.token /\ conn'.manifest = Staged(conn.manifest)
      BY <2>5, <3>1 DEF OnTarget, Connected, Connections
    <3>3. /\ conn'.manifest.dirty
          /\ conn'.manifest.items = IF run.item \subseteq run.goal
                                    THEN conn.manifest.items \cup run.item
                                    ELSE conn.manifest.items \ run.item
      BY <3>1, <3>2 DEF Staged, Manifests
    <3>4. TokensIncrease'
      BY <2>1, <2>2, <3>2 DEF TokensIncrease, Detections
    <3>5. UpdateTells'
      BY <2>1, <2>2 DEF UpdateTells
    <3>6. RunTracks'
      <4>1. OnTarget /\ MayCommit' = MayCommit
        BY <2>5 DEF MayCommit
      <4> QED
        BY <2>1, <2>2, <2>5, <3>3, <4>1 DEF RunTracks
    <3>7. RunIsMarked' /\ CleanIsListed' /\ RepairIsAlone'
      BY <2>1, <2>2, <3>2, <3>3
         DEF RunIsMarked, Running, CleanIsListed, Listed, RepairIsAlone
    <3> QED
      BY <2>3, <3>4, <3>5, <3>6, <3>7
  <2> QED
    BY <2>2, <2>4, <2>5
<1>2. CASE Crash
  <2>1. /\ lock' = "free" /\ ~Connected' /\ conn'.token = 0 /\ events' = <<>>
        /\ observations' = 0 /\ checkpoint' = NoCommit /\ run' = NoRun
        /\ repair' = FALSE /\ UNCHANGED <<files, overridden>>
    BY <1>2 DEF Crash, NotConnected, Connected
  <2>2. /\ run'.pc = "idle" /\ run'.token = 0 /\ run'.item = {} /\ run'.adds = {}
        /\ run'.deletes = {}
    BY <2>1 DEF NoRun
  <2>3. \/ disk' = disk
        \/ Connected /\ disk' = conn.manifest
    BY <1>2, InFlightManifests DEF Crash, PublishedFromCopy
  <2>4. Listed(disk')
    BY <2>3 DEF CleanIsListed
  <2>5. TokensIncrease' /\ UpdateTells' /\ CheckpointTells' /\ RunTracks'
    BY <2>1, <2>2 DEF TokensIncrease, Detections, UpdateTells, CheckpointTells, NoCommit, RunTracks
  <2> QED
    BY <2>1, <2>2, <2>4, <2>5 DEF RunIsMarked, Running, CleanIsListed, Listed, RepairIsAlone
<1>3. ASSUME NEW by \in Askers, BeginCheckpoint(by)
      PROVE  RunFacts'
  <2>1. /\ lock = "free" /\ lock' = "checkpoint"
        /\ UNCHANGED <<disk, files, events, observations, conn, update, run, repair, overridden>>
        /\ checkpoint'.by = by
        /\ by = "stage" => run.pc = "checkpoint"
        /\ by = "finish" => run.pc = "finish"
    BY <1>3 DEF BeginCheckpoint, TakeLock, Asks, deviceVars, eventVars, runVars, userVars
  <2> QED
    BY <2>1 DEF TokensIncrease, Detections, UpdateTells, CheckpointTells, RunTracks, RunIsMarked,
         Running, CleanIsListed, Listed, RepairIsAlone, Connected, OnTarget, MayCommit
<1>4. ASSUME NEW by \in Askers, EndCheckpoint(by)
      PROVE  RunFacts'
  <2>1. lock = "checkpoint" /\ Connected /\ conn.manifest = checkpoint.manifest
    BY <1>4, LockTells DEF EndCheckpoint, PublishedFromCopy
  <2>2. /\ lock' = "free" /\ checkpoint' = NoCommit /\ checkpoint.by = by
        /\ disk' \in {disk, conn.manifest}
        /\ UNCHANGED <<files, events, observations, conn, update, repair, overridden>>
        /\ \E ok \in BOOLEAN : Deliver(by, ok)
    BY <1>4, <2>1 DEF EndCheckpoint, deviceVars, eventVars, userVars
  <2>3. /\ RunTracks' /\ run'.token = run.token
        /\ \/ by = "timer" /\ run'.pc = run.pc
           \/ by = "stage" /\ run'.pc = "transfer" /\ run.pc = "checkpoint"
           \/ by = "finish" /\ run'.pc = "finalize" /\ run.pc = "finish"
    BY <2>2, DeliverTracks DEF CheckpointTells
  <2>4. TokensIncrease'
    BY <2>2, <2>3 DEF TokensIncrease, Detections
  <2>5. UpdateTells' /\ CheckpointTells'
    BY <2>1, <2>2, <2>3 DEF UpdateTells, CheckpointTells, NoCommit
  <2>6. RunIsMarked'
    BY <2>1, <2>2, <2>3 DEF RunIsMarked, Running, DirtyIsKnown
  <2>7. CleanIsListed'
    BY <2>1, <2>2 DEF CleanIsListed, Listed
  <2>8. RepairIsAlone'
    BY <2>2, <2>3 DEF RepairIsAlone, Connected
  <2> QED
    BY <2>3, <2>4, <2>5, <2>6, <2>7, <2>8
<1>5. ASSUME NEW by \in Askers, SkipCheckpoint(by)
      PROVE  RunFacts'
  <2>1. /\ UNCHANGED <<disk, files, events, observations, conn, lock, update, checkpoint,
                       repair, overridden>>
        /\ checkpoint = NoCommit
        /\ by = "stage" => run.pc = "checkpoint"
        /\ by = "finish" => run.pc = "finish"
        /\ by = "timer" => run.pc \in {"transfer", "stage"}
    BY <1>5 DEF SkipCheckpoint, Asks, Askers, deviceVars, eventVars, userVars
  <2>2. Deliver(by, TRUE) \/ Deliver(by, FALSE)
    BY <1>5 DEF SkipCheckpoint
  <2>3. /\ RunTracks' /\ run'.token = run.token
        /\ \/ by = "timer" /\ run'.pc = run.pc
           \/ by = "stage" /\ run'.pc = "transfer"
           \/ by = "finish" /\ run'.pc = "finalize"
    BY <2>1, <2>2, DeliverTracks
  <2>4. CheckpointTells'
    BY <2>1 DEF CheckpointTells, NoCommit
  <2> QED
    BY <2>1, <2>3, <2>4, RunMoves DEF Running, Askers
<1> QED
  BY <1>1, <1>2, <1>3, <1>4, <1>5

\* A plan is what the copy is away from the goal.
LEMMA PrepareTracks ==
  ASSUME RunInvariant, NEW goal \in SUBSET Items, Prepare(goal)
  PROVE  RunFacts'
<1> USE DEF RunInvariant, RunFacts, CopyInvariant, CheckpointTypeOK
<1>1. /\ run.pc = "idle" /\ Connected
      /\ UNCHANGED <<disk, files, conn, lock, update, checkpoint, events, observations,
                     repair, overridden>>
  BY DEF Prepare, deviceVars, eventVars, userVars
<1>2. /\ run'.pc = "prepared" /\ run'.goal = goal /\ run'.token = conn.token
      /\ run'.adds = goal \ (conn.manifest.items \cap files)
      /\ run'.deletes = conn.manifest.items \ goal /\ run'.item = {}
  BY DEF Prepare, NoRun
<1>3. RunTracks' /\ CheckpointTells'
  BY <1>1, <1>2 DEF RunTracks, CheckpointTells
<1> QED
  BY <1>1, <1>2, <1>3, RunMoves DEF Running

\* The tracks that a sync writes and deletes.
LEMMA TransferTracks ==
  ASSUME RunInvariant, NEW i \in Items, WriteTrack(i) \/ DeleteTrack(i)
  PROVE  RunFacts'
<1> USE DEF RunInvariant, RunFacts, CopyInvariant, CheckpointTypeOK
<1>1. /\ run.pc = "transfer" /\ run.item = {}
      /\ UNCHANGED <<disk, conn, lock, update, checkpoint, events, observations,
                     repair, overridden>>
  BY DEF WriteTrack, DeleteTrack, RunTracks, eventVars, userVars
<1>2. /\ run'.goal = run.goal /\ run'.token = run.token /\ run'.pc \in {"transfer", "stage"}
      /\ (OnTarget' <=> OnTarget)
      /\ \/ /\ run'.errors = run.errors /\ run'.cancelled = run.cancelled
            /\ run'.pc = "stage" /\ run'.item = {i}
            /\ \/ /\ i \in run.adds /\ files' = files \cup {i}
                  /\ run'.adds = run.adds \ {i} /\ run'.deletes = run.deletes
               \/ /\ i \in run.deletes /\ files' = files \ {i}
                  /\ run'.deletes = run.deletes \ {i} /\ run'.adds = run.adds
         \/ /\ run'.errors /\ run'.item = {} /\ run'.pc = "transfer"
            /\ run'.adds \subseteq run.adds /\ run'.deletes \subseteq run.deletes
  <2>1. CASE WriteTrack(i) /\ files' = files \cup {i}
             /\ run' = [run EXCEPT !.pc = "stage", !.item = {i}, !.adds = @ \ {i}]
    BY <1>1, <2>1 DEF WriteTrack, Runs, OnTarget, Connected
  <2>2. CASE DeleteTrack(i) /\ files' = files \ {i}
             /\ run' = [run EXCEPT !.pc = "stage", !.item = {i}, !.deletes = @ \ {i}]
    BY <1>1, <2>2 DEF DeleteTrack, Runs, OnTarget, Connected
  <2>3. CASE \/ run' = [run EXCEPT !.errors = TRUE, !.adds = @ \ {i}]
             \/ run' = [run EXCEPT !.errors = TRUE, !.deletes = @ \ {i}]
    <3>1. /\ run'.pc = run.pc /\ run'.goal = run.goal /\ run'.token = run.token
          /\ run'.item = run.item /\ run'.errors
      BY <2>3 DEF Runs
    <3>2. run'.adds \subseteq run.adds /\ run'.deletes \subseteq run.deletes
      BY <2>3 DEF Runs
    <3> QED
      BY <1>1, <3>1, <3>2 DEF OnTarget, Connected
  <2>4. CASE run' = Cancelled([run EXCEPT !.errors = TRUE])
    <3> DEFINE s == [run EXCEPT !.errors = TRUE]
    <3>1. /\ s \in Runs /\ s.pc = "transfer" /\ s.goal = run.goal /\ s.token = run.token
          /\ s.item = {} /\ s.errors /\ run' = Cancelled(s)
      BY <1>1, <2>4 DEF Runs
    <3> HIDE DEF s
    <3> QED
      BY <1>1, <3>1, RunStops DEF OnTarget, Connected
  <2> QED
    BY <2>1, <2>2, <2>3, <2>4 DEF WriteTrack, DeleteTrack
<1>3. RunTracks'
  BY <1>1, <1>2 DEF RunTracks, MayCommit
<1>4. CheckpointTells'
  BY <1>1 DEF CheckpointTells
<1> QED
  BY <1>1, <1>2, <1>3, <1>4, RunMoves DEF Running

\* The other steps of a sync that change no manifest.
LEMMA PassageTracks ==
  ASSUME RunInvariant, TargetChanged \/ OpenSession \/ CancelRun \/ StopTimer
                       \/ FinalizeWithoutCommit
  PROVE  RunFacts'
<1> USE DEF RunInvariant, RunFacts, CopyInvariant, CheckpointTypeOK
<1>1. UNCHANGED <<disk, files, conn, lock, update, checkpoint, events, observations,
                  repair, overridden>>
  BY DEF TargetChanged, OpenSession, CancelRun, StopTimer, FinalizeWithoutCommit,
         deviceVars, eventVars, userVars
<1>2. CASE TargetChanged \/ FinalizeWithoutCommit
  <2>1. /\ run'.pc = "idle" /\ run'.token = 0 /\ run'.item = {} /\ run'.adds = {}
        /\ run'.deletes = {} /\ run.pc \in {"prepared", "opening", "finalize"}
    BY <1>2 DEF TargetChanged, FinalizeWithoutCommit, EndRun, NoRun
  <2>2. RunTracks' /\ CheckpointTells'
    BY <1>1, <2>1 DEF RunTracks, CheckpointTells
  <2> QED
    BY <1>1, <2>1, <2>2, RunMoves DEF Running
<1>3. CASE OpenSession \/ StopTimer
  <2>1. /\ \/ run.pc = "opening" /\ run'.pc = "transfer"
           \/ /\ run.pc = "transfer" /\ run'.pc = "finish"
              /\ run.adds = {} /\ run.deletes = {}
        /\ run'.goal = run.goal /\ run'.token = run.token /\ run'.item = run.item
        /\ run'.adds = run.adds /\ run'.deletes = run.deletes
        /\ run'.errors = run.errors /\ run'.cancelled = run.cancelled
    BY <1>3 DEF OpenSession, StopTimer, Runs
  <2>2. RunTracks' /\ CheckpointTells'
    BY <1>1, <2>1 DEF RunTracks, CheckpointTells, OnTarget, Connected, MayCommit
  <2> QED
    BY <1>1, <2>1, <2>2, RunMoves DEF Running
<1>4. CASE CancelRun
  <2>1. /\ run'.pc = run.pc /\ run'.goal = run.goal /\ run'.token = run.token
        /\ run'.item = run.item /\ run'.adds = {} /\ run'.deletes = {} /\ run'.cancelled
        /\ run.pc # "cleaning"
    BY <1>4, RunStops DEF CancelRun
  <2>2. RunTracks' /\ CheckpointTells'
    BY <1>1, <2>1 DEF RunTracks, CheckpointTells, MayCommit
  <2> QED
    BY <1>1, <2>1, <2>2, RunMoves DEF Running
<1> QED
  BY <1>2, <1>3, <1>4

\* The comparison of the files, alone or while a sync is under way.
LEMMA RepairTracks ==
  ASSUME RunInvariant, CompareFiles \/ ClearRefused
  PROVE  RunFacts'
<1> USE DEF RunInvariant, RunFacts, CopyInvariant, CheckpointTypeOK
<1>1. UNCHANGED <<disk, files, conn, lock, update, checkpoint, events, observations, run>>
  BY DEF CompareFiles, ClearRefused, deviceVars, eventVars, runVars
<1>2. \/ /\ repair' = TRUE /\ Connected /\ conn.manifest.items \subseteq files
         /\ overridden' = (overridden \/ run.pc \notin {"idle", "prepared"})
      \/ repair' = FALSE /\ ~Connected /\ UNCHANGED overridden
  BY DEF CompareFiles, ClearRefused
<1>3. UpdateTells'
  BY <1>1, <1>2 DEF UpdateTells, PublishedFromCopy, OnTarget, Connected, MayCommit
<1> QED
  BY <1>1, <1>2, <1>3
     DEF TokensIncrease, Detections, CheckpointTells, RunTracks, RunIsMarked,
         Running, CleanIsListed, Listed, RepairIsAlone, Connected, OnTarget, MayCommit

\* Every step keeps them.
LEMMA RunStep == ~LateEvents /\ RunInvariant /\ [Next]_vars => RunInvariant'
<1> SUFFICES ASSUME ~LateEvents, RunInvariant, [Next]_vars
             PROVE  RunFacts'
  BY CopyStep DEF RunInvariant
<1> USE DEF RunInvariant, RunFacts, CopyInvariant, CheckpointTypeOK
<1>1. CASE Unplug \/ Replug \/ UNCHANGED vars
  <2>1. UNCHANGED <<disk, files, conn, lock, update, checkpoint, events, observations, run,
                    repair, overridden>>
    BY <1>1 DEF Unplug, Replug, vars, deviceVars, eventVars, runVars, userVars
  <2> QED
    BY <2>1 DEF TokensIncrease, Detections, UpdateTells, CheckpointTells, RunTracks, RunIsMarked,
         Running, CleanIsListed, Listed, RepairIsAlone, Connected, OnTarget, MayCommit
<1>2. CASE ObserveRemoval \/ ObserveArrival \/ HandleDetected \/ HandleRemoved
  BY <1>2, EventTracks
<1>3. CASE \/ Stage \/ Crash
           \/ \E by \in Askers : BeginCheckpoint(by) \/ EndCheckpoint(by) \/ SkipCheckpoint(by)
  BY <1>3, SessionTracks
<1>4. ASSUME \/ MarkDirty \/ CommitClean \/ ClearDirty
             \/ \E by \in {"save", "checkedSave"} : SaveBasket(by)
      PROVE  /\ Connected /\ conn.manifest \in Manifests
             /\ \A d \in BOOLEAN :
                  LET m == [conn.manifest EXCEPT !.dirty = d]
                  IN  m \in Manifests /\ m.items = conn.manifest.items /\ m.dirty = d
  <2>1. Connected
    BY <1>4 DEF MarkDirty, CommitClean, ClearDirty, SaveBasket, OnTarget
  <2>2. conn.manifest \in Manifests
    BY <2>1, ConnectedHasManifest
  <2> QED
    BY <2>1, <2>2 DEF Manifests
<1>5. CASE MarkDirty
  <2> DEFINE m == [conn.manifest EXCEPT !.dirty = TRUE]
  <2>1. m \in Manifests /\ m.items = conn.manifest.items /\ m.dirty /\ Connected
    BY <1>4, <1>5
  <2>2. BeginUpdate("mark", m) /\ run' = [run EXCEPT !.pc = "marking"]
    BY <1>5 DEF MarkDirty
  <2> HIDE DEF m
  <2> QED
    BY <1>5, <2>1, <2>2, BeginUpdateTracks DEF MarkDirty, Updaters, Pcs, Listed
<1>6. CASE CommitClean
  <2> DEFINE m == [conn.manifest EXCEPT !.dirty = FALSE]
  <2>1. m \in Manifests /\ m.items = conn.manifest.items /\ ~m.dirty /\ Connected
    BY <1>4, <1>6
  <2>2. BeginUpdate("clean", m) /\ run' = [run EXCEPT !.pc = "cleaning"]
    BY <1>6 DEF CommitClean
  <2>3. conn.manifest.items \subseteq files
    BY <1>6 DEF CommitClean, RunTracks
  <2> HIDE DEF m
  <2> QED
    BY <1>6, <2>1, <2>2, <2>3, BeginUpdateTracks
       DEF CommitClean, Updaters, Pcs, Listed, userVars
<1>7. run' = run => run' = [run EXCEPT !.pc = run.pc] /\ run.pc \in Pcs
  BY DEF Runs
<1>8. CASE ClearDirty
  <2> DEFINE m == [conn.manifest EXCEPT !.dirty = FALSE]
  <2>1. m \in Manifests /\ m.items = conn.manifest.items /\ ~m.dirty /\ Connected
    BY <1>4, <1>8
  <2>2. BeginUpdate("repair", m) /\ UNCHANGED <<run, repair, overridden>> /\ repair
    BY <1>8 DEF ClearDirty, runVars, userVars
  <2>3. Listed(m)
    BY <2>1, <2>2 DEF RepairIsAlone, Listed
  <2> HIDE DEF m
  <2> QED
    BY <1>7, <2>1, <2>2, <2>3, BeginUpdateTracks DEF Updaters
<1>9. ASSUME NEW by \in {"save", "checkedSave"}, SaveBasket(by)
      PROVE  RunFacts'
  <2>1. Connected /\ conn.manifest \in Manifests
    BY <1>4, <1>9
  <2>2. saves + 1 \in 0..MaxSaves
    BY <1>9, CheckpointAssumption DEF SaveBasket
  <2>3. /\ Basket \in Manifests /\ Basket.dirty = conn.manifest.dirty
        /\ Basket.items = conn.manifest.items
    BY <2>1, <2>2 DEF Basket, Manifests
  <2>4. BeginUpdate(by, Basket) /\ UNCHANGED <<run, repair, overridden>>
    BY <1>9 DEF SaveBasket, runVars
  <2>5. Listed(Basket)
    BY <2>1, <2>3 DEF CleanIsListed, Listed
  <2> QED
    BY <1>7, <2>1, <2>3, <2>4, <2>5, BeginUpdateTracks DEF Updaters
<1>10. CASE MarkEnds
  <2>1. /\ EndUpdate("mark") /\ UNCHANGED <<overridden, repair>>
        /\ UpdateSucceeds \/ UpdateFails
        /\ run' = NoRun \/ (UpdateSucceeds /\ run' = [run EXCEPT !.pc = "opening"])
    BY <1>10 DEF MarkEnds, EndRun, userVars
  <2> QED
    BY <2>1, EndUpdateTracks DEF Updaters
<1>11. CASE CleanEnds
  <2>1. /\ EndUpdate("clean") /\ UNCHANGED repair /\ run' = NoRun
        /\ \/ UpdateSucceeds
           \/ UpdateFails /\ UNCHANGED overridden
    BY <1>11 DEF CleanEnds, EndRun
  <2> QED
    BY <2>1, EndUpdateTracks DEF Updaters
<1>12. CASE SaveEnds \/ ClearEnds \/ CheckedSaveEnds
  <2>1. UNCHANGED <<run, overridden>>
    BY <1>12 DEF SaveEnds, ClearEnds, CheckedSaveEnds
  <2>2. CASE SaveEnds
    BY <2>1, <2>2, EndUpdateTracks DEF SaveEnds, Updaters
  <2>3. CASE ClearEnds
    BY <2>1, <2>3, EndUpdateTracks DEF ClearEnds, Updaters
  <2>4. CASE CheckedSaveEnds
    BY <2>1, <2>4, EndUpdateTracks DEF CheckedSaveEnds, UpdateFails, Updaters
  <2> QED
    BY <1>12, <2>2, <2>3, <2>4
<1> QED
  BY <1>1, <1>2, <1>3, <1>5, <1>6, <1>8, <1>9, <1>10, <1>11, <1>12, PrepareTracks,
     TransferTracks, PassageTracks, RepairTracks DEF Next, Sync, User, Askers

\* So they hold in every behaviour in which nobody publishes between a probe
\* and its event.
LEMMA RunInvariantHolds == ~LateEvents /\ CheckpointSpec => []RunInvariant
<1>1. Init /\ CopyInvariant => RunInvariant
  BY DEF Init, NoRun, NoCommit, NotConnected, RunInvariant, RunFacts, TokensIncrease,
         Detections, UpdateTells, CheckpointTells, RunTracks, RunIsMarked, Running,
         CleanIsListed, Listed, RepairIsAlone, Connected
<1>2. ~LateEvents /\ Init /\ CheckpointSpec => RunInvariant
  BY <1>1, CopyInvariantHolds, PTL
<1>3. ~LateEvents /\ RunInvariant /\ [Next]_vars => RunInvariant'
  BY RunStep
<1>4. CASE ~LateEvents
  <2>1. RunInvariant /\ [Next]_vars => RunInvariant'
    BY <1>3, <1>4
  <2> QED
    BY <1>2, <1>4, <2>1, PTL DEF CheckpointSpec
<1>5. CASE LateEvents
  BY <1>5, PTL
<1> QED
  BY <1>4, <1>5, CheckpointAssumption

\* A manifest that is read back clean lists only tracks that are on the device:
\* whatever a sync had begun to write or to delete, and wherever a crash, a
\* removal or a failed checkpoint stopped it, the flag says so.
THEOREM CleanManifestsAreTrue ==
  ~LateEvents /\ CheckpointSpec => []CleanManifestIsTrue
<1>1. RunInvariant => CleanManifestIsTrue
  BY DEF RunInvariant, RunFacts, CleanIsListed, Listed, CleanManifestIsTrue
<1> QED
  BY <1>1, RunInvariantHolds, PTL

\* A sync is complete only when the manifest that is read back is clean and
\* lists what was asked for, all of it on the device: whatever was staged, the
\* checkpoints by count, by timer and at the end have lost nothing of it.
THEOREM CompleteSyncsArePublished ==
  ~LateEvents /\ CheckpointSpec => CompleteMeansPublished
<1>1. ASSUME RunInvariant, [Next]_vars, outcome' = "complete", outcome # "complete"
      PROVE  /\ disk' = conn'.manifest /\ ~disk'.dirty
             /\ disk'.items = run.goal /\ run.goal \subseteq files'
  <2>1. CleanEnds /\ UpdateSucceeds
    BY <1>1 DEF Next, Sync, User, vars, runVars, Unplug, Replug, ObserveRemoval, ObserveArrival,
         HandleDetected, HandleRemoved, Crash, Prepare, MarkDirty, TargetChanged, MarkEnds,
         OpenSession, WriteTrack, DeleteTrack, Stage, CancelRun, StopTimer, BeginCheckpoint,
         EndCheckpoint, SkipCheckpoint, CommitClean, FinalizeWithoutCommit, CleanEnds, EndRun,
         SaveBasket, SaveEnds, CheckedSaveEnds, CompareFiles, ClearDirty, ClearRefused, ClearEnds
  <2>2. lock = "update" /\ update.by = "clean"
    BY <1>1, <2>1, LockTells
       DEF CleanEnds, EndUpdate, Updaters, RunInvariant, CopyInvariant, CheckpointTypeOK
  <2>3. /\ conn.manifest = update.manifest /\ ~update.manifest.dirty /\ run.pc = "cleaning"
    BY <1>1, <2>2 DEF RunInvariant, CopyInvariant, PublishedFromCopy, RunFacts, UpdateTells
  <2>4. disk' = update.manifest /\ UNCHANGED <<conn, files>>
    BY <2>1 DEF UpdateSucceeds, Published, CleanEnds, EndUpdate, deviceVars
  <2> QED
    BY <1>1, <2>3, <2>4, CleaningIsDone DEF RunInvariant
<1>2. RunInvariant /\ [Next]_vars
        => [outcome' = "complete" /\ outcome # "complete" =>
              /\ disk' = conn'.manifest /\ ~disk'.dirty
              /\ disk'.items = run.goal /\ run.goal \subseteq files']_vars
  BY <1>1
<1> QED
  BY <1>2, RunInvariantHolds, PTL DEF CheckpointSpec, CompleteMeansPublished

-----------------------------------------------------------------------------
(* Inside a publication: what ManifestStore promises for any number of     *)
(* publications, failed calls and crashes. What may be read after a loss   *)
(* of power is a set of manifests, Found: a step of a publication leaves   *)
(* it, adds the new manifest, or makes it the new manifest alone.          *)


\* What the next reader may find after a loss of power.
Found == {Read(d) : d \in Images}

Made == [version : 0..version, dirty : BOOLEAN]
Stages == {"idle", "begun", "written", "renamed", "published", "retired", "mirroring"}
\* The new manifest is in place as the programs see it, and as the medium holds it.
InPlace  == {"renamed", "published", "retired", "mirroring"}
OnMedium == {"published", "retired", "mirroring"}

StoreTypeOK ==
  /\ backend \in {"msc", "mtp"}
  /\ version \in 0..MaxVersions
  /\ dir \in [main : Made \cup {Absent}, legacy : Made \cup {Absent}]
  /\ medium \in [main : SUBSET (Made \cup {Absent}), legacy : SUBSET (Made \cup {Absent})]
  /\ mirror \in Made \cup {Torn}
  /\ mem \in Made
  /\ op \in [stage : Stages, kind : {"none", "update", "basket", "flush"},
             new : Made, old : Made, asked : Made, undo : BOOLEAN]
  /\ op.stage = "idle" <=> op = Idle
  /\ allowed \subseteq Made
  /\ working \in BOOLEAN
  /\ faults \in Nat

\* What the programs see is among what a loss of power may leave.
SeenIsPossible == dir.main \in medium.main /\ dir.legacy \in medium.legacy

\* How far the publication has brought its manifest.
StageTells ==
  /\ op # Idle => op.new \in allowed
  /\ op # Idle /\ ~op.undo => mem = op.new /\ op.asked = op.new
  /\ op.stage \in InPlace => dir.main = op.new
  /\ op.stage \in OnMedium => medium.main = {op.new}
  /\ op.stage \in {"begun", "written"} /\ ~op.undo => op.new \notin Found
  /\ op.undo => op.kind = "update" /\ op.stage # "mirroring"
  /\ op.undo /\ op.asked.dirty => op.old.dirty

\* The start of a sync is in the copy in memory, and in every copy that a publication may
\* put on the device or return to.
WorkIsMarked == working => mem.dirty /\ (op # Idle => op.new.dirty /\ op.old.dirty)

\* The same for the age of what the device holds.
MirrorIsOld ==
  mirror # Torn => /\ mem.version >= mirror.version
                   /\ op # Idle => /\ op.new.version >= mirror.version
                                   /\ op.old.version >= mirror.version

StoreInv ==
  /\ StoreTypeOK
  /\ SeenIsPossible
  /\ StageTells
  /\ WorkIsMarked
  /\ MirrorIsOld
  /\ CrashReadsAllowed
  /\ EvidenceSurvives
  /\ MirrorNotAhead

-----------------------------------------------------------------------------
(* What a loss of power may leave.                                         *)

LEMMA MadeIsNoMark ==
  ASSUME StoreTypeOK
  PROVE  Absent \notin Made /\ Torn \notin Made /\ Absent # Torn /\ First \in Made
BY StoreAssumption DEF StoreTypeOK, Made, Absent, Torn, First

\* The manifest that the programs see is one of those, and alone once the medium holds it.
LEMMA FoundIsOfMedium ==
  ASSUME StoreTypeOK, SeenIsPossible
  PROVE  /\ Read(dir) \in Found
         /\ \A m \in Made : medium.main = {m} => Found = {m}
         /\ \A m \in medium.main : m # Absent => m \in Found
<1>1. dir \in Images
  BY DEF StoreTypeOK, SeenIsPossible, Images
<1>2. ASSUME NEW m \in Made, medium.main = {m} PROVE Found = {m}
  BY <1>1, <1>2, MadeIsNoMark DEF Found, Images, Read
<1>3. ASSUME NEW m \in medium.main, m # Absent PROVE m \in Found
  <2>1. [main |-> m, legacy |-> dir.legacy] \in Images
    BY <1>1 DEF Images
  <2>2. QED BY <2>1, <1>3 DEF Found, Read
<1>4. QED BY <1>1, <1>2, <1>3 DEF Found

\* The invariants in terms of Found.
LEMMA PromisesOfFound ==
  /\ CrashReadsAllowed <=> Found \subseteq allowed
  /\ EvidenceSurvives <=> (working => \A m \in Found : m.dirty)
  /\ MirrorNotAhead <=> (mirror # Torn => \A m \in Found : m.version >= mirror.version)
BY DEF CrashReadsAllowed, EvidenceSurvives, MirrorNotAhead, Found

LEMMA PromisesOfFoundNext ==
  /\ CrashReadsAllowed' <=> Found' \subseteq allowed'
  /\ EvidenceSurvives' <=> (working' => \A m \in Found' : m.dirty)
  /\ MirrorNotAhead' <=> (mirror' # Torn => \A m \in Found' : m.version >= mirror'.version)
BY DEF CrashReadsAllowed, EvidenceSurvives, MirrorNotAhead, Found

LEMMA FoundIsMade ==
  ASSUME StoreTypeOK, CrashReadsAllowed
  PROVE  Found \subseteq Made /\ Absent \notin Found
BY PromisesOfFound, MadeIsNoMark DEF StoreTypeOK

-----------------------------------------------------------------------------
(* The invariant is inductive.                                             *)

LEMMA StoreInitInv == StoreInit => StoreInv
<1> SUFFICES ASSUME StoreInit PROVE StoreInv
  OBVIOUS
<1> USE DEF StoreInit
<1>1. StoreTypeOK
  <2>1. First \in Made
    BY DEF Made, First
  <2>2. dir \in [main : Made \cup {Absent}, legacy : Made \cup {Absent}]
    BY <2>1
  <2>3. medium \in [main : SUBSET (Made \cup {Absent}), legacy : SUBSET (Made \cup {Absent})]
    BY <2>2 DEF Synced
  <2>4. op \in [stage : Stages, kind : {"none", "update", "basket", "flush"},
                new : Made, old : Made, asked : Made, undo : BOOLEAN]
    BY <2>1 DEF Idle, Stages
  <2>5. op.stage = "idle" /\ op = Idle
    BY DEF Idle
  <2>6. version \in 0..MaxVersions /\ faults \in Nat
    BY StoreAssumption
  <2>7. backend \in {"msc", "mtp"} /\ mem \in Made /\ mirror \in Made /\ allowed \subseteq Made
    BY <2>1
  <2>8. working \in BOOLEAN
    OBVIOUS
  <2>9. QED BY <2>2, <2>3, <2>4, <2>5, <2>6, <2>7, <2>8 DEF StoreTypeOK
<1>2. SeenIsPossible
  BY DEF SeenIsPossible, Synced
<1>3. Found = {First}
  <2>1. dir = [main |-> dir.main, legacy |-> dir.legacy]
    BY <1>1 DEF StoreTypeOK
  <2>2. \A d : d \in Images <=> d = dir
    BY <2>1 DEF Images, Synced
  <2>3. Found = {Read(dir)}
    BY <2>2 DEF Found
  <2>4. First # Absent
    BY StoreAssumption DEF First, Absent
  <2>5. QED BY <2>3, <2>4 DEF Read
<1>4. StageTells /\ WorkIsMarked /\ MirrorIsOld
  BY DEF StageTells, WorkIsMarked, MirrorIsOld, Idle, First, InPlace, OnMedium
<1>5. CrashReadsAllowed /\ EvidenceSurvives /\ MirrorNotAhead
  BY <1>3, PromisesOfFound DEF First
<1>6. QED BY <1>1, <1>2, <1>4, <1>5 DEF StoreInv

\* A publication begins with a manifest that nobody has seen, that says of a sync what the
\* copy in memory says, and that is newer than everything on the device.
LEMMA BeginKeepsInv ==
  ASSUME StoreInv, NEW kind \in {"update", "basket", "flush"}, NEW dirty \in BOOLEAN,
         NEW ends \in BOOLEAN, working /\ ~ends => dirty, Begin(kind, dirty, ends)
  PROVE  StoreInv'
<1> DEFINE m == [version |-> version + 1, dirty |-> dirty]
<1> USE StoreAssumption DEF StoreInv, Begin
<1>1. StoreTypeOK'
  <2>1. m \in Made' /\ Made \subseteq Made'
    BY DEF StoreTypeOK, Made
  <2>2. op' \in [stage : Stages, kind : {"none", "update", "basket", "flush"},
                 new : Made', old : Made', asked : Made', undo : BOOLEAN]
    BY <2>1 DEF StoreTypeOK, Stages
  <2>3. op'.stage # "idle" /\ op' # Idle
    BY DEF Idle
  <2>4. QED BY <2>1, <2>2, <2>3 DEF StoreTypeOK, copies
<1>2. Found' = Found /\ SeenIsPossible'
  BY DEF Found, Images, SeenIsPossible, copies
<1>3. m \notin Found /\ \A n \in Made : n.version < m.version
  BY FoundIsMade DEF StoreTypeOK, Made
<1>4. StageTells'
  BY <1>2, <1>3 DEF StageTells, InPlace, OnMedium, Idle, copies
<1>5. WorkIsMarked'
  BY DEF WorkIsMarked
<1>6. MirrorIsOld'
  BY <1>3 DEF MirrorIsOld, StoreTypeOK, copies, Made
<1>7. CrashReadsAllowed' /\ EvidenceSurvives' /\ MirrorNotAhead'
  BY <1>2, PromisesOfFound, PromisesOfFoundNext DEF copies
<1>8. QED BY <1>1, <1>2, <1>4, <1>5, <1>6, <1>7

\* The stages up to the rename, on the two copies.
LEMMA StageOfOp ==
  ASSUME StoreTypeOK, NEW to \in Stages \ {"idle"}, op.stage # "idle",
         op' = [op EXCEPT !.stage = to]
  PROVE  /\ op' \in [stage : Stages, kind : {"none", "update", "basket", "flush"},
                     new : Made, old : Made, asked : Made, undo : BOOLEAN]
         /\ op' # Idle /\ op # Idle /\ op'.stage = to
         /\ op'.new = op.new /\ op'.old = op.old /\ op'.asked = op.asked
         /\ op'.undo = op.undo /\ op'.kind = op.kind
BY DEF StoreTypeOK, Idle

\* A step of a publication that goes on keeps the invariant, if what may be read is as it
\* was, or the new manifest too, or the new manifest alone once it is on the medium.
LEMMA GoingOnKeepsInv ==
  ASSUME StoreInv, NEW to \in Stages \ {"idle"}, op.stage # "idle",
         op' = [op EXCEPT !.stage = to], Still, UNCHANGED mirror,
         dir' \in [main : Made \cup {Absent}, legacy : Made \cup {Absent}],
         medium' \in [main : SUBSET (Made \cup {Absent}), legacy : SUBSET (Made \cup {Absent})],
         SeenIsPossible',
         Found' \subseteq Found \cup {op.new},
         to = "written" => Found' = Found /\ op.stage = "begun",
         to # "begun",
         to \in InPlace => dir'.main = op.new,
         to \in OnMedium => medium'.main = {op.new} /\ Found' = {op.new},
         to = "mirroring" => ~op.undo
  PROVE  StoreInv'
<1> USE DEF StoreInv, Still
<1>1. Made' = Made
  BY DEF Made
<1>2. StoreTypeOK'
  BY <1>1, StageOfOp DEF StoreTypeOK
<1>3. StageTells'
  BY StageOfOp DEF StageTells, InPlace, OnMedium, Stages
<1>4. WorkIsMarked' /\ MirrorIsOld'
  BY StageOfOp DEF WorkIsMarked, MirrorIsOld
<1>5. op.new \in allowed /\ (working => op.new.dirty)
      /\ (mirror # Torn => op.new.version >= mirror.version)
  BY StageOfOp DEF StageTells, WorkIsMarked, MirrorIsOld
<1>6. CrashReadsAllowed' /\ EvidenceSurvives' /\ MirrorNotAhead'
  BY <1>5, PromisesOfFound, PromisesOfFoundNext
<1>7. QED BY <1>2, <1>3, <1>4, <1>6

LEMMA WriteTemporaryKeepsInv ==
  ASSUME StoreInv, WriteTemporary
  PROVE  StoreInv'
<1>1. Found' = Found /\ SeenIsPossible'
  BY DEF StoreInv, WriteTemporary, copies, Found, Images, SeenIsPossible
<1>2. QED
  BY <1>1, GoingOnKeepsInv DEF StoreInv, StoreTypeOK, WriteTemporary, Goes, copies, Stages,
     InPlace, OnMedium

LEMMA RenameKeepsInv ==
  ASSUME StoreInv, Rename
  PROVE  StoreInv'
<1> USE DEF Rename, Goes, Renamed
<1>1. op.new \in Made /\ op.new # Absent
  BY MadeIsNoMark DEF StoreInv, StoreTypeOK
<1>2. /\ dir' \in [main : Made \cup {Absent}, legacy : Made \cup {Absent}]
      /\ medium' \in [main : SUBSET (Made \cup {Absent}), legacy : SUBSET (Made \cup {Absent})]
      /\ medium'.main = medium.main \cup {op.new} /\ medium'.legacy = medium.legacy
      /\ dir'.main = op.new /\ dir'.legacy = dir.legacy
  BY <1>1 DEF StoreInv, StoreTypeOK
<1>3. SeenIsPossible'
  BY <1>2 DEF StoreInv, SeenIsPossible
<1>4. Found' \subseteq Found \cup {op.new}
  <2>1. ASSUME NEW d \in Images' PROVE Read(d) \in Found \cup {op.new}
    <3>1. CASE d.main = op.new
      BY <3>1, <1>1 DEF Read
    <3>2. CASE d.main # op.new
      BY <3>2, <1>2, <2>1 DEF Images, Found
    <3>3. QED BY <3>1, <3>2
  <2>2. QED BY <2>1 DEF Found
<1>5. QED
  BY <1>2, <1>3, <1>4, GoingOnKeepsInv DEF Stages, InPlace, OnMedium

\* From here the new manifest is all that can be found.
LEMMA SyncPublishedKeepsInv ==
  ASSUME StoreInv, SyncPublished
  PROVE  StoreInv'
<1> USE DEF SyncPublished, Goes, Durable, Synced
<1>1. dir.main = op.new /\ op.new \in Made
  BY DEF StoreInv, StageTells, StoreTypeOK, InPlace
<1>2. medium' = [main |-> {op.new}, legacy |-> {dir.legacy}] /\ UNCHANGED dir
  BY <1>1
<1>3. medium' \in [main : SUBSET (Made \cup {Absent}), legacy : SUBSET (Made \cup {Absent})]
  BY <1>1, <1>2 DEF StoreInv, StoreTypeOK
<1>4. SeenIsPossible'
  BY <1>1, <1>2 DEF SeenIsPossible
<1>5. Found' = {op.new}
  <2>1. dir \in Images'
    BY <1>1, <1>2 DEF StoreInv, StoreTypeOK, Images
  <2>2. QED
    BY <2>1, <1>1, <1>2, MadeIsNoMark DEF StoreInv, Found, Images, Read
<1>6. QED
  BY <1>1, <1>2, <1>3, <1>4, <1>5, GoingOnKeepsInv
     DEF StoreInv, StoreTypeOK, Stages, InPlace, OnMedium

LEMMA RetireLegacyKeepsInv ==
  ASSUME StoreInv, RetireLegacy
  PROVE  StoreInv'
<1> USE DEF RetireLegacy, Goes
<1>1. /\ medium.main = {op.new} /\ dir.main = op.new
      /\ op.new \in Made /\ op.new # Absent
  BY MadeIsNoMark DEF StoreInv, StageTells, StoreTypeOK, OnMedium, InPlace
<1>2. /\ dir' \in [main : Made \cup {Absent}, legacy : Made \cup {Absent}]
      /\ medium' \in [main : SUBSET (Made \cup {Absent}), legacy : SUBSET (Made \cup {Absent})]
      /\ medium'.main = {op.new} /\ dir'.main = op.new
      /\ dir'.legacy = Absent /\ Absent \in medium'.legacy
  BY <1>1 DEF StoreInv, StoreTypeOK
<1>3. SeenIsPossible'
  BY <1>2 DEF SeenIsPossible
<1>4. Found' = {op.new}
  <2>1. dir' \in Images'
    BY <1>2 DEF Images
  <2>2. QED BY <2>1, <1>1, <1>2 DEF Found, Images, Read
<1>5. QED
  BY <1>1, <1>2, <1>3, <1>4, GoingOnKeepsInv DEF Stages, InPlace, OnMedium

\* The end of a publication: its manifest is all that can be found, and the copy in memory
\* is this one or the evidence that was put back.
LEMMA AcknowledgeKeepsInv ==
  ASSUME StoreInv, op.stage \in OnMedium, Acknowledge,
         UNCHANGED <<backend, dir, version, faults>>,
         medium' \in [main : SUBSET (Made \cup {Absent}), legacy : SUBSET (Made \cup {Absent})],
         SeenIsPossible', Found' = {op.new},
         mirror' = mirror \/ mirror' = Torn \/ (~op.undo /\ mirror' = op.new)
  PROVE  StoreInv'
<1> USE DEF StoreInv, Acknowledge
<1>1. /\ op # Idle /\ op.new \in Made /\ op.old \in Made /\ op.new \in allowed
      /\ op.undo \in BOOLEAN /\ op'.stage = "idle" /\ op' = Idle
      /\ ~op.undo => mem = op.new
  BY DEF StoreTypeOK, StageTells, OnMedium, Idle
<1>2. Made' = Made
  BY DEF Made
<1>3. op' \in [stage : Stages, kind : {"none", "update", "basket", "flush"},
               new : Made, old : Made, asked : Made, undo : BOOLEAN]
  BY <1>1, MadeIsNoMark DEF Idle, Stages
<1>4. StoreTypeOK'
  BY <1>1, <1>2, <1>3 DEF StoreTypeOK, Made
<1>5. StageTells'
  BY DEF StageTells, Idle, InPlace, OnMedium
<1>6. WorkIsMarked'
  BY <1>1 DEF WorkIsMarked, Made
<1>7. MirrorIsOld' /\ (mirror' # Torn => op.new.version >= mirror'.version)
  BY <1>1 DEF MirrorIsOld, Made
<1>8. working' => op.new.dirty
  BY <1>1 DEF WorkIsMarked
<1>9. CrashReadsAllowed' /\ EvidenceSurvives' /\ MirrorNotAhead'
  BY <1>1, <1>7, <1>8, PromisesOfFoundNext
<1>10. QED BY <1>4, <1>5, <1>6, <1>7, <1>9

LEMMA SyncRetiredKeepsInv ==
  ASSUME StoreInv, SyncRetired
  PROVE  StoreInv'
<1> USE DEF SyncRetired, Durable, Synced
<1>1. op.stage \in OnMedium /\ dir.main = op.new /\ op.new \in Made /\ op.undo \in BOOLEAN
  BY DEF StoreInv, StageTells, StoreTypeOK, InPlace, OnMedium
<1>2. medium' = [main |-> {op.new}, legacy |-> {dir.legacy}] /\ UNCHANGED dir
  BY <1>1
<1>3. medium' \in [main : SUBSET (Made \cup {Absent}), legacy : SUBSET (Made \cup {Absent})]
  BY <1>1, <1>2 DEF StoreInv, StoreTypeOK
<1>4. SeenIsPossible'
  BY <1>1, <1>2 DEF SeenIsPossible
<1>5. Found' = {op.new}
  <2>1. dir \in Images'
    BY <1>1, <1>2 DEF StoreInv, StoreTypeOK, Images
  <2>2. QED
    BY <2>1, <1>1, <1>2, MadeIsNoMark DEF StoreInv, Found, Images, Read
<1>6. CASE backend = "mtp" /\ ~op.undo
  BY <1>1, <1>2, <1>3, <1>4, <1>5, <1>6, GoingOnKeepsInv
     DEF StoreInv, StoreTypeOK, Stages, InPlace, OnMedium, Still
<1>7. CASE ~(backend = "mtp" /\ ~op.undo)
  BY <1>1, <1>3, <1>4, <1>5, <1>7, AcknowledgeKeepsInv
<1>8. QED BY <1>6, <1>7

LEMMA EndKeepsInv ==
  ASSUME StoreInv, Mirror \/ Restored
  PROVE  StoreInv'
<1>1. op.stage \in OnMedium /\ UNCHANGED <<dir, medium>>
  BY DEF Mirror, Restored, OnMedium, copies
<1>2. Found' = Found /\ SeenIsPossible'
  BY <1>1 DEF StoreInv, Found, Images, SeenIsPossible
<1>3. Found = {op.new}
  BY <1>1, FoundIsOfMedium DEF StoreInv, StageTells, StoreTypeOK
<1>4. mirror' = mirror \/ mirror' = Torn \/ (~op.undo /\ mirror' = op.new)
  BY DEF Mirror, Restored, StoreInv, StageTells, StoreTypeOK, copies
<1>5. QED
  BY <1>1, <1>2, <1>3, <1>4, AcknowledgeKeepsInv
     DEF Mirror, Restored, StoreInv, StoreTypeOK, copies

-----------------------------------------------------------------------------
(* Failures.                                                               *)

\* What is put back after a failed update says of a sync what either manifest said.
LEMMA EvidenceIsMade ==
  ASSUME StoreTypeOK, op # Idle
  PROVE  /\ Evidence \in Made
         /\ Evidence.version = op.old.version
         /\ op.old.dirty \/ op.new.dirty => Evidence.dirty
BY DEF StoreTypeOK, Evidence, Made

LEMMA FailCallKeepsInv ==
  ASSUME StoreInv, FailCall
  PROVE  StoreInv'
<1> USE DEF StoreInv
<1>1. /\ Found' = Found /\ SeenIsPossible'
      /\ UNCHANGED <<backend, dir, medium, mirror, version, working>>
      /\ faults' \in Nat
  BY DEF FailCall, copies, Found, Images, SeenIsPossible, StoreTypeOK
<1>2. op # Idle /\ op.stage # "mirroring" /\ op.stage # "idle"
  BY DEF FailCall, Visible, Idle
<1>3. Made' = Made
  BY <1>1 DEF Made
<1>4. allowed \subseteq allowed'
  BY DEF FailCall
<1>5. CrashReadsAllowed' /\ EvidenceSurvives' /\ MirrorNotAhead'
  BY <1>1, <1>4, PromisesOfFound, PromisesOfFoundNext
<1>6. CASE op.kind = "update" /\ Visible /\ ~op.undo
  <2>1. /\ op' = [op EXCEPT !.stage = "begun", !.new = Evidence, !.old = Evidence,
                            !.undo = TRUE]
        /\ allowed' = allowed \cup {Evidence} /\ mem' = mem
    BY <1>6 DEF FailCall
  <2>2. /\ op' \in [stage : Stages, kind : {"none", "update", "basket", "flush"},
                    new : Made, old : Made, asked : Made, undo : BOOLEAN]
        /\ op'.stage = "begun" /\ op'.new = Evidence /\ op'.old = Evidence
        /\ op'.undo = TRUE /\ op'.asked = op.asked /\ op'.kind = "update"
    BY <1>2, <1>6, <2>1, EvidenceIsMade DEF StoreTypeOK, Stages
  <2>3. StoreTypeOK'
    BY <1>1, <1>2, <1>3, <2>1, <2>2, EvidenceIsMade DEF StoreTypeOK, Idle
  <2>4. op.asked = op.new
    BY <1>2, <1>6 DEF StageTells
  <2>5. StageTells'
    BY <1>2, <2>1, <2>2, <2>4, EvidenceIsMade DEF StageTells, InPlace, OnMedium
  <2>6. WorkIsMarked' /\ MirrorIsOld'
    BY <1>1, <1>2, <2>1, <2>2, EvidenceIsMade DEF WorkIsMarked, MirrorIsOld
  <2>7. QED BY <1>1, <1>5, <2>3, <2>5, <2>6
<1>7. CASE ~(op.kind = "update" /\ Visible /\ ~op.undo)
  <2>1. op' = Idle /\ allowed' = allowed /\ (mem' = mem \/ mem' = op.old)
    BY <1>7 DEF FailCall
  <2>2. StoreTypeOK'
    BY <1>1, <1>3, <2>1, MadeIsNoMark DEF StoreTypeOK, Idle, Stages
  <2>3. StageTells'
    BY <2>1 DEF StageTells, Idle, InPlace, OnMedium
  <2>4. WorkIsMarked' /\ MirrorIsOld'
    BY <1>1, <1>2, <2>1 DEF WorkIsMarked, MirrorIsOld
  <2>5. QED BY <1>1, <1>5, <2>2, <2>3, <2>4
<1>8. QED BY <1>6, <1>7

\* Whoever reads the device again starts from a manifest that was found.
LEMMA ReopenKeepsInv ==
  ASSUME StoreInv, DaemonEnds \/ LosePower
  PROVE  StoreInv'
<1> USE DEF StoreInv
<1>1. PICK d \in Images : /\ Reopen(d)
                          /\ \/ d = dir /\ UNCHANGED <<medium, allowed>>
                             \/ medium' = Synced(d) /\ allowed' = {Read(d)}
  BY DEF DaemonEnds, LosePower, StoreTypeOK, SeenIsPossible, Images
<1>2. Read(d) \in Found /\ Read(d) \in Made /\ mem' = Read(d) /\ op' = Idle /\ dir' = d
  BY <1>1, FoundIsMade DEF Found, Reopen
<1>3. d \in [main : Made \cup {Absent}, legacy : Made \cup {Absent}]
  BY DEF StoreTypeOK, Images
<1>4. Made' = Made /\ UNCHANGED <<backend, version, working>> /\ faults' \in Nat
      /\ mirror' \in {mirror, Torn}
  BY <1>1 DEF Made, Reopen, StoreTypeOK
<1>5. Read(d) \in allowed
  BY <1>2, PromisesOfFound
<1>6. SeenIsPossible' /\ Found' \subseteq Found /\ Found' \subseteq allowed'
  <2>1. CASE d = dir /\ UNCHANGED <<medium, allowed>>
    BY <1>2, <2>1, PromisesOfFound DEF SeenIsPossible, Found, Images
  <2>2. CASE medium' = Synced(d) /\ allowed' = {Read(d)}
    <3>1. d = [main |-> d.main, legacy |-> d.legacy]
      BY <1>3
    <3>2. \A e : e \in Images' <=> e = d
      BY <2>2, <3>1 DEF Images, Synced
    <3>3. QED BY <1>2, <2>2, <3>2 DEF SeenIsPossible, Found, Synced
  <2>3. QED BY <1>1, <2>1, <2>2
<1>7. StoreTypeOK'
  <2>1. medium' \in [main : SUBSET (Made \cup {Absent}), legacy : SUBSET (Made \cup {Absent})]
    BY <1>1, <1>3 DEF StoreTypeOK, Synced
  <2>2. allowed' \subseteq Made
    BY <1>1, <1>2 DEF StoreTypeOK
  <2>3. QED BY <1>2, <1>3, <1>4, <2>1, <2>2, MadeIsNoMark DEF StoreTypeOK, Idle, Stages
<1>8. StageTells'
  BY <1>2 DEF StageTells, Idle, InPlace, OnMedium
<1>9. WorkIsMarked' /\ MirrorIsOld'
  BY <1>2, <1>4, PromisesOfFound DEF WorkIsMarked, MirrorIsOld
<1>10. CrashReadsAllowed' /\ EvidenceSurvives' /\ MirrorNotAhead'
  BY <1>4, <1>6, PromisesOfFound, PromisesOfFoundNext
<1>11. QED BY <1>6, <1>7, <1>8, <1>9, <1>10

LEMMA StoreStepKeepsInv == StoreInv /\ [StoreNext]_storeVars => StoreInv'
<1> SUFFICES ASSUME StoreInv, [StoreNext]_storeVars PROVE StoreInv'
  OBVIOUS
<1>1. CASE Update
  <2>1. PICK dirty \in BOOLEAN : Begin("update", dirty, ~dirty)
    BY <1>1 DEF Update
  <2>2. QED BY <2>1, BeginKeepsInv
<1>2. CASE UpdateBasket
  <2>1. mem.dirty \in BOOLEAN /\ (working => mem.dirty)
    BY DEF StoreInv, StoreTypeOK, Made, WorkIsMarked
  <2>2. QED BY <1>2, <2>1, BeginKeepsInv DEF UpdateBasket
<1>3. CASE Flush
  <2>1. PICK dirty \in BOOLEAN : (mem.dirty => dirty) /\ Begin("flush", dirty, FALSE)
    BY <1>3 DEF Flush
  <2>2. working => dirty
    BY <2>1 DEF StoreInv, WorkIsMarked
  <2>3. QED BY <2>1, <2>2, BeginKeepsInv
<1>4. CASE WriteTemporary BY <1>4, WriteTemporaryKeepsInv
<1>5. CASE Rename         BY <1>5, RenameKeepsInv
<1>6. CASE SyncPublished  BY <1>6, SyncPublishedKeepsInv
<1>7. CASE RetireLegacy   BY <1>7, RetireLegacyKeepsInv
<1>8. CASE SyncRetired    BY <1>8, SyncRetiredKeepsInv
<1>9. CASE Mirror \/ Restored BY <1>9, EndKeepsInv
<1>10. CASE FailCall      BY <1>10, FailCallKeepsInv
<1>11. CASE DaemonEnds \/ LosePower BY <1>11, ReopenKeepsInv
<1>12. CASE UNCHANGED storeVars
  BY <1>12 DEF storeVars, copies, StoreInv, StoreTypeOK, Made, SeenIsPossible, StageTells,
     Found, Images, WorkIsMarked, MirrorIsOld, CrashReadsAllowed, EvidenceSurvives,
     MirrorNotAhead
<1>13. QED
  BY <1>1, <1>2, <1>3, <1>4, <1>5, <1>6, <1>7, <1>8, <1>9, <1>10, <1>11, <1>12
     DEF StoreNext

\* The invariant holds of any number of publications, failed calls and crashes.
THEOREM StoreInvariant == StoreSpec => []StoreInv
BY StoreInitInv, StoreStepKeepsInv, PTL DEF StoreSpec

\* A loss of power at any moment leaves a manifest: the last one acknowledged, or one whose
\* publication was asked for since; never a torn file, and never the old name's content
\* behind a newer one (replace_verified_file, sync_manifest_directory, read_local_manifest).
THEOREM CrashesAreReadable == StoreSpec => []CrashReadsAllowed
BY StoreInvariant, PTL DEF StoreInv

\* From the acknowledged start of a sync until its end is asked for, everything that a crash
\* can leave says that the sync had begun (update_manifest_checked_result).
THEOREM EvidenceIsDurable == StoreSpec => []EvidenceSurvives
BY StoreInvariant, PTL DEF StoreInv

\* The copy on an MTP device is never ahead of the cache that is read after a crash.
THEOREM MirrorFollowsCache == StoreSpec => []MirrorNotAhead
BY StoreInvariant, PTL DEF StoreInv

\* When an update that wanted the dirty flag ends as failed, and a crash may all the same
\* leave what it wanted, the copy in memory has the flag.
LEMMA FailureStep ==
  ASSUME StoreInv, StoreInv', [StoreNext]_storeVars,
         op.kind = "update", op' = Idle, mem' = op.old, op.asked.dirty
  PROVE  \A d \in Images' : Read(d) = op.asked => mem'.dirty
<1> USE DEF StoreInv
<1>1. op # Idle /\ op.undo \in BOOLEAN /\ op.stage # "idle"
  BY DEF Idle, StoreTypeOK
<1>2. CASE op.undo
  BY <1>1, <1>2 DEF StageTells
<1>3. CASE ~op.undo /\ mem' = mem
  BY <1>1, <1>3 DEF StageTells
<1>4. CASE FailCall /\ ~op.undo /\ mem' # mem
  <2>1. op.stage \in {"begun", "written"} /\ Images' = Images
    BY <1>1, <1>4 DEF FailCall, Visible, Idle, copies, Images
  <2>2. op.asked \notin Found
    BY <1>1, <1>4, <2>1 DEF StageTells
  <2>3. QED BY <2>1, <2>2 DEF Found
<1>5. CASE DaemonEnds
  <2>1. mem' = Read(dir) /\ Images' = Images /\ Read(dir) \in Found
    BY <1>5, FoundIsOfMedium DEF DaemonEnds, Reopen, Images
  <2>2. CASE op.stage \in {"begun", "written"} /\ ~op.undo
    <3>1. op.asked \notin Found
      BY <1>1, <2>2 DEF StageTells
    <3>2. QED BY <2>1, <3>1 DEF Found
  <2>3. CASE op.stage \in InPlace /\ ~op.undo
    <3>1. Read(dir) = op.asked
      BY <1>1, <2>3, MadeIsNoMark DEF StageTells, StoreTypeOK, Read
    <3>2. QED BY <2>1, <3>1
  <2>4. QED BY <1>1, <1>2, <2>2, <2>3 DEF StoreTypeOK, Stages, InPlace
<1>6. CASE LosePower
  <2>1. PICK d \in Images : mem' = Read(d) /\ Found' = {Read(d)}
    <3>1. PICK d \in Images : Reopen(d) /\ medium' = Synced(d)
      BY <1>6 DEF LosePower
    <3>2. d = [main |-> d.main, legacy |-> d.legacy]
      BY DEF Images
    <3>3. \A e : e \in Images' <=> e = d
      BY <3>1, <3>2 DEF Images, Synced
    <3>4. QED BY <3>1, <3>3 DEF Found, Reopen
  <2>2. QED BY <2>1 DEF Found
<1>7. CASE UNCHANGED storeVars
  BY <1>1, <1>7 DEF storeVars
<1>8. QED
  <2>1. ~Update /\ ~UpdateBasket /\ ~Flush
    BY <1>1 DEF Update, UpdateBasket, Flush, Begin
  <2>2. WriteTemporary \/ Rename \/ SyncPublished \/ RetireLegacy => FALSE
    BY <1>1 DEF WriteTemporary, Rename, SyncPublished, RetireLegacy, Goes, Idle, StoreTypeOK
  <2>3. SyncRetired \/ Mirror \/ Restored => op.undo \/ mem' = mem
    BY <1>1 DEF SyncRetired, Mirror, Restored, Acknowledge
  <2>4. QED
    BY <1>1, <1>2, <1>3, <1>4, <1>5, <1>6, <1>7, <2>1, <2>2, <2>3 DEF StoreNext

\* A failed update never leaves a clean copy in memory over a device that may say otherwise.
THEOREM FailuresKeepEvidence == StoreSpec => FailureKeepsEvidence
<1>1. StoreInv /\ StoreInv' /\ [StoreNext]_storeVars =>
        [(op.kind = "update" /\ op' = Idle /\ mem' = op.old /\ op.asked.dirty)
           => \A d \in Images' : Read(d) = op.asked => mem'.dirty]_storeVars
  BY FailureStep
<1>2. QED BY <1>1, StoreInvariant, PTL DEF StoreSpec, FailureKeepsEvidence
=============================================================================
