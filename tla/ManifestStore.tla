---------------------------- MODULE ManifestStore ----------------------------
(***************************************************************************)
(* How the manifest of a device reaches its file system, and what is read  *)
(* there after a crash (device/mod.rs, device_io.rs). The file of a        *)
(* mass-storage device, or the cache of an MTP device, is replaced by a    *)
(* renamed temporary, whose directory entry is durable only once the       *)
(* directory is synced; the JSON file of older versions is retired         *)
(* afterwards. A failure after the rename is uncertain: an update then     *)
(* publishes what it had replaced.                                         *)
(* ManifestCheckpoint has a publication as one step: this is its inside,   *)
(* one at a time as the commit lock orders them. Directories are synced,   *)
(* as on unix, and a rename is atomic, as a journaled file system has it.  *)
(***************************************************************************)
EXTENDS Naturals

CONSTANTS
  MaxVersions,  \* bound on the manifests that are published
  MaxFaults     \* bound on failed calls, losses of power and ends of the daemon

ASSUME StoreAssumption == MaxVersions \in Nat /\ MaxFaults \in Nat

VARIABLES
  backend,  \* "msc" or "mtp"
  dir,      \* the two files, as the programs see them
  medium,   \* for each of them, what a loss of power may leave
  mirror,   \* the copy on an MTP device
  mem,      \* ConnectedDevice.manifest
  op,       \* the publication under way
  version,  \* how many manifests have been made
  allowed,  \* history: the manifests the next reader may find
  working,  \* history: a sync was acknowledged as begun and has not asked to end
  faults

copies == <<dir, medium, mirror>>
storeVars == <<backend, copies, mem, op, version, allowed, working, faults>>

First  == [version |-> 0, dirty |-> FALSE]
Absent == [version |-> MaxVersions + 1, dirty |-> FALSE]
Torn   == [version |-> MaxVersions + 2, dirty |-> FALSE]
Idle == [stage |-> "idle", kind |-> "none", new |-> First, old |-> First,
         asked |-> First, undo |-> FALSE]

\* read_local_manifest, and the probe of a device: the old name is read when the new one is
\* absent, never when it cannot be decoded.
Read(d) == IF d.main # Absent THEN d.main ELSE d.legacy

Images == [main : medium.main, legacy : medium.legacy]
Synced(d) == [main |-> {d.main}, legacy |-> {d.legacy}]

StoreInit ==
  /\ backend \in {"msc", "mtp"}
  /\ dir \in {[main |-> Absent, legacy |-> First], [main |-> First, legacy |-> Absent]}
  /\ medium = Synced(dir) /\ mirror = First
  /\ mem = First /\ op = Idle /\ version = 0
  /\ allowed = {First} /\ working = FALSE /\ faults = 0

----------------------------------------------------------------------------
(* A publication. The stage names what has been done last.                 *)

Begin(kind, dirty, ends) ==
  LET m == [version |-> version + 1, dirty |-> dirty] IN
  /\ op = Idle /\ version < MaxVersions
  /\ version' = version + 1
  /\ mem' = m
  /\ op' = [stage |-> "begun", kind |-> kind, new |-> m, old |-> mem, asked |-> m,
            undo |-> FALSE]
  /\ allowed' = allowed \cup {m}
  /\ working' = (working /\ ~ends)
  /\ UNCHANGED <<backend, copies, faults>>

\* update_manifest_*: any change, rolled back when it cannot be published.
Update == \E dirty \in BOOLEAN : Begin("update", dirty, ~dirty)
\* update_basket_checked: the flag stays, and so does the basket if the outcome is uncertain.
UpdateBasket == Begin("basket", mem.dirty, FALSE)
\* The checkpoint of a sync, and what the arrival of a device repairs, which may raise the
\* flag: the changes stay in memory whatever becomes of it.
Flush == \E dirty \in BOOLEAN : (mem.dirty => dirty) /\ Begin("flush", dirty, FALSE)

\* Slip: as where a directory cannot be opened.
DurableNever(d) == medium

\* sync_manifest_directory.
Durable(d) == Synced(d)

Goes(from, to) == op.stage = from /\ op' = [op EXCEPT !.stage = to]
Still == UNCHANGED <<backend, mem, version, allowed, working, faults>>

\* Slip: it is not synced.
RenamedUnsynced(m) == {m, Torn}

\* The temporary is written, and synced before it is renamed.
Renamed(m) == {m}
WriteTemporary == Goes("begun", "written") /\ UNCHANGED copies /\ Still

Rename ==
  /\ Goes("written", "renamed")
  /\ dir' = [dir EXCEPT !.main = op.new]
  /\ medium' = [medium EXCEPT !.main = @ \cup Renamed(op.new)]
  /\ UNCHANGED mirror /\ Still

\* A mass-storage device is read back first.
SyncPublished ==
  /\ Goes("renamed", "published")
  /\ medium' = Durable(dir) /\ UNCHANGED <<dir, mirror>> /\ Still

\* Evidence put back on a mass-storage device does not retire the old file.
Retires == ~(op.undo /\ backend = "msc")
RetireLegacy ==
  /\ Retires
  /\ Goes("published", "retired")
  /\ dir' = [dir EXCEPT !.legacy = Absent]
  /\ medium' = [medium EXCEPT !.legacy = @ \cup {Absent}]
  /\ UNCHANGED mirror /\ Still

\* The publication ends. The caller of a failed update puts the copy in memory back.
Acknowledge ==
  /\ op' = Idle
  /\ mem' = IF op.undo THEN op.old ELSE mem
  /\ allowed' = IF op.undo THEN allowed ELSE {op.new}
  /\ working' = IF op.undo THEN working ELSE working \/ op.new.dirty

SyncRetired ==
  /\ op.stage = "retired"
  /\ medium' = Durable(dir)
  /\ IF backend = "mtp" /\ ~op.undo
     THEN op' = [op EXCEPT !.stage = "mirroring"] /\ UNCHANGED <<mem, allowed, working>>
     ELSE Acknowledge
  /\ UNCHANGED <<backend, dir, mirror, version, faults>>

\* The device gets its copy once the cache is durable; its errors are ignored.
Mirror ==
  /\ op.stage = "mirroring"
  /\ mirror' \in {op.new, mirror, Torn}
  /\ Acknowledge
  /\ UNCHANGED <<backend, dir, medium, version, faults>>

\* Evidence is back on a mass-storage device.
Restored ==
  /\ op.stage = "published" /\ ~Retires
  /\ Acknowledge
  /\ UNCHANGED <<backend, copies, version, faults>>

----------------------------------------------------------------------------
(* Failures.                                                               *)

\* Slip: the flag of the update is forgotten.
EvidenceOfOldOnly == op.old

\* What is put back: what was replaced, with the flag of either. An MTP cache is marked
\* in any case.
Evidence == [op.old EXCEPT !.dirty = @ \/ op.new.dirty \/ backend = "mtp"]

Visible == op.stage \in {"renamed", "published", "retired"}
\* The changes of a checkpoint, and a basket that may have been published, stay in memory.
Kept == op.kind = "flush" \/ (op.kind = "basket" /\ (backend = "msc" \/ Visible))

FailCall ==
  /\ op.stage \in {"begun", "written"} \/ Visible
  /\ faults < MaxFaults /\ faults' = faults + 1
  /\ IF op.kind = "update" /\ Visible /\ ~op.undo
     THEN /\ op' = [op EXCEPT !.stage = "begun", !.new = Evidence, !.old = Evidence,
                              !.undo = TRUE]
          /\ allowed' = allowed \cup {Evidence}
          /\ UNCHANGED mem
     ELSE /\ op' = Idle /\ mem' = IF Kept THEN mem ELSE op.old
          /\ UNCHANGED allowed
  /\ UNCHANGED <<backend, copies, version, working>>

\* The daemon ends, or the device is unplugged, and the manifest is read again. The copy on
\* an MTP device may be half written.
Reopen(d) ==
  /\ faults < MaxFaults /\ faults' = faults + 1
  /\ dir' = d
  /\ mem' = Read(d) /\ op' = Idle
  /\ mirror' \in IF op.stage = "mirroring" THEN {mirror, Torn} ELSE {mirror}
  /\ UNCHANGED <<backend, version, working>>

DaemonEnds == Reopen(dir) /\ UNCHANGED <<medium, allowed>>
LosePower  == \E d \in Images : Reopen(d) /\ medium' = Synced(d) /\ allowed' = {Read(d)}

StoreNext ==
  \/ Update \/ UpdateBasket \/ Flush
  \/ WriteTemporary \/ Rename \/ SyncPublished \/ RetireLegacy \/ SyncRetired \/ Mirror
  \/ Restored
  \/ FailCall \/ DaemonEnds \/ LosePower

StoreSpec == StoreInit /\ [][StoreNext]_storeVars

----------------------------------------------------------------------------
(* Properties.                                                             *)

\* Whenever power is lost, the next reader finds a manifest: the last one acknowledged, or
\* one whose publication was asked for since. It never finds a torn file, none, or the file
\* of an older version behind the one that has replaced it.
CrashReadsAllowed == \A d \in Images : Read(d) \in allowed

\* Once the start of a sync has been acknowledged, and until its end is asked for, every
\* crash leaves a manifest that says so, whatever was saved, flushed or failed in between:
\* a half-transferred device is never read as clean.
EvidenceSurvives == working => \A d \in Images : Read(d).dirty

\* An update that fails, and may all the same be read after a crash as begun, leaves a copy
\* in memory that says so too.
FailureKeepsEvidence ==
  [][ (op.kind = "update" /\ op' = Idle /\ mem' = op.old /\ op.asked.dirty)
        => \A d \in Images' : Read(d) = op.asked => mem'.dirty ]_storeVars

\* The copy on an MTP device is never newer than what a crash leaves of the cache: the cache
\* is what is read, and the device does not claim an end that the cache may not know of.
MirrorNotAhead == mirror # Torn => \A d \in Images : Read(d).version >= mirror.version
=============================================================================
