-------------------------- MODULE OperationsProofs --------------------------
(***************************************************************************)
(* The safety properties of Operations for any number of operations,      *)
(* devices and connections. OperationsInvariant is inductive: it adds to   *)
(* the checked invariants what the run, the removal handler and the        *)
(* finalizer know while they are between two steps. The second part is     *)
(* about the inside of a transfer, SyncStaging.                            *)
(***************************************************************************)
EXTENDS Operations, SyncStaging, FiniteSetTheorems, SequenceTheorems, TLAPS

\* What a run knows about its operation at each stage.
RunOwnsRecord ==
  /\ run.stage # "idle" => run.device \in Devices
  /\ run.stage \notin {"idle", "prepared"} => run.op \in Ops
  /\ run.stage \in (Attached \ {"prepared"}) \cup Detached =>
       /\ status[run.op] \in {"running", "failed"}
       /\ target[run.op] = run.device
  /\ run.stage \in {"committing", "publishing"} => status[run.op] = "running"
  /\ run.stage = "committing" => ~run.errors /\ ~run.cancelled
  /\ snapshot => run.stage = "transferring"

\* A record that exists has a device, and only such records are victims.
RecordsHaveDevices ==
  /\ \A o \in Ops : status[o] # "absent" => target[o] \in Devices
  /\ removal.stage # "idle" => removal.device \in Devices
  /\ \A o \in removal.victims : status[o] # "absent"
  /\ removal.stage = "updating" => removal.victim \in Ops /\ status[removal.victim] # "absent"

\* A running operation is on a connected device, or the removal handler still
\* has it ahead of itself.
RemovalWillFail(o) ==
  /\ removal.stage # "idle"
  /\ removal.device = target[o]
  /\ \/ removal.stage = "listing"
     \/ o \in removal.victims
     \/ removal.stage = "updating" /\ removal.victim = o

RunningIsConnectedOrDoomed ==
  \A o \in RunningOps : connected[target[o]] \/ RemovalWillFail(o)

\* An early cancellation has set the token, and the finalizer has seen it.
EarlyIsSeen ==
  /\ \A o \in early : token[o] /\ status[o] \notin {"absent", "complete"}
  /\ gate = "run" /\ run.op \in early => run.errors \/ run.cancelled

\* The device of a run past its dirty mark bears that mark, and what the flag
\* says is what the finalizer is about to publish.
MarkOfRun ==
  /\ \A d \in Devices : marker[d] # NoOp =>
       status[marker[d]] # "absent" /\ target[marker[d]] = d
  /\ run.stage \in {"marked"} \cup Detached => marker[run.device] = run.op
  /\ run.stage = "committing" => dirty[run.device] \/ repaired[run.device]
  /\ run.stage = "publishing" =>
       IF Outcome = "complete" THEN ~dirty[run.device]
                               ELSE dirty[run.device] \/ repaired[run.device]

OperationsInvariant ==
  /\ OperationsTypeOK
  /\ RunOwnsRecord
  /\ RecordsHaveDevices
  /\ RunningIsConnectedOrDoomed
  /\ EarlyIsSeen
  /\ CommittedQuitReachesEveryOperation
  /\ MarkOfRun
  /\ EvidenceMatchesOutcome

----------------------------------------------------------------------------
(* Types.                                                                  *)

\* What the actions do to the run record keeps its type.
LEMMA RunUpdates ==
  /\ NoRun \in Runs
  /\ \A r \in Runs, s \in Stages : [r EXCEPT !.stage = s] \in Runs
  /\ \A r \in Runs, s \in Stages, o \in Ops : [r EXCEPT !.stage = s, !.op = o] \in Runs
  /\ \A r \in Runs, s \in Stages, e \in BOOLEAN :
       [r EXCEPT !.stage = s, !.errors = e] \in Runs
  /\ \A r \in Runs, s \in Stages, e \in BOOLEAN, c \in BOOLEAN :
       [r EXCEPT !.stage = s, !.errors = e, !.cancelled = c] \in Runs
  /\ \A k \in {"execute", "auto"}, d \in Devices, c \in 0..MaxConnections :
       [NoRun EXCEPT !.stage = "prepared", !.kind = k, !.device = d,
                     !.connection = c] \in Runs
<1> USE OperationsAssumption DEF Runs
<1>1. NoRun \in Runs
  BY DEF NoRun, Stages
<1>2. \A r \in Runs, s \in Stages : [r EXCEPT !.stage = s] \in Runs
  OBVIOUS
<1>3. \A r \in Runs, s \in Stages, o \in Ops : [r EXCEPT !.stage = s, !.op = o] \in Runs
  OBVIOUS
<1>4. \A r \in Runs, s \in Stages, e \in BOOLEAN :
        [r EXCEPT !.stage = s, !.errors = e] \in Runs
  OBVIOUS
<1>5. \A r \in Runs, s \in Stages, e \in BOOLEAN, c \in BOOLEAN :
        [r EXCEPT !.stage = s, !.errors = e, !.cancelled = c] \in Runs
  OBVIOUS
<1>6. \A k \in {"execute", "auto"}, d \in Devices, c \in 0..MaxConnections :
        [NoRun EXCEPT !.stage = "prepared", !.kind = k, !.device = d,
                      !.connection = c] \in Runs
  BY DEF NoRun, Stages, Attached
<1> QED
  BY <1>1, <1>2, <1>3, <1>4, <1>5, <1>6

\* The names of the stages.
LEMMA StageNames ==
  /\ Attached \subseteq Stages
  /\ Detached \subseteq Stages
  /\ {"idle", "prepared", "admitted", "marked", "rejecting", "transferring", "failing",
      "finalizing", "committing", "publishing", "ending"} = Stages
  BY DEF Stages, Attached, Detached

\* A run owns its record whenever it touches it, so every action keeps the type
\* of the run record.
LEMMA RunTypeStep ==
  OperationsTypeOK /\ RunOwnsRecord /\ [OperationsNext]_vars => (run \in Runs)'
<1> SUFFICES ASSUME OperationsTypeOK, RunOwnsRecord, [OperationsNext]_vars
             PROVE  (run \in Runs)'
  OBVIOUS
<1> USE OperationsAssumption DEF OperationsTypeOK, ledgerVars, deviceVars,
          manifestVars
<1>1. CASE StartRun
  <2>1. PICK k \in {"execute", "auto"}, d \in Devices :
          run' = [NoRun EXCEPT !.stage = "prepared", !.kind = k, !.device = d,
                               !.connection = connection[d]]
    BY <1>1 DEF StartRun
  <2>2. connection[d] \in 0..MaxConnections
    OBVIOUS
  <2> QED
    BY <2>1, <2>2, RunUpdates
<1>2. CASE AdmitOperation
  <2>1. PICK o \in Ops : run' = [run EXCEPT !.stage = "admitted", !.op = o]
    BY <1>2 DEF AdmitOperation
  <2> QED
    BY <2>1, StageNames, RunUpdates
<1>3. CASE LeaveUnadmitted
  BY <1>3, StageNames DEF LeaveUnadmitted, Goto, Runs, NoRun
<1>4. CASE MarkDirty
  BY <1>4, StageNames DEF MarkDirty, Goto, Runs, NoRun
<1>5. CASE FailAdmitted
  BY <1>5, StageNames DEF FailAdmitted, Goto, Runs, NoRun
<1>6. CASE Detach
  BY <1>6, StageNames DEF Detach, Goto, Runs, NoRun
<1>7. CASE AbortRequest
  BY <1>7, StageNames DEF AbortRequest, Goto, Runs, NoRun
<1>8. CASE StageItem \/ SnapshotOperation \/ UpdateOperation \/ ListRunning
          \/ FailVictim \/ EndRemoval
  BY <1>8
     DEF StageItem, SnapshotOperation, UpdateOperation, ListRunning, FailVictim,
         EndRemoval
<1>9. CASE FinishTransfer
  <2>1. PICK e \in BOOLEAN : run' = [run EXCEPT !.stage = "finalizing", !.errors = e]
    BY <1>9 DEF FinishTransfer
  <2> QED
    BY <2>1, StageNames, RunUpdates
<1>10. CASE AbortTransfer
  BY <1>10, StageNames DEF AbortTransfer, Goto, Runs, NoRun
<1>11. CASE WriteFailure
  BY <1>11, StageNames DEF WriteFailure, Goto, Runs, NoRun
<1>12. CASE KeepOutcome
  BY <1>12, StageNames DEF KeepOutcome, Goto, Runs, NoRun
<1>13. CASE DecideOutcome
  <2> DEFINE failed    == run.errors \/ errors[run.op]
             stopped   == token[run.op]
             ending    == IF failed \/ stopped THEN "publishing" ELSE "committing"
  <2>1. run.op \in Ops
    BY <1>13 DEF DecideOutcome, RunOwnsRecord
  <2>2. failed \in BOOLEAN /\ stopped \in BOOLEAN
    BY <2>1
  <2>3. ending \in Stages
    BY StageNames
  <2>4. run' = [run EXCEPT !.stage = ending, !.errors = failed, !.cancelled = stopped]
    BY <1>13 DEF DecideOutcome
  <2> HIDE DEF failed, stopped, ending
  <2> QED
    BY <2>2, <2>3, <2>4, RunUpdates
<1>14. CASE CommitManifest
  <2>1. CASE run' = [run EXCEPT !.stage = "publishing"]
    BY <2>1, StageNames, RunUpdates
  <2>2. CASE run' = [run EXCEPT !.stage = "publishing", !.errors = TRUE]
    BY <2>2, StageNames, RunUpdates
  <2> QED
    BY <1>14, <2>1, <2>2 DEF CommitManifest, Goto
<1>15. CASE PublishOutcome
  BY <1>15, StageNames DEF PublishOutcome, Goto, Runs, NoRun
<1>16. CASE EndRun
  BY <1>16, StageNames DEF EndRun, Goto, Runs, NoRun
<1>17. ASSUME NEW d \in Devices, DeviceDetected(d) PROVE (run \in Runs)'
  BY <1>17 DEF DeviceDetected
<1>18. ASSUME NEW d \in Devices, DeviceRemoved(d) PROVE (run \in Runs)'
  BY <1>18 DEF DeviceRemoved
<1>19. ASSUME NEW o \in Ops, CancelVictim(o) PROVE (run \in Runs)'
  BY <1>19 DEF CancelVictim
<1>20. ASSUME NEW o \in Ops, RequestCancel(o) PROVE (run \in Runs)'
  BY <1>20 DEF RequestCancel
<1>21. ASSUME NEW d \in Devices, ClearDirty(d) PROVE (run \in Runs)'
  BY <1>21 DEF ClearDirty
<1>22. CASE BeginFence \/ FailFence \/ CommitQuit \/ SweepTokens
  BY <1>22 DEF BeginFence, FailFence, CommitQuit, SweepTokens
<1>23. CASE UNCHANGED vars
  BY <1>23 DEF vars
<1> QED
  BY <1>1, <1>2, <1>3, <1>4, <1>5, <1>6, <1>7, <1>8, <1>9, <1>10, <1>11, <1>12,
     <1>13, <1>14, <1>15, <1>16, <1>17, <1>18, <1>19, <1>20, <1>21, <1>22, <1>23
     DEF OperationsNext, RunBeforeDetach, RunTransfer, RunOutcome, RemovalNext,
         RequestNext, QuitNext

\* Only the finalizer and commit_shutdown take the gate, and each gives it back.
LEMMA GateStep ==
  OperationsTypeOK /\ [OperationsNext]_vars => GateHasOwner'
<1> SUFFICES ASSUME OperationsTypeOK, [OperationsNext]_vars
             PROVE  GateHasOwner'
  OBVIOUS
<1> USE OperationsAssumption DEF OperationsTypeOK, GateHasOwner, ledgerVars,
          deviceVars, manifestVars
<1>1. CASE StartRun
  BY <1>1 DEF StartRun, Goto, Runs, NoRun
<1>2. CASE AdmitOperation
  BY <1>2 DEF AdmitOperation, Goto, Runs, NoRun
<1>3. CASE LeaveUnadmitted
  BY <1>3 DEF LeaveUnadmitted, Goto, Runs, NoRun
<1>4. CASE MarkDirty
  BY <1>4 DEF MarkDirty, Goto, Runs, NoRun
<1>5. CASE FailAdmitted
  BY <1>5 DEF FailAdmitted, Goto, Runs, NoRun
<1>6. CASE Detach
  BY <1>6 DEF Detach, Goto, Runs, NoRun
<1>7. CASE AbortRequest
  BY <1>7 DEF AbortRequest, Goto, Runs, NoRun, Attached
<1>8. CASE StageItem \/ SnapshotOperation \/ UpdateOperation \/ ListRunning
          \/ FailVictim \/ EndRemoval
  BY <1>8
     DEF StageItem, SnapshotOperation, UpdateOperation, ListRunning, FailVictim,
         EndRemoval
<1>9. CASE FinishTransfer
  BY <1>9 DEF FinishTransfer, Goto, Runs, NoRun
<1>10. CASE AbortTransfer
  BY <1>10 DEF AbortTransfer, Goto, Runs, NoRun
<1>11. CASE WriteFailure
  BY <1>11 DEF WriteFailure, Goto, Runs, NoRun
<1>12. CASE KeepOutcome
  BY <1>12 DEF KeepOutcome, Goto, Runs, NoRun
<1>13. CASE DecideOutcome
  BY <1>13 DEF DecideOutcome, Goto, Runs, NoRun
<1>14. CASE CommitManifest
  BY <1>14 DEF CommitManifest, Goto, Runs, NoRun
<1>15. CASE PublishOutcome
  BY <1>15 DEF PublishOutcome, Goto, Runs, NoRun
<1>16. CASE EndRun
  BY <1>16 DEF EndRun, Goto, Runs, NoRun
<1>17. ASSUME NEW d \in Devices, DeviceDetected(d) PROVE GateHasOwner'
  BY <1>17 DEF DeviceDetected
<1>18. ASSUME NEW d \in Devices, DeviceRemoved(d) PROVE GateHasOwner'
  BY <1>18 DEF DeviceRemoved
<1>19. ASSUME NEW o \in Ops, CancelVictim(o) PROVE GateHasOwner'
  BY <1>19 DEF CancelVictim
<1>20. ASSUME NEW o \in Ops, RequestCancel(o) PROVE GateHasOwner'
  BY <1>20 DEF RequestCancel
<1>21. ASSUME NEW d \in Devices, ClearDirty(d) PROVE GateHasOwner'
  BY <1>21 DEF ClearDirty
<1>22. CASE BeginFence \/ FailFence \/ CommitQuit \/ SweepTokens
  BY <1>22 DEF BeginFence, FailFence, CommitQuit, SweepTokens
<1>23. CASE UNCHANGED vars
  BY <1>23 DEF vars
<1> QED
  BY <1>1, <1>2, <1>3, <1>4, <1>5, <1>6, <1>7, <1>8, <1>9, <1>10, <1>11, <1>12,
     <1>13, <1>14, <1>15, <1>16, <1>17, <1>18, <1>19, <1>20, <1>21, <1>22, <1>23
     DEF OperationsNext, RunBeforeDetach, RunTransfer, RunOutcome, RemovalNext,
         RequestNext, QuitNext

\* The rest of the type invariant.
LEMMA ValuesStep ==
  OperationsTypeOK /\ RunOwnsRecord /\ GateHasOwner' /\ [OperationsNext]_vars => OperationsTypeOK'
<1> SUFFICES ASSUME OperationsTypeOK, RunOwnsRecord, GateHasOwner', [OperationsNext]_vars
             PROVE  OperationsTypeOK'
  OBVIOUS
<1> USE OperationsAssumption DEF OperationsTypeOK, ledgerVars, deviceVars,
          manifestVars
<1>1. CASE StartRun
  BY <1>1, RunTypeStep DEF StartRun
<1>2. CASE AdmitOperation
  <2>1. PICK o \in Ops : /\ status' = [status EXCEPT ![o] = "running"]
                         /\ target' = [target EXCEPT ![o] = run.device]
                         /\ token' = [token EXCEPT ![o] = Committed]
                         /\ early' \in SUBSET Ops
    BY <1>2 DEF AdmitOperation
  <2>2. Committed \in BOOLEAN /\ run.device \in Devices \cup {NoOp}
    BY DEF Committed, Runs
  <2>3. /\ status' \in [Ops -> {"absent", "running", "complete", "failed", "cancelled"}]
        /\ target' \in [Ops -> Devices \cup {NoOp}]
        /\ token' \in [Ops -> BOOLEAN]
    BY <2>1, <2>2
  <2> QED
    BY <1>2, <2>1, <2>3, RunTypeStep DEF AdmitOperation
<1>3. CASE LeaveUnadmitted
  BY <1>3, RunTypeStep DEF LeaveUnadmitted
<1>4. CASE MarkDirty
  BY <1>4, RunTypeStep DEF MarkDirty, RunOwnsRecord, Attached, Detached, Runs
<1>5. CASE FailAdmitted
  BY <1>5, RunTypeStep DEF FailAdmitted
<1>6. CASE Detach
  BY <1>6, RunTypeStep DEF Detach
<1>7. CASE AbortRequest
  BY <1>7, RunTypeStep DEF AbortRequest
<1>8. CASE StageItem
  BY <1>8, RunTypeStep DEF StageItem
<1>9. CASE SnapshotOperation
  BY <1>9, RunTypeStep DEF SnapshotOperation
<1>10. CASE UpdateOperation
  BY <1>10, RunTypeStep DEF UpdateOperation
<1>11. CASE FinishTransfer
  BY <1>11, RunTypeStep DEF FinishTransfer
<1>12. CASE AbortTransfer
  BY <1>12, RunTypeStep DEF AbortTransfer
<1>13. CASE WriteFailure
  BY <1>13, RunTypeStep DEF WriteFailure
<1>14. CASE KeepOutcome
  BY <1>14, RunTypeStep DEF KeepOutcome
<1>15. CASE DecideOutcome
  BY <1>15, RunTypeStep DEF DecideOutcome
<1>16. CASE CommitManifest
  BY <1>16, RunTypeStep DEF CommitManifest
<1>17. CASE PublishOutcome
  BY <1>17, RunTypeStep DEF PublishOutcome, Outcome, Runs
<1>18. CASE EndRun
  BY <1>18, RunTypeStep DEF EndRun
<1>19. ASSUME NEW d \in Devices, DeviceDetected(d) PROVE OperationsTypeOK'
  BY <1>19, RunTypeStep DEF DeviceDetected
<1>20. ASSUME NEW d \in Devices, DeviceRemoved(d) PROVE OperationsTypeOK'
  BY <1>20, RunTypeStep DEF DeviceRemoved, Removals, NoRemoval
<1>21. CASE ListRunning
  BY <1>21, RunTypeStep DEF ListRunning, Removals, RunningOps
<1>22. ASSUME NEW o \in Ops, CancelVictim(o) PROVE OperationsTypeOK'
  BY <1>22, RunTypeStep DEF CancelVictim, Removals, Undecided
<1>23. CASE FailVictim
  BY <1>23, RunTypeStep DEF FailVictim, Removals
<1>24. CASE EndRemoval
  BY <1>24, RunTypeStep DEF EndRemoval, Removals, NoRemoval
<1>25. ASSUME NEW o \in Ops, RequestCancel(o) PROVE OperationsTypeOK'
  BY <1>25, RunTypeStep DEF RequestCancel, Undecided
<1>26. ASSUME NEW d \in Devices, ClearDirty(d) PROVE OperationsTypeOK'
  BY <1>26, RunTypeStep DEF ClearDirty
<1>27. CASE BeginFence
  BY <1>27, RunTypeStep DEF BeginFence
<1>28. CASE FailFence
  BY <1>28, RunTypeStep DEF FailFence
<1>29. CASE CommitQuit
  BY <1>29, RunTypeStep DEF CommitQuit
<1>30. CASE SweepTokens
  BY <1>30, RunTypeStep DEF SweepTokens, RunningOps
<1>31. CASE UNCHANGED vars
  BY <1>31 DEF vars
<1> QED
  BY <1>1, <1>2, <1>3, <1>4, <1>5, <1>6, <1>7, <1>8, <1>9, <1>10, <1>11, <1>12,
     <1>13, <1>14, <1>15, <1>16, <1>17, <1>18, <1>19, <1>20, <1>21, <1>22,
     <1>23, <1>24, <1>25, <1>26, <1>27, <1>28, <1>29, <1>30, <1>31
     DEF OperationsNext, RunBeforeDetach, RunTransfer, RunOutcome, RemovalNext,
         RequestNext, QuitNext

----------------------------------------------------------------------------
(* The parts of OperationsInvariant, one lemma each.                        *)

\* What a run knows of its record stays true: only the removal handler writes
\* it from outside, and not while the finalizer holds the gate.
LEMMA RunStep ==
  OperationsTypeOK /\ RunOwnsRecord /\ RecordsHaveDevices /\ [OperationsNext]_vars => RunOwnsRecord'
<1> SUFFICES ASSUME OperationsTypeOK, RunOwnsRecord, RecordsHaveDevices, [OperationsNext]_vars
             PROVE  RunOwnsRecord'
  OBVIOUS
<1> USE OperationsAssumption DEF OperationsTypeOK, RunOwnsRecord, ledgerVars,
          deviceVars, manifestVars
<1>1. CASE StartRun
  BY <1>1 DEF StartRun, Goto, Runs, NoRun, Attached, Detached
<1>2. CASE AdmitOperation
  BY <1>2 DEF AdmitOperation, Goto, Runs, NoRun, Attached, Detached
<1>3. CASE LeaveUnadmitted
  BY <1>3 DEF LeaveUnadmitted, Goto, Runs, NoRun, Attached, Detached
<1>4. CASE MarkDirty
  BY <1>4 DEF MarkDirty, Goto, Runs, NoRun, Attached, Detached
<1>5. CASE FailAdmitted
  BY <1>5 DEF FailAdmitted, Goto, Runs, NoRun, Attached, Detached
<1>6. CASE Detach
  BY <1>6 DEF Detach, Goto, Runs, NoRun, Attached, Detached
<1>7. CASE AbortRequest
  BY <1>7 DEF AbortRequest, Goto, Runs, NoRun, Attached, Detached
<1>8. CASE StageItem \/ UpdateOperation \/ ListRunning \/ EndRemoval
          \/ BeginFence \/ FailFence
  BY <1>8
     DEF StageItem, UpdateOperation, ListRunning, EndRemoval, BeginFence,
         FailFence
<1>9. CASE SnapshotOperation
  BY <1>9 DEF SnapshotOperation, Goto, Runs, NoRun, Attached, Detached
<1>10. CASE FinishTransfer
  BY <1>10 DEF FinishTransfer, Goto, Runs, NoRun, Attached, Detached
<1>11. CASE AbortTransfer
  BY <1>11 DEF AbortTransfer, Goto, Runs, NoRun, Attached, Detached
<1>12. CASE WriteFailure
  BY <1>12 DEF WriteFailure, Goto, Runs, NoRun, Attached, Detached, GateHasOwner
<1>13. CASE KeepOutcome
  BY <1>13 DEF KeepOutcome, Goto, Runs, NoRun, Attached, Detached, GateHasOwner
<1>14. CASE DecideOutcome
  BY <1>14
     DEF DecideOutcome, Goto, Runs, NoRun, Attached, Detached, GateHasOwner
<1>15. CASE CommitManifest
  BY <1>15 DEF CommitManifest, Goto, Runs, NoRun, Attached, Detached
<1>16. CASE PublishOutcome
  BY <1>16 DEF PublishOutcome, Goto, Runs, NoRun, Attached, Detached
<1>17. CASE EndRun
  BY <1>17 DEF EndRun, Goto, Runs, NoRun, Attached, Detached
<1>18. ASSUME NEW d \in Devices, DeviceDetected(d) PROVE RunOwnsRecord'
  BY <1>18 DEF DeviceDetected
<1>19. ASSUME NEW d \in Devices, DeviceRemoved(d) PROVE RunOwnsRecord'
  BY <1>19 DEF DeviceRemoved
<1>20. ASSUME NEW o \in Ops, CancelVictim(o) PROVE RunOwnsRecord'
  BY <1>20 DEF CancelVictim
<1>21. CASE FailVictim
  BY <1>21
     DEF FailVictim, GateHasOwner, RunningOps, Attached, Detached,
         RecordsHaveDevices
<1>22. ASSUME NEW o \in Ops, RequestCancel(o) PROVE RunOwnsRecord'
  BY <1>22 DEF RequestCancel
<1>23. ASSUME NEW d \in Devices, ClearDirty(d) PROVE RunOwnsRecord'
  BY <1>23 DEF ClearDirty
<1>24. CASE CommitQuit \/ SweepTokens
  BY <1>24 DEF CommitQuit, SweepTokens
<1>25. CASE UNCHANGED vars
  BY <1>25 DEF vars
<1> QED
  BY <1>1, <1>2, <1>3, <1>4, <1>5, <1>6, <1>7, <1>8, <1>9, <1>10, <1>11, <1>12,
     <1>13, <1>14, <1>15, <1>16, <1>17, <1>18, <1>19, <1>20, <1>21, <1>22,
     <1>23, <1>24, <1>25
     DEF OperationsNext, RunBeforeDetach, RunTransfer, RunOutcome, RemovalNext,
         RequestNext, QuitNext

\* Records are never deleted, so a victim stays a record.
LEMMA RecordsStep ==
  OperationsTypeOK /\ RunOwnsRecord /\ RecordsHaveDevices /\ [OperationsNext]_vars => RecordsHaveDevices'
<1> SUFFICES ASSUME OperationsTypeOK, RunOwnsRecord, RecordsHaveDevices, [OperationsNext]_vars
             PROVE  RecordsHaveDevices'
  OBVIOUS
<1> USE OperationsAssumption DEF OperationsTypeOK, RecordsHaveDevices,
          ledgerVars, deviceVars, manifestVars
<1>1. CASE StartRun \/ LeaveUnadmitted \/ MarkDirty \/ FailAdmitted
          \/ Detach \/ AbortRequest
  BY <1>1
     DEF StartRun, LeaveUnadmitted, MarkDirty, FailAdmitted, Detach,
         AbortRequest
<1>2. CASE AdmitOperation
  BY <1>2 DEF AdmitOperation, RunOwnsRecord, Attached, Detached, Removals
<1>3. CASE StageItem \/ SnapshotOperation \/ UpdateOperation
          \/ FinishTransfer \/ AbortTransfer \/ KeepOutcome
  BY <1>3
     DEF StageItem, SnapshotOperation, UpdateOperation, FinishTransfer,
         AbortTransfer, KeepOutcome
<1>4. CASE WriteFailure
  BY <1>4 DEF WriteFailure, Removals
<1>5. CASE DecideOutcome \/ CommitManifest \/ EndRun \/ BeginFence
          \/ FailFence \/ CommitQuit
  BY <1>5
     DEF DecideOutcome, CommitManifest, EndRun, BeginFence, FailFence,
         CommitQuit
<1>6. CASE PublishOutcome
  BY <1>6
     DEF PublishOutcome, RunOwnsRecord, Attached, Detached, Removals, Outcome
<1>7. ASSUME NEW d \in Devices, DeviceDetected(d) PROVE RecordsHaveDevices'
  BY <1>7 DEF DeviceDetected
<1>8. ASSUME NEW d \in Devices, DeviceRemoved(d) PROVE RecordsHaveDevices'
  BY <1>8 DEF DeviceRemoved, Removals, NoRemoval, RunningOps
<1>9. CASE ListRunning
  BY <1>9 DEF ListRunning, Removals, NoRemoval, RunningOps
<1>10. ASSUME NEW o \in Ops, CancelVictim(o) PROVE RecordsHaveDevices'
  BY <1>10 DEF CancelVictim, Removals, NoRemoval, RunningOps
<1>11. CASE FailVictim
  BY <1>11 DEF FailVictim, Removals, NoRemoval, RunningOps
<1>12. CASE EndRemoval
  BY <1>12 DEF EndRemoval, Removals, NoRemoval, RunningOps
<1>13. ASSUME NEW o \in Ops, RequestCancel(o) PROVE RecordsHaveDevices'
  BY <1>13 DEF RequestCancel
<1>14. ASSUME NEW d \in Devices, ClearDirty(d) PROVE RecordsHaveDevices'
  BY <1>14 DEF ClearDirty
<1>15. CASE SweepTokens
  BY <1>15 DEF SweepTokens
<1>16. CASE UNCHANGED vars
  BY <1>16 DEF vars
<1> QED
  BY <1>1, <1>2, <1>3, <1>4, <1>5, <1>6, <1>7, <1>8, <1>9, <1>10, <1>11, <1>12,
     <1>13, <1>14, <1>15, <1>16
     DEF OperationsNext, RunBeforeDetach, RunTransfer, RunOutcome, RemovalNext,
         RequestNext, QuitNext

\* Admission looks the device up under the lock a removal needs, and a removal
\* lists the records afterwards: none is missed.
LEMMA ConnectedStep ==
  OperationsTypeOK /\ RunOwnsRecord /\ RecordsHaveDevices /\ RunningIsConnectedOrDoomed /\ [OperationsNext]_vars => RunningIsConnectedOrDoomed'
<1> SUFFICES ASSUME OperationsTypeOK, RunOwnsRecord, RecordsHaveDevices, RunningIsConnectedOrDoomed, [OperationsNext]_vars
             PROVE  RunningIsConnectedOrDoomed'
  OBVIOUS
<1> USE OperationsAssumption DEF OperationsTypeOK, RunningIsConnectedOrDoomed,
          RemovalWillFail, RunningOps, ledgerVars, deviceVars, manifestVars
<1>1. CASE StartRun
  BY <1>1 DEF StartRun
<1>2. CASE AdmitOperation
  BY <1>2 DEF AdmitOperation, RunOwnsRecord, Runs, NoRun
<1>3. CASE LeaveUnadmitted
  BY <1>3 DEF LeaveUnadmitted
<1>4. CASE MarkDirty
  BY <1>4 DEF MarkDirty
<1>5. CASE FailAdmitted
  BY <1>5 DEF FailAdmitted
<1>6. CASE Detach
  BY <1>6 DEF Detach
<1>7. CASE AbortRequest
  BY <1>7 DEF AbortRequest
<1>8. CASE StageItem
  BY <1>8 DEF StageItem
<1>9. CASE SnapshotOperation
  BY <1>9 DEF SnapshotOperation
<1>10. CASE UpdateOperation
  BY <1>10 DEF UpdateOperation
<1>11. CASE FinishTransfer
  BY <1>11 DEF FinishTransfer
<1>12. CASE AbortTransfer
  BY <1>12 DEF AbortTransfer
<1>13. CASE WriteFailure
  BY <1>13 DEF WriteFailure, RunOwnsRecord, Attached, Detached
<1>14. CASE KeepOutcome
  BY <1>14 DEF KeepOutcome
<1>15. CASE DecideOutcome
  BY <1>15 DEF DecideOutcome
<1>16. CASE CommitManifest
  BY <1>16 DEF CommitManifest
<1>17. CASE PublishOutcome
  BY <1>17 DEF PublishOutcome, RunOwnsRecord, Attached, Detached, Outcome
<1>18. CASE EndRun
  BY <1>18 DEF EndRun
<1>19. ASSUME NEW d \in Devices, DeviceDetected(d) PROVE RunningIsConnectedOrDoomed'
  BY <1>19 DEF DeviceDetected, Removals, NoRemoval
<1>20. ASSUME NEW d \in Devices, DeviceRemoved(d) PROVE RunningIsConnectedOrDoomed'
  BY <1>20 DEF DeviceRemoved, Removals, NoRemoval
<1>21. CASE ListRunning
  BY <1>21 DEF ListRunning, Removals, NoRemoval
<1>22. ASSUME NEW o \in Ops, CancelVictim(o) PROVE RunningIsConnectedOrDoomed'
  BY <1>22 DEF CancelVictim, Removals, NoRemoval
<1>23. CASE FailVictim
  BY <1>23 DEF FailVictim, Removals, NoRemoval, RecordsHaveDevices
<1>24. CASE EndRemoval
  BY <1>24 DEF EndRemoval, Removals, NoRemoval
<1>25. ASSUME NEW o \in Ops, RequestCancel(o) PROVE RunningIsConnectedOrDoomed'
  BY <1>25 DEF RequestCancel
<1>26. ASSUME NEW d \in Devices, ClearDirty(d) PROVE RunningIsConnectedOrDoomed'
  BY <1>26 DEF ClearDirty
<1>27. CASE BeginFence
  BY <1>27 DEF BeginFence
<1>28. CASE FailFence
  BY <1>28 DEF FailFence
<1>29. CASE CommitQuit
  BY <1>29 DEF CommitQuit
<1>30. CASE SweepTokens
  BY <1>30 DEF SweepTokens
<1>31. CASE UNCHANGED vars
  BY <1>31 DEF vars
<1> QED
  BY <1>1, <1>2, <1>3, <1>4, <1>5, <1>6, <1>7, <1>8, <1>9, <1>10, <1>11, <1>12,
     <1>13, <1>14, <1>15, <1>16, <1>17, <1>18, <1>19, <1>20, <1>21, <1>22,
     <1>23, <1>24, <1>25, <1>26, <1>27, <1>28, <1>29, <1>30, <1>31
     DEF OperationsNext, RunBeforeDetach, RunTransfer, RunOutcome, RemovalNext,
         RequestNext, QuitNext

\* A token is never reset, so the finalizer sees every token set before it
\* decides.
LEMMA EarlyStep ==
  OperationsTypeOK /\ RunOwnsRecord /\ RecordsHaveDevices /\ EarlyIsSeen /\ [OperationsNext]_vars => EarlyIsSeen'
<1> SUFFICES ASSUME OperationsTypeOK, RunOwnsRecord, RecordsHaveDevices, EarlyIsSeen, [OperationsNext]_vars
             PROVE  EarlyIsSeen'
  OBVIOUS
<1> USE OperationsAssumption DEF OperationsTypeOK, EarlyIsSeen, ledgerVars,
          deviceVars, manifestVars
<1>1. CASE StartRun
  BY <1>1 DEF StartRun, Goto, Runs, NoRun, GateHasOwner, Attached
<1>2. CASE AdmitOperation
  BY <1>2
     DEF AdmitOperation, Committed, RunOwnsRecord, Runs, NoRun, GateHasOwner,
         Attached
<1>3. CASE LeaveUnadmitted
  BY <1>3 DEF LeaveUnadmitted, Goto, Runs, NoRun, GateHasOwner, Attached
<1>4. CASE MarkDirty
  BY <1>4 DEF MarkDirty, Goto, Runs, NoRun
<1>5. CASE FailAdmitted
  BY <1>5 DEF FailAdmitted, Goto, Runs, NoRun
<1>6. CASE Detach
  BY <1>6 DEF Detach, Goto, Runs, NoRun
<1>7. CASE AbortRequest
  BY <1>7 DEF AbortRequest, Goto, Runs, NoRun, GateHasOwner, Attached
<1>8. CASE StageItem \/ SnapshotOperation \/ UpdateOperation \/ ListRunning
          \/ EndRemoval \/ BeginFence
  BY <1>8
     DEF StageItem, SnapshotOperation, UpdateOperation, ListRunning, EndRemoval,
         BeginFence
<1>9. CASE FinishTransfer
  BY <1>9 DEF FinishTransfer, Goto, Runs, NoRun, GateHasOwner, Attached
<1>10. CASE AbortTransfer
  BY <1>10 DEF AbortTransfer, Goto, Runs, NoRun
<1>11. CASE WriteFailure
  BY <1>11
     DEF WriteFailure, RunOwnsRecord, Goto, Runs, NoRun, Attached, Detached
<1>12. CASE KeepOutcome
  BY <1>12 DEF KeepOutcome, Goto, Runs, NoRun, GateHasOwner
<1>13. CASE DecideOutcome
  BY <1>13
     DEF DecideOutcome, Goto, Runs, NoRun, RunOwnsRecord, Attached, Detached
<1>14. CASE CommitManifest
  BY <1>14
     DEF CommitManifest, Goto, Runs, NoRun, RunOwnsRecord, Attached, Detached
<1>15. CASE PublishOutcome
  BY <1>15
     DEF PublishOutcome, RunOwnsRecord, Outcome, GateHasOwner, Goto, Runs,
         NoRun, Attached, Detached
<1>16. CASE EndRun
  BY <1>16 DEF EndRun, Goto, Runs, NoRun, GateHasOwner, Attached
<1>17. ASSUME NEW d \in Devices, DeviceDetected(d) PROVE EarlyIsSeen'
  BY <1>17 DEF DeviceDetected
<1>18. ASSUME NEW d \in Devices, DeviceRemoved(d) PROVE EarlyIsSeen'
  BY <1>18 DEF DeviceRemoved
<1>19. ASSUME NEW o \in Ops, CancelVictim(o) PROVE EarlyIsSeen'
  BY <1>19 DEF CancelVictim, Undecided, Deciding
<1>20. CASE FailVictim
  BY <1>20 DEF FailVictim, RecordsHaveDevices
<1>21. ASSUME NEW o \in Ops, RequestCancel(o) PROVE EarlyIsSeen'
  BY <1>21 DEF RequestCancel, Undecided, Deciding
<1>22. ASSUME NEW d \in Devices, ClearDirty(d) PROVE EarlyIsSeen'
  BY <1>22 DEF ClearDirty
<1>23. CASE FailFence \/ CommitQuit
  BY <1>23 DEF FailFence, CommitQuit
<1>24. CASE SweepTokens
  BY <1>24 DEF SweepTokens, RunningOps, GateHasOwner
<1>25. CASE UNCHANGED vars
  BY <1>25 DEF vars
<1> QED
  BY <1>1, <1>2, <1>3, <1>4, <1>5, <1>6, <1>7, <1>8, <1>9, <1>10, <1>11, <1>12,
     <1>13, <1>14, <1>15, <1>16, <1>17, <1>18, <1>19, <1>20, <1>21, <1>22,
     <1>23, <1>24, <1>25
     DEF OperationsNext, RunBeforeDetach, RunTransfer, RunOutcome, RemovalNext,
         RequestNext, QuitNext

\* A token is born with the committed flag, or it is there to be swept.
LEMMA QuitStep ==
  OperationsTypeOK /\ RunOwnsRecord /\ RecordsHaveDevices /\ CommittedQuitReachesEveryOperation /\ [OperationsNext]_vars => CommittedQuitReachesEveryOperation'
<1> SUFFICES ASSUME OperationsTypeOK, RunOwnsRecord, RecordsHaveDevices, CommittedQuitReachesEveryOperation, [OperationsNext]_vars
             PROVE  CommittedQuitReachesEveryOperation'
  OBVIOUS
<1> USE OperationsAssumption DEF OperationsTypeOK,
          CommittedQuitReachesEveryOperation, RunningOps, ledgerVars,
          deviceVars, manifestVars
<1>1. CASE StartRun \/ LeaveUnadmitted \/ MarkDirty \/ FailAdmitted
          \/ Detach \/ AbortRequest
  BY <1>1
     DEF StartRun, LeaveUnadmitted, MarkDirty, FailAdmitted, Detach,
         AbortRequest
<1>2. CASE AdmitOperation
  <2>1. PICK o \in Ops : /\ status' = [status EXCEPT ![o] = "running"]
                         /\ token' = [token EXCEPT ![o] = Committed]
    BY <1>2 DEF AdmitOperation
  <2>2. quit' = "draining" => Committed
    BY <1>2 DEF AdmitOperation, Committed
  <2>3. ASSUME quit' = "draining", NEW p \in Ops, status'[p] = "running" PROVE token'[p]
    <3>1. CASE p = o
      BY <2>1, <2>2, <2>3, <3>1
    <3>2. CASE p # o
      BY <1>2, <2>1, <2>3, <3>2 DEF AdmitOperation
    <3> QED
      BY <3>1, <3>2
  <2> QED
    BY <2>3
<1>3. CASE StageItem \/ SnapshotOperation \/ UpdateOperation
          \/ FinishTransfer \/ AbortTransfer \/ KeepOutcome
  BY <1>3
     DEF StageItem, SnapshotOperation, UpdateOperation, FinishTransfer,
         AbortTransfer, KeepOutcome
<1>4. CASE WriteFailure
  BY <1>4 DEF WriteFailure, RunOwnsRecord, Attached, Detached
<1>5. CASE DecideOutcome \/ CommitManifest \/ EndRun \/ ListRunning
          \/ FailVictim \/ EndRemoval
  BY <1>5
     DEF DecideOutcome, CommitManifest, EndRun, ListRunning, FailVictim,
         EndRemoval
<1>6. CASE PublishOutcome
  BY <1>6 DEF PublishOutcome, Outcome
<1>7. ASSUME NEW d \in Devices, DeviceDetected(d) PROVE CommittedQuitReachesEveryOperation'
  BY <1>7 DEF DeviceDetected
<1>8. ASSUME NEW d \in Devices, DeviceRemoved(d) PROVE CommittedQuitReachesEveryOperation'
  BY <1>8 DEF DeviceRemoved
<1>9. ASSUME NEW o \in Ops, CancelVictim(o) PROVE CommittedQuitReachesEveryOperation'
  BY <1>9 DEF CancelVictim
<1>10. ASSUME NEW o \in Ops, RequestCancel(o) PROVE CommittedQuitReachesEveryOperation'
  BY <1>10 DEF RequestCancel
<1>11. ASSUME NEW d \in Devices, ClearDirty(d) PROVE CommittedQuitReachesEveryOperation'
  BY <1>11 DEF ClearDirty
<1>12. CASE BeginFence \/ FailFence \/ CommitQuit \/ SweepTokens
  BY <1>12 DEF BeginFence, FailFence, CommitQuit, SweepTokens
<1>13. CASE UNCHANGED vars
  BY <1>13 DEF vars
<1> QED
  BY <1>1, <1>2, <1>3, <1>4, <1>5, <1>6, <1>7, <1>8, <1>9, <1>10, <1>11, <1>12,
     <1>13
     DEF OperationsNext, RunBeforeDetach, RunTransfer, RunOutcome, RemovalNext,
         RequestNext, QuitNext

\* The manifest of the run's device bears the mark of the run until its outcome
\* is published.
LEMMA MarkStep ==
  OperationsTypeOK /\ RunOwnsRecord /\ RecordsHaveDevices /\ MarkOfRun /\ EvidenceMatchesOutcome /\ [OperationsNext]_vars => MarkOfRun'
<1> SUFFICES ASSUME OperationsTypeOK, RunOwnsRecord, RecordsHaveDevices, MarkOfRun, EvidenceMatchesOutcome, [OperationsNext]_vars
             PROVE  MarkOfRun'
  OBVIOUS
<1> USE OperationsAssumption DEF OperationsTypeOK, MarkOfRun, ledgerVars,
          deviceVars, manifestVars
<1>1. CASE StartRun
  BY <1>1 DEF StartRun, Goto, Runs, NoRun, Attached, Detached, Outcome
<1>2. CASE AdmitOperation
  BY <1>2
     DEF AdmitOperation, RunOwnsRecord, Outcome, Runs, NoRun, Attached, Detached
<1>3. CASE LeaveUnadmitted
  BY <1>3 DEF LeaveUnadmitted, Goto, Runs, NoRun, Attached, Detached, Outcome
<1>4. CASE MarkDirty
  BY <1>4
     DEF MarkDirty, Goto, RunOwnsRecord, Outcome, Runs, NoRun, Attached,
         Detached
<1>5. CASE FailAdmitted
  BY <1>5 DEF FailAdmitted, Goto, Runs, NoRun, Attached, Detached, Outcome
<1>6. CASE Detach
  BY <1>6 DEF Detach, Goto, Runs, NoRun, Attached, Detached, Outcome
<1>7. CASE AbortRequest
  BY <1>7 DEF AbortRequest, Goto, Runs, NoRun, Attached, Detached, Outcome
<1>8. CASE StageItem
  BY <1>8 DEF StageItem, RunOwnsRecord, Outcome
<1>9. CASE SnapshotOperation
  BY <1>9 DEF SnapshotOperation, Outcome
<1>10. CASE UpdateOperation
  BY <1>10 DEF UpdateOperation, Outcome
<1>11. CASE FinishTransfer
  BY <1>11 DEF FinishTransfer, Goto, Runs, NoRun, Attached, Detached, Outcome
<1>12. CASE AbortTransfer
  BY <1>12 DEF AbortTransfer, Goto, Runs, NoRun, Attached, Detached, Outcome
<1>13. CASE WriteFailure
  BY <1>13
     DEF WriteFailure, Goto, RunOwnsRecord, Outcome, Runs, NoRun, Attached,
         Detached
<1>14. CASE KeepOutcome
  BY <1>14 DEF KeepOutcome, Goto, Runs, NoRun, Attached, Detached, Outcome
<1>15. CASE DecideOutcome
  BY <1>15
     DEF DecideOutcome, RunOwnsRecord, Outcome, GateHasOwner,
         EvidenceMatchesOutcome, Deciding, Runs, NoRun, Attached, Detached
<1>16. CASE CommitManifest
  <2>1. /\ run.device \in Devices /\ marker[run.device] = run.op
        /\ dirty[run.device] \/ repaired[run.device]
        /\ ~run.errors /\ ~run.cancelled
    BY <1>16 DEF CommitManifest, RunOwnsRecord, Detached
  <2>2. marker' = marker /\ status' = status /\ target' = target /\ repaired' = repaired
    BY <1>16 DEF CommitManifest
  <2>4. run'.stage = "publishing" /\ run'.device = run.device /\ run'.op = run.op
    <3>1. CASE Goto("publishing")
      BY <3>1 DEF Goto, Runs
    <3>2. CASE run' = [run EXCEPT !.stage = "publishing", !.errors = TRUE]
      BY <3>2 DEF Runs
    <3> QED
      BY <1>16, <3>1, <3>2 DEF CommitManifest
  <2>3. IF Outcome' = "complete" THEN ~dirty'[run.device]
                                 ELSE dirty'[run.device] \/ repaired[run.device]
    <3>1. CASE /\ ConnectionValid
               /\ dirty' = [dirty EXCEPT ![run.device] = FALSE]
               /\ Goto("publishing")
      BY <3>1, <2>1 DEF Goto, Runs, Outcome
    <3>2. CASE /\ run' = [run EXCEPT !.stage = "publishing", !.errors = TRUE]
               /\ UNCHANGED dirty
      BY <3>2, <2>1 DEF Runs, Outcome
    <3> QED
      BY <1>16, <3>1, <3>2 DEF CommitManifest
  <2> QED
    BY <2>1, <2>2, <2>3, <2>4
<1>17. CASE PublishOutcome
  BY <1>17
     DEF PublishOutcome, Goto, RunOwnsRecord, Outcome, Runs, NoRun, Attached,
         Detached
<1>18. CASE EndRun
  BY <1>18 DEF EndRun, Goto, Runs, NoRun, Attached, Detached, Outcome
<1>19. ASSUME NEW d \in Devices, DeviceDetected(d) PROVE MarkOfRun'
  BY <1>19 DEF DeviceDetected, Outcome
<1>20. ASSUME NEW d \in Devices, DeviceRemoved(d) PROVE MarkOfRun'
  BY <1>20 DEF DeviceRemoved, Outcome
<1>21. CASE ListRunning
  BY <1>21 DEF ListRunning, Outcome
<1>22. ASSUME NEW o \in Ops, CancelVictim(o) PROVE MarkOfRun'
  BY <1>22 DEF CancelVictim, Outcome
<1>23. CASE FailVictim
  BY <1>23 DEF FailVictim, Outcome
<1>24. CASE EndRemoval
  BY <1>24 DEF EndRemoval, Outcome
<1>25. ASSUME NEW o \in Ops, RequestCancel(o) PROVE MarkOfRun'
  BY <1>25 DEF RequestCancel, Outcome
<1>26. ASSUME NEW d \in Devices, ClearDirty(d) PROVE MarkOfRun'
  BY <1>26 DEF ClearDirty, Outcome
<1>27. CASE BeginFence
  BY <1>27 DEF BeginFence, Outcome
<1>28. CASE FailFence
  BY <1>28 DEF FailFence, Outcome
<1>29. CASE CommitQuit
  BY <1>29 DEF CommitQuit, Outcome
<1>30. CASE SweepTokens
  BY <1>30 DEF SweepTokens, Outcome
<1>31. CASE UNCHANGED vars
  BY <1>31 DEF vars, Outcome, Outcome
<1> QED
  BY <1>1, <1>2, <1>3, <1>4, <1>5, <1>6, <1>7, <1>8, <1>9, <1>10, <1>11, <1>12,
     <1>13, <1>14, <1>15, <1>16, <1>17, <1>18, <1>19, <1>20, <1>21, <1>22,
     <1>23, <1>24, <1>25, <1>26, <1>27, <1>28, <1>29, <1>30, <1>31
     DEF OperationsNext, RunBeforeDetach, RunTransfer, RunOutcome, RemovalNext,
         RequestNext, QuitNext

\* The dirty flag follows the outcome.
LEMMA EvidenceStep ==
  OperationsTypeOK /\ RunOwnsRecord /\ RecordsHaveDevices /\ MarkOfRun /\ EvidenceMatchesOutcome /\ [OperationsNext]_vars => EvidenceMatchesOutcome'
<1> SUFFICES ASSUME OperationsTypeOK, RunOwnsRecord, RecordsHaveDevices, MarkOfRun, EvidenceMatchesOutcome, [OperationsNext]_vars
             PROVE  EvidenceMatchesOutcome'
  OBVIOUS
<1> USE OperationsAssumption DEF OperationsTypeOK, EvidenceMatchesOutcome,
          ledgerVars, deviceVars, manifestVars
<1>1. CASE StartRun
  BY <1>1
     DEF StartRun, Goto, Deciding, Runs, NoRun, GateHasOwner, Attached, Detached
<1>2. CASE AdmitOperation
  BY <1>2 DEF AdmitOperation, Deciding, GateHasOwner, MarkOfRun, Runs, NoRun
<1>3. CASE LeaveUnadmitted
  BY <1>3
     DEF LeaveUnadmitted, Goto, Deciding, Runs, NoRun, GateHasOwner, Attached,
         Detached
<1>4. CASE MarkDirty
  BY <1>4
     DEF MarkDirty, Deciding, Goto, RunOwnsRecord, GateHasOwner, Runs, NoRun,
         Attached, Detached
<1>5. CASE FailAdmitted
  BY <1>5
     DEF FailAdmitted, Goto, Deciding, Runs, NoRun, GateHasOwner, Attached,
         Detached
<1>6. CASE Detach
  BY <1>6
     DEF Detach, Goto, Deciding, Runs, NoRun, GateHasOwner, Attached, Detached
<1>7. CASE AbortRequest
  BY <1>7
     DEF AbortRequest, Goto, Deciding, Runs, NoRun, GateHasOwner, Attached,
         Detached
<1>8. CASE StageItem
  BY <1>8 DEF StageItem, RunOwnsRecord, Deciding, MarkOfRun, Attached, Detached
<1>9. CASE SnapshotOperation
  BY <1>9 DEF SnapshotOperation, Deciding
<1>10. CASE UpdateOperation
  BY <1>10 DEF UpdateOperation, Deciding
<1>11. CASE FinishTransfer
  BY <1>11
     DEF FinishTransfer, Goto, Deciding, Runs, NoRun, GateHasOwner, Attached,
         Detached
<1>12. CASE AbortTransfer
  BY <1>12
     DEF AbortTransfer, Goto, Deciding, Runs, NoRun, GateHasOwner, Attached,
         Detached
<1>13. CASE WriteFailure
  BY <1>13
     DEF WriteFailure, Deciding, Goto, RunOwnsRecord, GateHasOwner, Runs, NoRun,
         Attached, Detached
<1>14. CASE KeepOutcome
  BY <1>14
     DEF KeepOutcome, Goto, Deciding, Runs, NoRun, GateHasOwner, Attached,
         Detached
<1>15. CASE DecideOutcome
  BY <1>15 DEF DecideOutcome, Deciding, GateHasOwner, Runs, NoRun
<1>16. CASE CommitManifest
  BY <1>16
     DEF CommitManifest, Deciding, Goto, GateHasOwner, MarkOfRun, RunOwnsRecord,
         Runs, NoRun, Attached, Detached
<1>17. CASE PublishOutcome
  BY <1>17
     DEF PublishOutcome, Deciding, Goto, GateHasOwner, MarkOfRun, RunOwnsRecord,
         Outcome, Runs, NoRun, Attached, Detached
<1>18. CASE EndRun
  BY <1>18
     DEF EndRun, Goto, Deciding, Runs, NoRun, GateHasOwner, Attached, Detached
<1>19. ASSUME NEW d \in Devices, DeviceDetected(d) PROVE EvidenceMatchesOutcome'
  BY <1>19 DEF DeviceDetected, Deciding
<1>20. ASSUME NEW d \in Devices, DeviceRemoved(d) PROVE EvidenceMatchesOutcome'
  BY <1>20 DEF DeviceRemoved, Deciding
<1>21. CASE ListRunning
  BY <1>21 DEF ListRunning, Deciding
<1>22. ASSUME NEW o \in Ops, CancelVictim(o) PROVE EvidenceMatchesOutcome'
  BY <1>22 DEF CancelVictim, Deciding
<1>23. CASE FailVictim
  BY <1>23 DEF FailVictim, Deciding, RecordsHaveDevices, MarkOfRun
<1>24. CASE EndRemoval
  BY <1>24 DEF EndRemoval, Deciding
<1>25. ASSUME NEW o \in Ops, RequestCancel(o) PROVE EvidenceMatchesOutcome'
  BY <1>25 DEF RequestCancel, Deciding
<1>26. ASSUME NEW d \in Devices, ClearDirty(d) PROVE EvidenceMatchesOutcome'
  BY <1>26 DEF ClearDirty, Deciding
<1>27. CASE BeginFence
  BY <1>27 DEF BeginFence, Deciding
<1>28. CASE FailFence
  BY <1>28 DEF FailFence, Deciding
<1>29. CASE CommitQuit
  BY <1>29 DEF CommitQuit, Deciding
<1>30. CASE SweepTokens
  BY <1>30 DEF SweepTokens, Deciding, GateHasOwner
<1>31. CASE UNCHANGED vars
  BY <1>31 DEF vars, Deciding, Deciding
<1> QED
  BY <1>1, <1>2, <1>3, <1>4, <1>5, <1>6, <1>7, <1>8, <1>9, <1>10, <1>11, <1>12,
     <1>13, <1>14, <1>15, <1>16, <1>17, <1>18, <1>19, <1>20, <1>21, <1>22,
     <1>23, <1>24, <1>25, <1>26, <1>27, <1>28, <1>29, <1>30, <1>31
     DEF OperationsNext, RunBeforeDetach, RunTransfer, RunOutcome, RemovalNext,
         RequestNext, QuitNext

----------------------------------------------------------------------------
(* The theorems.                                                           *)

LEMMA InvariantInit == OperationsInit => OperationsInvariant
<1> SUFFICES ASSUME OperationsInit PROVE OperationsInvariant
  OBVIOUS
<1> USE OperationsAssumption DEF OperationsInit
<1>1. OperationsTypeOK
  <2>1. run \in Runs
    BY RunUpdates
  <2>2. removal \in Removals
    BY DEF Removals, NoRemoval
  <2>3. GateHasOwner
    BY DEF GateHasOwner, NoRun
  <2>4. connection \in [Devices -> 0..MaxConnections]
    OBVIOUS
  <2>5. /\ status \in [Ops -> {"absent", "running", "complete", "failed", "cancelled"}]
        /\ target \in [Ops -> Devices \cup {NoOp}]
        /\ errors \in [Ops -> BOOLEAN] /\ token \in [Ops -> BOOLEAN]
    OBVIOUS
  <2> QED
    BY <2>1, <2>2, <2>3, <2>4, <2>5 DEF OperationsTypeOK
<1>2. RunOwnsRecord /\ RecordsHaveDevices
  BY DEF RunOwnsRecord, RecordsHaveDevices, NoRun, NoRemoval, Attached, Detached
<1>3. RunningIsConnectedOrDoomed /\ EarlyIsSeen /\ CommittedQuitReachesEveryOperation
  BY DEF RunningIsConnectedOrDoomed, RunningOps, EarlyIsSeen,
         CommittedQuitReachesEveryOperation
<1>4. MarkOfRun /\ EvidenceMatchesOutcome
  BY DEF MarkOfRun, EvidenceMatchesOutcome, NoRun, Detached
<1> QED
  BY <1>1, <1>2, <1>3, <1>4 DEF OperationsInvariant

LEMMA InvariantStep ==
  OperationsInvariant /\ [OperationsNext]_vars => OperationsInvariant'
<1> SUFFICES ASSUME OperationsInvariant, [OperationsNext]_vars
             PROVE  OperationsInvariant'
  OBVIOUS
<1> USE DEF OperationsInvariant
<1>1. GateHasOwner'
  BY GateStep
<1>2. OperationsTypeOK'
  BY <1>1, ValuesStep
<1>3. RunOwnsRecord' /\ RecordsHaveDevices'
  BY RunStep, RecordsStep
<1>4. RunningIsConnectedOrDoomed' /\ EarlyIsSeen' /\ CommittedQuitReachesEveryOperation'
  BY ConnectedStep, EarlyStep, QuitStep
<1>5. MarkOfRun' /\ EvidenceMatchesOutcome'
  BY MarkStep, EvidenceStep
<1> QED
  BY <1>2, <1>3, <1>4, <1>5

\* OperationsInvariant holds in every state of the ledger.
THEOREM LedgerInvariant == OperationsSpec => []OperationsInvariant
  BY InvariantInit, InvariantStep, PTL DEF OperationsSpec

\* Every variable of the ledger keeps its type, and the finalization gate is
\* held exactly while a finalizer or commit_shutdown is between its decision and
\* its last store.
THEOREM LedgerTypeCorrect == OperationsSpec => []OperationsTypeOK
<1>1. OperationsInvariant => OperationsTypeOK
  BY DEF OperationsInvariant
<1> QED
  BY <1>1, LedgerInvariant, PTL

\* A cancellation accepted before the decision of the finalizer is never
\* answered by Complete.
THEOREM CancellationWins == OperationsSpec => []CancellationOwnsOutcome
<1>1. OperationsInvariant => CancellationOwnsOutcome
  BY DEF OperationsInvariant, EarlyIsSeen, CancellationOwnsOutcome
<1> QED
  BY <1>1, LedgerInvariant, PTL

\* After a removal no Running record targets the removed device.
THEOREM RemovalIsComplete == OperationsSpec => []RemovedDeviceHasNoRunning
<1>1. OperationsInvariant => RemovedDeviceHasNoRunning
  BY DEF OperationsInvariant, RunningIsConnectedOrDoomed, RemovalWillFail,
         RemovedDeviceHasNoRunning
<1> QED
  BY <1>1, LedgerInvariant, PTL

\* A committed Quit leaves no running operation without its cancel token.
THEOREM QuitReachesEveryOperation == OperationsSpec => []CommittedQuitReachesEveryOperation
<1>1. OperationsInvariant => CommittedQuitReachesEveryOperation
  BY DEF OperationsInvariant
<1> QED
  BY <1>1, LedgerInvariant, PTL

\* The dirty flag of a device agrees with the published outcome of the operation
\* that set it.
THEOREM EvidenceIsTruthful == OperationsSpec => []EvidenceMatchesOutcome
<1>1. OperationsInvariant => EvidenceMatchesOutcome
  BY DEF OperationsInvariant
<1> QED
  BY <1>1, LedgerInvariant, PTL

\* No step rewrites an outcome.
LEMMA OutcomeStep ==
  ASSUME OperationsInvariant, [OperationsNext]_vars, NEW o \in Ops,
         status[o] \notin {"absent", "running"}
  PROVE  status'[o] = status[o]
<1> USE DEF ledgerVars, OperationsInvariant, OperationsTypeOK
<1>1. CASE AdmitOperation
  BY <1>1 DEF AdmitOperation
<1>2. CASE WriteFailure
  BY <1>2 DEF WriteFailure
<1>3. CASE PublishOutcome
  <2>1. status[run.op] = "running"
    BY <1>3 DEF PublishOutcome, RunOwnsRecord
  <2> QED
    BY <1>3, <2>1 DEF PublishOutcome
<1>4. CASE FailVictim
  BY <1>4 DEF FailVictim
<1>5. CASE UNCHANGED status
  BY <1>5
<1>6. \/ AdmitOperation \/ WriteFailure \/ PublishOutcome \/ FailVictim
      \/ UNCHANGED status
  <2>1. CASE RunBeforeDetach
    BY <2>1 DEF RunBeforeDetach, StartRun, LeaveUnadmitted, MarkDirty, FailAdmitted,
                Detach, AbortRequest
  <2>2. CASE RunTransfer
    BY <2>2 DEF RunTransfer, StageItem, SnapshotOperation, UpdateOperation,
                FinishTransfer, AbortTransfer
  <2>3. CASE RunOutcome
    BY <2>3 DEF RunOutcome, KeepOutcome, DecideOutcome, CommitManifest, EndRun
  <2>4. CASE RemovalNext
    BY <2>4 DEF RemovalNext, DeviceDetected, DeviceRemoved, ListRunning, CancelVictim,
                EndRemoval
  <2>5. CASE RequestNext
    BY <2>5 DEF RequestNext, RequestCancel, ClearDirty
  <2>6. CASE QuitNext
    BY <2>6 DEF QuitNext, BeginFence, FailFence, CommitQuit, SweepTokens
  <2>7. CASE UNCHANGED vars
    BY <2>7 DEF vars
  <2> QED
    BY <2>1, <2>2, <2>3, <2>4, <2>5, <2>6, <2>7 DEF OperationsNext
<1> QED
  BY <1>1, <1>2, <1>3, <1>4, <1>5, <1>6

\* An outcome, once published, is final.
THEOREM OutcomeIsFinal == OperationsSpec => TerminalIsFinal
<1>1. OperationsInvariant /\ [OperationsNext]_vars =>
        [\A o \in Ops : status[o] \notin {"absent", "running"} => status'[o] = status[o]]_vars
  BY OutcomeStep
<1> QED
  BY <1>1, LedgerInvariant, PTL DEF OperationsSpec, TerminalIsFinal

(***************************************************************************)
(* The safety of a transfer (SyncStaging), for any number of servers,      *)
(* files and bytes. StagingInv is inductive. Its first half relates the    *)
(* budget to the permits: each permit covers what its file has on the disk *)
(* and is about to write. Its second half follows a file through the plan: *)
(* what a producer has passed is on its way to the device, what it has not *)
(* come to is as planned, and what is closed was reported.                 *)
(***************************************************************************)

FileStages == {"planned", "counting", "acquiring", "closed"} \cup Partial \cup Complete
Held == Partial \cup Complete
Encoding == {"encoding", "encoded", "shrinking", "completing", "sending"}
Handed == {"queued", "writing", "closed"}

StagingTypeOK ==
  /\ at \in [Producers -> {"items", "joining", "ended"}]
  /\ next \in [Producers -> Nat \ {0}]
  /\ arrived \subseteq Producers
  /\ stage \in [Files -> FileStages]
  /\ attempt \in [Files -> {1, 2}] /\ phase \in [Files -> {"stream", "tag"}]
  /\ want \in [Files -> Nat] /\ size \in [Files -> Nat] /\ disk \in [Files -> Nat]
  /\ bytes \in [Files -> Nat]
  /\ waiting \subseteq Files
  /\ budget \in [used : Int, complete : Int, partial : Int, waiters : Int]
  /\ queue \in Seq(Files)
  /\ writer \in {"receiving", "writing", "joining", "closed"}
  /\ writerFailed \in BOOLEAN /\ cancelled \in BOOLEAN
  /\ outcome \in [Files -> {"none", "warned", "error", "written"}]

\* The place in which a producer is.
PlacesInPlan ==
  \A p \in Producers :
    /\ next[p] <= Len(Plan[p]) + 1
    /\ at[p] # "items" /\ ~cancelled => next[p] = Len(Plan[p]) + 1

\* A permit covers what its file has on the disk, and what it is about to have.
FitsPermit(f) ==
  /\ stage[f] \notin Held => bytes[f] = 0 /\ disk[f] = 0 /\ size[f] = 0
  /\ stage[f] \in {"streaming", "growing", "granted", "refused", "failed", "encoding"} =>
       disk[f] = size[f] /\ size[f] + Headroom[f] <= bytes[f]
  /\ stage[f] = "granted" => want[f] + Headroom[f] <= bytes[f]
  /\ stage[f] = "tagging" => size[f] + Headroom[f] <= bytes[f] /\ disk[f] <= bytes[f]
  /\ stage[f] = "encoded" => size[f] <= bytes[f] /\ disk[f] <= bytes[f]
  /\ stage[f] \in {"shrinking", "completing"} \cup Complete =>
       disk[f] = size[f] /\ size[f] <= bytes[f]
  /\ stage[f] = "acquiring" => Headroom[f] <= want[f]
  /\ stage[f] = "counting" => Headroom[f] <= want[f]
FilesFitPermits == \A f \in Files : FitsPermit(f)

\* Who was told an answer is still registered.
AnsweredAreRegistered == \A f \in Files : stage[f] \in {"granted", "refused"} => f \in waiting

BudgetKept ==
  /\ FilesFitPermits /\ AnsweredAreRegistered
  /\ BudgetMatchesPermits
  /\ budget.used <= MaxBytes

\* The channel has the queued files, each once.
QueueHasQueued ==
  /\ \A i \in DOMAIN queue : stage[queue[i]] = "queued"
  /\ \A i, j \in DOMAIN queue : queue[i] = queue[j] => i = j
  /\ \A f \in Files : stage[f] = "queued" => \E i \in DOMAIN queue : queue[i] = f

BudgetInv == StagingTypeOK /\ BudgetKept /\ QueueHasQueued

\* What a producer has not come to is as planned; what it was at when it broke off is
\* not begun or closed. Only files of Local come to the encoder.
AheadIsPlanned ==
  /\ \A p \in Producers : \A i \in DOMAIN Plan[p] :
       /\ i > next[p] => stage[Plan[p][i]] = "planned"
       /\ i = next[p] /\ at[p] # "items" => stage[Plan[p][i]] \in {"planned", "closed"}
  /\ \A f \in Files : stage[f] \in {"encoding", "encoded"} => f \in Local

\* A producer has passed a file that is on its way to the device, or was given up.
Passed(f, s) == s \in Handed \/ (f \in Local /\ s \in Encoding)
PassedOn(f)  == Passed(f, stage[f])
PassedAreOnTheirWay ==
  \A p \in Producers : \A i \in DOMAIN Plan[p] : i < next[p] => PassedOn(Plan[p][i])

\* Behind the barrier the chosen files are through.
Through(f) == stage[f] \notin {"planned"} \cup Download
ArrivedAreThrough ==
  ~cancelled => \A p \in arrived : \A i \in DOMAIN Plan[p] :
                   Plan[p][i] \notin AutoFill => Through(Plan[p][i])

\* A producer that has ended left no encoding behind.
EndedHaveNoEncodings == \A p \in Producers : at[p] = "ended" => EncodingsOf(p) = {}

\* What the writer has, and what waits for it.
WriterHasFiles ==
  /\ writerFailed => cancelled
  /\ \A f \in Files : stage[f] = "writing" => writer = "writing"
  /\ \A f, g \in Files : stage[f] = "writing" /\ stage[g] = "writing" => f = g
  /\ writer \in {"joining", "closed"} /\ ~cancelled => queue = <<>> /\ ~SendersLeft

\* A file that is closed was reported.
ClosedAreReported ==
  ~cancelled => \A f \in Files : stage[f] = "closed" => outcome[f] # "none"

StagingInv ==
  /\ BudgetInv
  /\ PlacesInPlan
  /\ AheadIsPlanned
  /\ PassedAreOnTheirWay
  /\ ArrivedAreThrough
  /\ ManualBeforeAutoFill
  /\ EndedHaveNoEncodings
  /\ WriterHasFiles
  /\ ClosedAreReported

(***************************************************************************)
(* Sums: the bytes of a set of files.                                      *)
(***************************************************************************)

\* The bytes of one file.
LEMMA BytesOfOne ==
  ASSUME NEW f, NEW n \in Nat
  PROVE  IsFiniteSet({f} \X (1..n)) /\ Cardinality({f} \X (1..n)) = n
<1>1. IsFiniteSet({f}) /\ Cardinality({f}) = 1
  BY FS_Singleton
<1>2. IsFiniteSet(1..n) /\ Cardinality(1..n) = IF 1 > n THEN 0 ELSE n - 1 + 1
  BY FS_Interval
<1>3. Cardinality(1..n) = n
  BY <1>2
<1>4. /\ IsFiniteSet({f} \X (1..n))
      /\ Cardinality({f} \X (1..n)) = Cardinality({f}) * Cardinality(1..n)
  BY <1>1, <1>2, FS_Product
<1>5. 1 * n = n
  OBVIOUS
<1> QED
  BY <1>1, <1>3, <1>4, <1>5

LEMMA BytesAreFinite ==
  ASSUME NEW S, IsFiniteSet(S), NEW field, \A f \in S : field[f] \in Nat
  PROVE  IsFiniteSet(BytesOf(field, S)) /\ Total(field, S) \in Nat
<1> DEFINE T == {{f} \X (1..field[f]) : f \in S}
<1>1. IsFiniteSet(T)
  <2> DEFINE piece == [f \in S |-> {f} \X (1..field[f])]
  <2>1. piece \in [S -> T]
    OBVIOUS
  <2>2. \A P \in T : \E f \in S : piece[f] = P
    OBVIOUS
  <2>3. piece \in Surjection(S, T)
    <3> HIDE DEF piece, T
    <3> QED
      BY <2>1, <2>2 DEF Surjection
  <2>4. \E h : h \in Surjection(S, T)
    <3> HIDE DEF piece, T
    <3> QED
      BY <2>3
  <2> HIDE DEF piece, T
  <2> QED
    BY <2>4, FS_Surjection
<1>2. \A P \in T : IsFiniteSet(P)
  <2> SUFFICES ASSUME NEW f \in S PROVE IsFiniteSet({f} \X (1..field[f]))
    OBVIOUS
  <2>1. field[f] \in Nat
    OBVIOUS
  <2> QED
    BY <2>1, BytesOfOne
<1>3. IsFiniteSet(UNION T)
  <2> HIDE DEF T
  <2> QED
    BY <1>1, <1>2, FS_UNION
<1> QED
  BY <1>3, FS_CardinalityType DEF BytesOf, Total

\* A file more counts its bytes more.
LEMMA TotalWithOne ==
  ASSUME NEW S, IsFiniteSet(S), NEW f, f \notin S, NEW field, \A g \in S \cup {f} : field[g] \in Nat
  PROVE  Total(field, S \cup {f}) = Total(field, S) + field[f] /\ Total(field, S) \in Nat
<1> DEFINE old == BytesOf(field, S)
           more == {f} \X (1..field[f])
<1>1. BytesOf(field, S \cup {f}) = old \cup more
  BY DEF BytesOf
<1>2. old \cap more = {}
  BY DEF BytesOf
<1>3. IsFiniteSet(old) /\ Cardinality(old) \in Nat
  BY BytesAreFinite DEF Total
<1>4. field[f] \in Nat
  OBVIOUS
<1>5. IsFiniteSet(more) /\ Cardinality(more) = field[f]
  BY <1>4, BytesOfOne
<1>6. Cardinality({}) = 0
  BY FS_EmptySet
<1>7. Cardinality(old \cup more) = Cardinality(old) + field[f]
  <2> HIDE DEF old, more
  <2>1. Cardinality(old \cup more) = Cardinality(old) + Cardinality(more) - Cardinality(old \cap more)
    BY <1>3, <1>5, FS_Union
  <2>2. Cardinality(old \cap more) = 0
    BY <1>2, <1>6
  <2>3. \A x, y \in Nat : x + y - 0 = x + y
    OBVIOUS
  <2> QED
    BY <2>1, <2>2, <2>3, <1>3, <1>4, <1>5
<1>8. Total(field, S) = Cardinality(old) /\ Total(field, S \cup {f}) = Cardinality(old \cup more)
  BY <1>1 DEF Total
<1> HIDE DEF old, more
<1> QED
  BY <1>3, <1>7, <1>8

LEMMA SameBytes ==
  ASSUME NEW S, NEW a, NEW b, \A f \in S : a[f] = b[f]
  PROVE  Total(a, S) = Total(b, S)
<1>1. BytesOf(a, S) = BytesOf(b, S)
  BY DEF BytesOf
<1> QED
  BY <1>1 DEF Total

\* Files without bytes do not count; more files, and larger ones, have more bytes.
LEMMA TotalGrows ==
  ASSUME NEW S, NEW T, IsFiniteSet(T), NEW a, NEW b,
         \A f \in T : b[f] \in Nat,
         \A f \in S : a[f] \in Nat /\ (a[f] = 0 \/ (f \in T /\ a[f] <= b[f]))
  PROVE  Total(a, S) <= Total(b, T)
<1>1. BytesOf(a, S) \subseteq BytesOf(b, T)
  <2> SUFFICES ASSUME NEW f \in S, NEW x \in {f} \X (1..a[f]) PROVE x \in BytesOf(b, T)
    BY DEF BytesOf
  <2>1. f \in T /\ a[f] <= b[f] /\ a[f] \in Nat /\ b[f] \in Nat
    OBVIOUS
  <2>2. 1..a[f] \subseteq 1..b[f]
    BY <2>1
  <2>3. x \in {f} \X (1..b[f])
    BY <2>2
  <2> QED
    BY <2>1, <2>3 DEF BytesOf
<1>2. IsFiniteSet(BytesOf(b, T))
  BY BytesAreFinite
<1> QED
  BY <1>1, <1>2, FS_Subset DEF Total

\* One file moves from a set to another, or changes its bytes.
LEMMA TotalMoves ==
  ASSUME NEW S, NEW T, IsFiniteSet(S), NEW f, NEW a, NEW b,
         S \ {f} = T \ {f}, \A g \in S \ {f} : a[g] \in Nat /\ b[g] = a[g],
         a[f] \in Nat, b[f] \in Nat
  PROVE  /\ Total(a, S) \in Nat /\ Total(b, T) \in Nat
         /\ Total(b, T) = Total(a, S) - (IF f \in S THEN a[f] ELSE 0)
                                     + (IF f \in T THEN b[f] ELSE 0)
<1> DEFINE R == S \ {f}
<1>1. IsFiniteSet(R) /\ f \notin R /\ R = T \ {f}
  BY FS_RemoveElement
<1>2. Total(a, R) \in Nat /\ Total(b, R) \in Nat /\ Total(a, R) = Total(b, R)
  BY <1>1, BytesAreFinite, SameBytes
<1>3. Total(a, S) = Total(a, R) + (IF f \in S THEN a[f] ELSE 0)
  <2>1. CASE f \in S
    <3>1. S = R \cup {f}
      BY <2>1
    <3> QED
      BY <1>1, <2>1, <3>1, TotalWithOne
  <2>2. CASE f \notin S
    <3>1. S = R
      BY <2>2
    <3> HIDE DEF R
    <3> QED
      BY <1>2, <2>2, <3>1
  <2> QED
    BY <2>1, <2>2
<1>4. Total(b, T) = Total(b, R) + (IF f \in T THEN b[f] ELSE 0)
  <2>1. CASE f \in T
    <3>1. T = R \cup {f}
      BY <2>1
    <3> QED
      BY <1>1, <2>1, <3>1, TotalWithOne
  <2>2. CASE f \notin T
    <3>1. T = R
      BY <2>2
    <3> HIDE DEF R
    <3> QED
      BY <1>2, <2>2, <3>1
  <2> QED
    BY <2>1, <2>2
<1> HIDE DEF R
<1> QED
  BY <1>2, <1>3, <1>4

LEMMA CountMoves ==
  ASSUME NEW S, NEW T, IsFiniteSet(S), NEW f, S \ {f} = T \ {f}
  PROVE  /\ Cardinality(S) \in Nat
         /\ Cardinality(T) = Cardinality(S) - (IF f \in S THEN 1 ELSE 0) + (IF f \in T THEN 1 ELSE 0)
<1> DEFINE R == S \ {f}
<1>1. IsFiniteSet(R) /\ Cardinality(R) = IF f \in S THEN Cardinality(S) - 1 ELSE Cardinality(S)
  BY FS_RemoveElement
<1>2. Cardinality(R) \in Nat /\ Cardinality(S) \in Nat
  BY <1>1, FS_CardinalityType
<1>3. Cardinality(R) = Cardinality(S) - (IF f \in S THEN 1 ELSE 0)
  <2> HIDE DEF R
  <2> QED
    BY <1>1, <1>2
<1>4. Cardinality(T) = Cardinality(R) + (IF f \in T THEN 1 ELSE 0)
  <2>1. CASE f \in T
    <3>1. T = R \cup {f} /\ f \notin R
      BY <2>1
    <3>2. Cardinality(R \cup {f}) = Cardinality(R) + 1
      <4> HIDE DEF R
      <4> QED
        BY <1>1, <3>1, FS_AddElement
    <3> HIDE DEF R
    <3> QED
      BY <2>1, <3>1, <3>2
  <2>2. CASE f \notin T
    <3>1. T = R
      BY <2>2
    <3> HIDE DEF R
    <3> QED
      BY <1>2, <2>2, <3>1
  <2> QED
    BY <2>1, <2>2
<1> HIDE DEF R
<1> QED
  BY <1>2, <1>3, <1>4


(***************************************************************************)
(* One file moves.                                                         *)
(***************************************************************************)

OthersStand(f) ==
  \A g \in Files \ {f} :
    stage'[g] = stage[g] /\ want'[g] = want[g] /\ size'[g] = size[g]
    /\ disk'[g] = disk[g] /\ bytes'[g] = bytes[g]

BudgetMoves(f) ==
  /\ budget'.used = budget.used - bytes[f] + bytes'[f]
  /\ budget'.complete = budget.complete - (IF stage[f] \in Complete THEN bytes[f] ELSE 0)
                                        + (IF stage'[f] \in Complete THEN bytes'[f] ELSE 0)
  /\ budget'.partial = budget.partial - (IF stage[f] \in Partial THEN 1 ELSE 0)
                                      + (IF stage'[f] \in Partial THEN 1 ELSE 0)
  /\ budget'.waiters = budget.waiters - (IF f \in waiting THEN 1 ELSE 0)
                                      + (IF f \in waiting' THEN 1 ELSE 0)
  /\ waiting' \ {f} = waiting \ {f}
  /\ bytes'[f] <= bytes[f] \/ budget'.used <= MaxBytes

\* The files in some stages are those they were, but for the one that moves.
LEMMA PermitsMove ==
  ASSUME NEW f \in Files, OthersStand(f), NEW S
  PROVE  PermitsOf(S) \ {f} = PermitsOf(S)' \ {f}
BY DEF OthersStand, PermitsOf

LEMMA FileMoves ==
  ASSUME StagingTypeOK, StagingTypeOK', BudgetKept, NEW f \in Files,
         OthersStand(f), BudgetMoves(f), FitsPermit(f)',
         stage'[f] \in {"granted", "refused"} => f \in waiting'
  PROVE  BudgetKept'
<1> DEFINE held == PermitsOf(Partial \cup Complete)
           whole == PermitsOf(Complete)
           part == PermitsOf(Partial)
<1>1. /\ held \ {f} = held' \ {f}
      /\ whole \ {f} = whole' \ {f}
      /\ part \ {f} = part' \ {f}
  BY PermitsMove
<1>2. IsFiniteSet(held) /\ IsFiniteSet(whole) /\ IsFiniteSet(part) /\ IsFiniteSet(waiting)
  <2>1. held \subseteq Files /\ whole \subseteq Files /\ part \subseteq Files /\ waiting \subseteq Files
    BY DEF PermitsOf, StagingTypeOK
  <2> QED
    BY <2>1, FS_Subset, StagingAssumption
<1>3. \A g \in Files : bytes[g] \in Nat /\ bytes'[g] \in Nat
  BY DEF StagingTypeOK
<1>4. \A g \in Files \ {f} : bytes'[g] = bytes[g]
  BY DEF OthersStand
<1>5. \A g \in held \cup whole \cup part : g \in Files
  BY DEF PermitsOf
<1>6. /\ f \in held <=> stage[f] \in Partial \cup Complete
      /\ f \in held' <=> stage'[f] \in Partial \cup Complete
      /\ f \in whole <=> stage[f] \in Complete
      /\ f \in whole' <=> stage'[f] \in Complete
      /\ f \in part <=> stage[f] \in Partial
      /\ f \in part' <=> stage'[f] \in Partial
  BY DEF PermitsOf
<1>7. /\ stage[f] \notin Partial \cup Complete => bytes[f] = 0
      /\ stage'[f] \notin Partial \cup Complete => bytes'[f] = 0
  BY DEF BudgetKept, FilesFitPermits, FitsPermit, Held
<1>8. budget'.used = Total(bytes', held')
  <2>1. Total(bytes', held') = Total(bytes, held) - (IF f \in held THEN bytes[f] ELSE 0)
                                                + (IF f \in held' THEN bytes'[f] ELSE 0)
    <3>1. \A g \in held \ {f} : bytes[g] \in Nat /\ bytes'[g] = bytes[g]
      BY <1>3, <1>4, <1>5
    <3> HIDE DEF held, whole, part
    <3> QED
      BY <3>1, <1>1, <1>2, <1>3, TotalMoves
  <2>2. budget.used = Total(bytes, held)
    BY DEF BudgetKept, BudgetMatchesPermits
  <2>3. budget'.used = budget.used - bytes[f] + bytes'[f]
    BY DEF BudgetMoves
  <2> HIDE DEF held
  <2> QED
    BY <2>1, <2>2, <2>3, <1>6, <1>7
<1>9. budget'.complete = Total(bytes', whole')
  <2>1. Total(bytes', whole') = Total(bytes, whole) - (IF f \in whole THEN bytes[f] ELSE 0)
                                                + (IF f \in whole' THEN bytes'[f] ELSE 0)
    <3>1. \A g \in whole \ {f} : bytes[g] \in Nat /\ bytes'[g] = bytes[g]
      BY <1>3, <1>4, <1>5
    <3> HIDE DEF held, whole, part
    <3> QED
      BY <3>1, <1>1, <1>2, <1>3, TotalMoves
  <2>2. budget.complete = Total(bytes, whole)
    BY DEF BudgetKept, BudgetMatchesPermits
  <2> HIDE DEF whole
  <2> QED
    BY <2>1, <2>2, <1>6 DEF BudgetMoves
<1>10. budget'.partial = Cardinality(part')
  <2>1. Cardinality(part') = Cardinality(part) - (IF f \in part THEN 1 ELSE 0)
                                               + (IF f \in part' THEN 1 ELSE 0)
    <3> HIDE DEF part
    <3> QED
      BY <1>1, <1>2, CountMoves
  <2>2. budget.partial = Cardinality(part)
    BY DEF BudgetKept, BudgetMatchesPermits
  <2> HIDE DEF part
  <2> QED
    BY <2>1, <2>2, <1>6 DEF BudgetMoves
<1>11. budget'.waiters = Cardinality(waiting')
  <2>1. waiting \ {f} = waiting' \ {f}
    BY DEF BudgetMoves
  <2>2. Cardinality(waiting') = Cardinality(waiting) - (IF f \in waiting THEN 1 ELSE 0)
                                                     + (IF f \in waiting' THEN 1 ELSE 0)
    BY <2>1, <1>2, CountMoves
  <2>3. budget.waiters = Cardinality(waiting)
    BY DEF BudgetKept, BudgetMatchesPermits
  <2> QED
    BY <2>2, <2>3 DEF BudgetMoves
<1>12. BudgetMatchesPermits'
  BY <1>8, <1>9, <1>10, <1>11 DEF BudgetMatchesPermits
<1>13. budget'.used <= MaxBytes
  <2>1. budget'.used = budget.used - bytes[f] + bytes'[f] /\ (bytes'[f] <= bytes[f] \/ budget'.used <= MaxBytes)
    BY DEF BudgetMoves
  <2>2. budget.used \in Int /\ budget.used <= MaxBytes /\ MaxBytes \in Nat
    BY StagingAssumption DEF StagingTypeOK, BudgetKept
  <2> QED
    BY <2>1, <2>2, <1>3
<1>14. FilesFitPermits'
  <2> SUFFICES ASSUME NEW g \in Files PROVE FitsPermit(g)'
    BY DEF FilesFitPermits
  <2>1. CASE g = f
    BY <2>1
  <2>2. CASE g # f
    <3>1. FitsPermit(g)
      BY DEF BudgetKept, FilesFitPermits
    <3>2. stage'[g] = stage[g] /\ want'[g] = want[g] /\ size'[g] = size[g]
          /\ disk'[g] = disk[g] /\ bytes'[g] = bytes[g]
      BY <2>2 DEF OthersStand
    <3> QED
      BY <3>1, <3>2 DEF FitsPermit
  <2> QED
    BY <2>1, <2>2
<1>15. AnsweredAreRegistered'
  BY DEF AnsweredAreRegistered, BudgetKept, OthersStand, BudgetMoves
<1> QED
  BY <1>12, <1>13, <1>14, <1>15 DEF BudgetKept

(***************************************************************************)
(* Types.                                                                  *)
(***************************************************************************)

LEMMA FileStageNames ==
  /\ {"planned", "counting", "acquiring", "closed"} \subseteq FileStages
  /\ {"streaming", "growing", "granted", "refused", "tagging", "failed", "encoding", "encoded",
      "shrinking", "completing"} \subseteq FileStages
  /\ {"sending", "queued", "writing"} \subseteq FileStages
BY DEF FileStages, Partial, Complete

LEMMA PlanHasFiles ==
  ASSUME NEW p \in Producers
  PROVE  /\ Plan[p] \in Seq(Files)
         /\ \A i \in DOMAIN Plan[p] : i \in Nat \ {0} /\ i <= Len(Plan[p]) /\ Plan[p][i] \in Files
BY StagingAssumption

\* A current file is a file, and its producer is at it.
LEMMA CurrentIsFile ==
  ASSUME StagingTypeOK, NEW p \in Producers, HasItem(p)
  PROVE  Plan[p][next[p]] \in Files
BY PlanHasFiles DEF HasItem

FileTypes ==
  /\ stage \in [Files -> FileStages]
  /\ attempt \in [Files -> {1, 2}] /\ phase \in [Files -> {"stream", "tag"}]
  /\ want \in [Files -> Nat] /\ size \in [Files -> Nat] /\ disk \in [Files -> Nat]
  /\ bytes \in [Files -> Nat]
  /\ budget \in [used : Int, complete : Int, partial : Int, waiters : Int]

RestTypes ==
  /\ at \in [Producers -> {"items", "joining", "ended"}]
  /\ next \in [Producers -> Nat \ {0}]
  /\ arrived \subseteq Producers
  /\ waiting \subseteq Files
  /\ queue \in Seq(Files)
  /\ writer \in {"receiving", "writing", "joining", "closed"}
  /\ writerFailed \in BOOLEAN /\ cancelled \in BOOLEAN
  /\ outcome \in [Files -> {"none", "warned", "error", "written"}]

LEMMA TypesTogether == StagingTypeOK <=> FileTypes /\ RestTypes
BY DEF StagingTypeOK, FileTypes, RestTypes

LEMMA ClosedTypes ==
  ASSUME FileTypes, NEW f \in Files, Close(f)
  PROVE  FileTypes'
<1>1. budget' \in [used : Int, complete : Int, partial : Int, waiters : Int]
  <2>1. bytes[f] \in Int
    BY DEF FileTypes
  <2>2. budget.used - bytes[f] \in Int /\ budget.complete - bytes[f] \in Int /\ budget.partial - 1 \in Int
    BY <2>1 DEF FileTypes
  <2> QED
    BY <2>2 DEF Close, FileTypes
<1> QED
  BY <1>1, FileStageNames DEF Close, FileTypes

\* Where the loop goes, and how a file fails.
LEMMA LoopTypes ==
  ASSUME RestTypes, NEW p \in Producers, Advance(p) \/ Break(p) \/ Stay
  PROVE  at' \in [Producers -> {"items", "joining", "ended"}] /\ next' \in [Producers -> Nat \ {0}]
<1>1. CASE Advance(p)
  <2>1. next[p] + 1 \in Nat \ {0}
    BY DEF RestTypes
  <2> QED
    BY <1>1, <2>1 DEF Advance, RestTypes
<1>2. CASE Break(p)
  BY <1>2 DEF Break, RestTypes
<1>3. CASE Stay
  BY <1>3 DEF Stay, RestTypes
<1> QED
  BY <1>1, <1>2, <1>3

LEMMA BlameTypes ==
  ASSUME RestTypes, NEW f \in Files, Blame(f)
  PROVE  cancelled' \in BOOLEAN /\ outcome' \in [Files -> {"none", "warned", "error", "written"}]
<1>1. CASE f \in AutoFill
  BY <1>1 DEF Blame, RestTypes
<1>2. CASE f \notin AutoFill
  BY <1>2 DEF Blame, RestTypes
<1> QED
  BY <1>1, <1>2

LEMMA NumberTypes ==
  ASSUME FileTypes, NEW f \in Files
  PROVE  /\ MaxBytes \in Nat /\ MaxSize \in Nat /\ Headroom[f] \in Nat
         /\ \A n \in Reservations[f] : n \in Nat /\ Headroom[f] <= n
         /\ bytes[f] \in Nat /\ want[f] \in Nat /\ size[f] \in Nat /\ disk[f] \in Nat
         /\ Needed(f) \in Nat /\ Monus(bytes[f], size[f]) \in Nat
         /\ Needed(f) >= want[f] + Headroom[f] - bytes[f]
<1>1. MaxBytes \in Nat /\ MaxSize \in Nat /\ Headroom[f] \in Nat
  BY StagingAssumption
<1>2. \A n \in Reservations[f] : n \in Nat /\ Headroom[f] <= n
  BY StagingAssumption
<1>3. bytes[f] \in Nat /\ want[f] \in Nat /\ size[f] \in Nat /\ disk[f] \in Nat
  BY DEF FileTypes
<1> QED
  BY <1>1, <1>2, <1>3 DEF Needed, Monus

LEMMA StartItemTypes ==
  ASSUME FileTypes, RestTypes, NEW p \in Producers, NEW f \in Files, StartItem(p, f)
  PROVE  FileTypes' /\ RestTypes'
<1>1. FileTypes'
  BY FileStageNames, NumberTypes DEF StartItem, FileTypes, budgetVars
<1>2. RestTypes'
  BY DEF StartItem, Stay, RestTypes, producerVars, writerVars, budgetVars
<1> QED
  BY <1>1, <1>2

LEMMA SkipItemTypes ==
  ASSUME FileTypes, RestTypes, NEW p \in Producers, NEW f \in Files, SkipItem(p, f)
  PROVE  FileTypes' /\ RestTypes'
<1>1. FileTypes'
  BY FileStageNames DEF SkipItem, Blame, AfterBlame, Advance, Break, FileTypes, budgetVars
<1>2. RestTypes'
  <2>1. outcome' \in [Files -> {"none", "warned", "error", "written"}] /\ cancelled' \in BOOLEAN
    <3>1. CASE Blame(f)
      BY <3>1, BlameTypes
    <3>2. CASE outcome' = [outcome EXCEPT ![f] = "warned"] /\ UNCHANGED cancelled
      BY <3>2 DEF RestTypes
    <3> QED
      BY <3>1, <3>2 DEF SkipItem
  <2>2. Advance(p) \/ Break(p)
    BY DEF SkipItem, AfterBlame
  <2> QED
    BY <2>1, <2>2, LoopTypes DEF SkipItem, RestTypes, writerVars, budgetVars
<1> QED
  BY <1>1, <1>2

LEMMA TakeCountTypes ==
  ASSUME FileTypes, RestTypes, NEW p \in Producers, NEW f \in Files, TakeCount(p, f)
  PROVE  FileTypes' /\ RestTypes'
<1>1. FileTypes'
  BY FileStageNames DEF TakeCount, Stay, FileTypes, budgetVars
<1>2. RestTypes'
  BY DEF TakeCount, Stay, RestTypes, producerVars, writerVars, budgetVars
<1> QED
  BY <1>1, <1>2

LEMMA AcquireTypes ==
  ASSUME FileTypes, RestTypes, NEW p \in Producers, NEW f \in Files, Acquire(p, f)
  PROVE  FileTypes' /\ RestTypes'
<1>1. FileTypes'
  <2>1. budget.used + want[f] \in Int /\ budget.partial + 1 \in Int
    BY NumberTypes DEF FileTypes
  <2>2. budget' \in [used : Int, complete : Int, partial : Int, waiters : Int]
    BY <2>1 DEF Acquire, FileTypes
  <2> QED
    BY <2>2, FileStageNames DEF Acquire, FileTypes
<1>2. RestTypes'
  BY DEF Acquire, Stay, RestTypes, producerVars, writerVars, budgetVars
<1> QED
  BY <1>1, <1>2

LEMMA RefuseOversizedTypes ==
  ASSUME FileTypes, RestTypes, NEW p \in Producers, NEW f \in Files, RefuseOversized(p, f)
  PROVE  FileTypes' /\ RestTypes'
<1>1. FileTypes'
  BY FileStageNames DEF RefuseOversized, Advance, Break, FileTypes, budgetVars
<1>2. RestTypes'
  <2>1. outcome' \in [Files -> {"none", "warned", "error", "written"}]
    BY DEF RefuseOversized, RestTypes
  <2>2. Advance(p) \/ Break(p)
    BY DEF RefuseOversized
  <2> QED
    BY <2>1, <2>2, LoopTypes DEF RefuseOversized, RestTypes, writerVars, budgetVars
<1> QED
  BY <1>1, <1>2

LEMMA FailItemTypes ==
  ASSUME FileTypes, RestTypes, NEW p \in Producers, NEW f \in Files, FailItem(p, f)
  PROVE  FileTypes' /\ RestTypes'
<1>1. FileTypes'
  BY ClosedTypes DEF FailItem
<1>2. RestTypes'
  <2>1. outcome' \in [Files -> {"none", "warned", "error", "written"}] /\ cancelled' \in BOOLEAN
    BY BlameTypes DEF FailItem
  <2>2. Advance(p) \/ Break(p)
    BY DEF FailItem, AfterBlame
  <2> QED
    BY <2>1, <2>2, LoopTypes DEF FailItem, RestTypes, writerVars
<1> QED
  BY <1>1, <1>2

LEMMA SpawnEncodingTypes ==
  ASSUME FileTypes, RestTypes, NEW p \in Producers, NEW f \in Files, SpawnEncoding(p, f)
  PROVE  FileTypes' /\ RestTypes'
<1>1. FileTypes'
  <2>1. CASE cancelled
    BY <2>1, ClosedTypes DEF SpawnEncoding
  <2>2. CASE ~cancelled
    BY <2>2 DEF SpawnEncoding, FileTypes, fileVars
  <2> QED
    BY <2>1, <2>2
<1>2. RestTypes'
  <2>1. Advance(p) \/ Break(p)
    BY DEF SpawnEncoding
  <2> QED
    BY <2>1, LoopTypes DEF SpawnEncoding, RestTypes, writerVars
<1> QED
  BY <1>1, <1>2

LEMMA ReceiveChunkTypes ==
  ASSUME FileTypes, RestTypes, NEW f \in Files, ReceiveChunk(f)
  PROVE  FileTypes' /\ RestTypes'
<1>1. FileTypes'
  BY FileStageNames DEF ReceiveChunk, FileTypes, budgetVars
<1>2. RestTypes'
  BY DEF ReceiveChunk, RestTypes, producerVars, writerVars, budgetVars
<1> QED
  BY <1>1, <1>2

LEMMA StreamFailsTypes ==
  ASSUME FileTypes, RestTypes, NEW f \in Files, StreamFails(f)
  PROVE  FileTypes' /\ RestTypes'
<1>1. FileTypes'
  BY FileStageNames DEF StreamFails, FileTypes, budgetVars
<1>2. RestTypes'
  BY DEF StreamFails, RestTypes, producerVars, writerVars, budgetVars
<1> QED
  BY <1>1, <1>2

LEMMA AnswerTypes ==
  ASSUME FileTypes, NEW f \in Files,
         BeforeDrop(f, "granted") \/ BeforeDrop(f, "refused") \/ Granted(f) \/ Refused(f)
  PROVE  /\ stage' \in [Files -> FileStages]
         /\ want' \in [Files -> Nat] /\ size' \in [Files -> Nat] /\ disk' \in [Files -> Nat]
<1>1. CASE BeforeDrop(f, "granted") \/ BeforeDrop(f, "refused")
  BY <1>1, FileStageNames DEF BeforeDrop, FileTypes
<1>2. CASE Granted(f)
  <2>1. want[f] \in Nat
    BY DEF FileTypes
  <2>2. size' \in [Files -> Nat]
    BY <1>2, <2>1 DEF Granted, FileTypes
  <2>3. stage' \in [Files -> FileStages]
    BY <1>2, FileStageNames DEF Granted, FileTypes
  <2> QED
    BY <1>2, <2>1, <2>2, <2>3 DEF Granted, FileTypes
<1>3. CASE Refused(f)
  BY <1>3, FileStageNames DEF Refused, FileTypes
<1> QED
  BY <1>1, <1>2, <1>3

LEMMA GrowTypes ==
  ASSUME FileTypes, RestTypes, NEW f \in Files, Grow(f)
  PROVE  FileTypes' /\ RestTypes'
<1>1. FileTypes'
  <2>1. bytes[f] + Needed(f) \in Nat /\ budget.used + Needed(f) \in Int
    BY NumberTypes DEF FileTypes
  <2>2. budget' \in [used : Int, complete : Int, partial : Int, waiters : Int] /\ bytes' \in [Files -> Nat]
    BY <2>1 DEF Grow, FileTypes
  <2>3. BeforeDrop(f, "granted") \/ Granted(f)
    BY DEF Grow
  <2>4. /\ stage' \in [Files -> FileStages]
        /\ want' \in [Files -> Nat] /\ size' \in [Files -> Nat] /\ disk' \in [Files -> Nat]
    BY <2>3, AnswerTypes
  <2> QED
    BY <2>2, <2>4 DEF Grow, FileTypes
<1>2. RestTypes'
  BY DEF Grow, BeforeDrop, Granted, Needed, Monus, RestTypes, producerVars, writerVars, budgetVars
<1> QED
  BY <1>1, <1>2

LEMMA AwaitGrowthTypes ==
  ASSUME FileTypes, RestTypes, NEW f \in Files, AwaitGrowth(f)
  PROVE  FileTypes' /\ RestTypes'
<1>1. FileTypes'
  BY FileStageNames DEF AwaitGrowth, Registered, FileTypes, budgetVars
<1>2. RestTypes'
  BY DEF AwaitGrowth, Registered, RestTypes, producerVars, writerVars, budgetVars
<1> QED
  BY <1>1, <1>2

LEMMA RefuseGrowthTypes ==
  ASSUME FileTypes, RestTypes, NEW f \in Files, RefuseGrowth(f)
  PROVE  FileTypes' /\ RestTypes'
<1>1. FileTypes'
  BY AnswerTypes DEF RefuseGrowth, FileTypes, budgetVars
<1>2. RestTypes'
  BY DEF RefuseGrowth, BeforeDrop, Refused, RestTypes, producerVars, writerVars, budgetVars
<1> QED
  BY <1>1, <1>2

LEMMA DropWaiterTypes ==
  ASSUME FileTypes, RestTypes, NEW f \in Files, DropWaiter(f)
  PROVE  FileTypes' /\ RestTypes'
<1>1. FileTypes'
  <2>1. budget.waiters - 1 \in Int
    BY DEF FileTypes
  <2>2. budget' \in [used : Int, complete : Int, partial : Int, waiters : Int]
    BY <2>1 DEF DropWaiter, FileTypes
  <2> QED
    BY <2>2, AnswerTypes DEF DropWaiter, FileTypes
<1>2. RestTypes'
  BY DEF DropWaiter, Granted, Refused, RestTypes, producerVars, writerVars, budgetVars
<1> QED
  BY <1>1, <1>2

LEMMA RetryStreamTypes ==
  ASSUME FileTypes, RestTypes, NEW f \in Files, RetryStream(f)
  PROVE  FileTypes' /\ RestTypes'
<1>1. FileTypes'
  BY FileStageNames DEF RetryStream, FileTypes, budgetVars
<1>2. RestTypes'
  BY DEF RetryStream, RestTypes, producerVars, writerVars, budgetVars
<1> QED
  BY <1>1, <1>2

LEMMA ReserveTagsTypes ==
  ASSUME FileTypes, RestTypes, NEW f \in Files, ReserveTags(f)
  PROVE  FileTypes' /\ RestTypes'
<1>1. FileTypes'
  BY FileStageNames DEF ReserveTags, FileTypes, budgetVars
<1>2. RestTypes'
  BY DEF ReserveTags, RestTypes, producerVars, writerVars, budgetVars
<1> QED
  BY <1>1, <1>2

LEMMA RewriteTagsTypes ==
  ASSUME FileTypes, RestTypes, NEW f \in Files, RewriteTags(f)
  PROVE  FileTypes' /\ RestTypes'
<1>1. FileTypes'
  <2>1. stage' \in [Files -> FileStages]
    <3>1. CASE stage' = [stage EXCEPT ![f] = IF f \in Local THEN "encoding" ELSE "shrinking"]
      BY <3>1, FileStageNames DEF FileTypes
    <3>2. CASE stage' = [stage EXCEPT ![f] = "failed"]
      BY <3>2, FileStageNames DEF FileTypes
    <3> QED
      BY <3>1, <3>2 DEF RewriteTags
  <2> QED
    BY <2>1 DEF RewriteTags, FileTypes, budgetVars
<1>2. RestTypes'
  BY DEF RewriteTags, RestTypes, producerVars, writerVars, budgetVars
<1> QED
  BY <1>1, <1>2

LEMMA EndStreamTypes ==
  ASSUME FileTypes, RestTypes, NEW f \in Files, EndStream(f)
  PROVE  FileTypes' /\ RestTypes'
<1>1. FileTypes'
  BY FileStageNames DEF EndStream, FileTypes, budgetVars
<1>2. RestTypes'
  BY DEF EndStream, RestTypes, producerVars, writerVars, budgetVars
<1> QED
  BY <1>1, <1>2

LEMMA ShrinkTypes ==
  ASSUME FileTypes, RestTypes, NEW f \in Files, Shrink(f)
  PROVE  FileTypes' /\ RestTypes'
<1>1. FileTypes'
  <2>1. budget.used - Monus(bytes[f], size[f]) \in Int
    BY NumberTypes DEF FileTypes
  <2>2. budget' \in [used : Int, complete : Int, partial : Int, waiters : Int]
    BY <2>1 DEF Shrink, FileTypes
  <2> QED
    BY <2>2, FileStageNames DEF Shrink, FileTypes
<1>2. RestTypes'
  BY DEF Shrink, Monus, RestTypes, producerVars, writerVars, budgetVars
<1> QED
  BY <1>1, <1>2

LEMMA MarkCompleteTypes ==
  ASSUME FileTypes, RestTypes, NEW f \in Files, MarkComplete(f)
  PROVE  FileTypes' /\ RestTypes'
<1>1. FileTypes'
  <2>1. budget.partial - 1 \in Int /\ budget.complete + bytes[f] \in Int
    BY NumberTypes DEF FileTypes
  <2>2. budget' \in [used : Int, complete : Int, partial : Int, waiters : Int]
    BY <2>1 DEF MarkComplete, FileTypes
  <2> QED
    BY <2>2, FileStageNames DEF MarkComplete, FileTypes
<1>2. RestTypes'
  BY DEF MarkComplete, RestTypes, producerVars, writerVars, budgetVars
<1> QED
  BY <1>1, <1>2

LEMMA SendTypes ==
  ASSUME FileTypes, RestTypes, NEW f \in Files, Send(f)
  PROVE  FileTypes' /\ RestTypes'
<1>1. FileTypes'
  BY FileStageNames DEF Send, FileTypes, budgetVars
<1>2. RestTypes'
  BY DEF Send, RestTypes, producerVars, writerVars, budgetVars
<1> QED
  BY <1>1, <1>2

LEMMA DiscardUnsentTypes ==
  ASSUME FileTypes, RestTypes, NEW f \in Files, DiscardUnsent(f)
  PROVE  FileTypes' /\ RestTypes'
<1>1. FileTypes'
  BY ClosedTypes DEF DiscardUnsent
<1>2. RestTypes'
  BY DEF DiscardUnsent, RestTypes, producerVars, writerVars, budgetVars
<1> QED
  BY <1>1, <1>2

LEMMA EncodeTypes ==
  ASSUME FileTypes, RestTypes, NEW f \in Files, Encode(f)
  PROVE  FileTypes' /\ RestTypes'
<1>1. FileTypes'
  <2>1. PICK n \in 0..OutputRoom(f) : /\ disk' = [disk EXCEPT ![f] = size[f] + n]
                                      /\ size' = [size EXCEPT ![f] = n]
    BY DEF Encode
  <2>2. n \in Nat /\ size[f] + n \in Nat
    BY NumberTypes
  <2> QED
    BY <2>1, <2>2, FileStageNames DEF Encode, FileTypes, budgetVars
<1>2. RestTypes'
  BY DEF Encode, RestTypes, producerVars, writerVars, budgetVars
<1> QED
  BY <1>1, <1>2

LEMMA RemoveOriginalTypes ==
  ASSUME FileTypes, RestTypes, NEW f \in Files, RemoveOriginal(f)
  PROVE  FileTypes' /\ RestTypes'
<1>1. FileTypes'
  BY FileStageNames DEF RemoveOriginal, FileTypes, budgetVars
<1>2. RestTypes'
  BY DEF RemoveOriginal, RestTypes, producerVars, writerVars, budgetVars
<1> QED
  BY <1>1, <1>2

LEMMA EncodingFailsTypes ==
  ASSUME FileTypes, RestTypes, NEW f \in Files, EncodingFails(f)
  PROVE  FileTypes' /\ RestTypes'
<1>1. FileTypes'
  BY ClosedTypes DEF EncodingFails
<1>2. RestTypes'
  BY DEF EncodingFails, Blame, RestTypes, producerVars, writerVars, budgetVars
<1> QED
  BY <1>1, <1>2

LEMMA WriteSucceedsTypes ==
  ASSUME FileTypes, RestTypes, NEW f \in Files, WriteSucceeds(f)
  PROVE  FileTypes' /\ RestTypes'
<1>1. FileTypes'
  BY ClosedTypes DEF WriteSucceeds
<1>2. RestTypes'
  BY DEF WriteSucceeds, RestTypes, producerVars, writerVars, budgetVars
<1> QED
  BY <1>1, <1>2

LEMMA WriteFailsTypes ==
  ASSUME FileTypes, RestTypes, NEW f \in Files, WriteFails(f)
  PROVE  FileTypes' /\ RestTypes'
<1>1. FileTypes'
  BY ClosedTypes DEF WriteFails
<1>2. RestTypes'
  BY DEF WriteFails, RestTypes, producerVars, writerVars, budgetVars
<1> QED
  BY <1>1, <1>2

LEMMA WriteCancelledTypes ==
  ASSUME FileTypes, RestTypes, NEW f \in Files, WriteCancelled(f)
  PROVE  FileTypes' /\ RestTypes'
<1>1. FileTypes'
  BY ClosedTypes DEF WriteCancelled
<1>2. RestTypes'
  BY DEF WriteCancelled, RestTypes, producerVars, writerVars, budgetVars
<1> QED
  BY <1>1, <1>2


LEMMA StopProducerTypes ==
  ASSUME FileTypes, RestTypes, NEW p \in Producers, StopProducer(p)
  PROVE  FileTypes' /\ RestTypes'
<1> DEFINE f == Plan[p][next[p]]
<1>1. f \in Files
  BY PlanHasFiles DEF StopProducer, HasItem
<1>2. FileTypes'
  <2>1. CASE stage[f] \in {"streaming", "failed"}
    BY <1>1, <2>1, ClosedTypes DEF StopProducer
  <2>2. CASE stage[f] \notin {"streaming", "failed"}
    <3>1. stage' = [stage EXCEPT ![f] = IF @ = "planned" THEN @ ELSE "closed"]
          /\ want' = [want EXCEPT ![f] = 0]
          /\ UNCHANGED <<attempt, phase, size, disk, bytes, budget>>
      BY <2>2 DEF StopProducer
    <3> HIDE DEF f
    <3> QED
      BY <1>1, <3>1, FileStageNames DEF FileTypes
  <2> QED
    BY <2>1, <2>2
<1>3. RestTypes'
  BY LoopTypes DEF StopProducer, RestTypes, writerVars
<1> QED
  BY <1>2, <1>3

LEMMA ReceiveTypes ==
  ASSUME FileTypes, RestTypes, Receive
  PROVE  FileTypes' /\ RestTypes'
<1> DEFINE f == Head(queue)
<1>1. f \in Files /\ queue' \in Seq(Files)
  BY HeadTailProperties DEF Receive, RestTypes
<1>2. FileTypes'
  <2>1. CASE cancelled \/ writerFailed
    BY <1>1, <2>1, ClosedTypes DEF Receive
  <2>2. CASE ~(cancelled \/ writerFailed)
    <3>1. stage' = [stage EXCEPT ![f] = "writing"]
          /\ UNCHANGED <<attempt, phase, want, size, disk, bytes, budget>>
      BY <2>2 DEF Receive
    <3> HIDE DEF f
    <3> QED
      BY <1>1, <3>1, FileStageNames DEF FileTypes
  <2> QED
    BY <2>1, <2>2
<1>3. RestTypes'
  BY <1>1 DEF Receive, RestTypes, producerVars
<1> QED
  BY <1>2, <1>3

\* The steps that leave every file alone.
LEMMA QuietTypes ==
  ASSUME FileTypes, RestTypes,
         \/ \E p \in Producers : ArriveAtBarrier(p) \/ EndItems(p) \/ ArriveLate(p) \/ EndProducer(p)
         \/ StopWriter \/ CloseStaging \/ CancelSync \/ UNCHANGED stagingVars
  PROVE  FileTypes' /\ RestTypes'
<1>1. FileTypes'
  BY DEF ArriveAtBarrier, EndItems, ArriveLate, EndProducer, StopWriter, CloseStaging, CancelSync,
         stagingVars, fileVars, budgetVars, FileTypes
<1>2. ASSUME NEW p \in Producers,
             ArriveAtBarrier(p) \/ EndItems(p) \/ ArriveLate(p) \/ EndProducer(p)
      PROVE  RestTypes'
  BY <1>2 DEF ArriveAtBarrier, EndItems, ArriveLate, EndProducer, Break, writerVars, budgetVars, RestTypes
<1>3. CASE StopWriter \/ CloseStaging
  BY <1>1, <1>3 DEF StopWriter, CloseStaging, producerVars, budgetVars, RestTypes
<1>4. CASE CancelSync
  BY <1>1, <1>4 DEF CancelSync, producerVars, writerVars, budgetVars, RestTypes
<1>5. CASE UNCHANGED stagingVars
  BY <1>1, <1>5 DEF stagingVars, producerVars, writerVars, budgetVars, RestTypes
<1> QED
  BY <1>1, <1>2, <1>3, <1>4, <1>5

LEMMA StagingTypesKept ==
  ASSUME StagingTypeOK, [StagingNext]_stagingVars
  PROVE  StagingTypeOK'
<1> USE TypesTogether
<1>1. FileTypes /\ RestTypes
  OBVIOUS
<1> SUFFICES FileTypes' /\ RestTypes'
  BY DEF StagingTypeOK, FileTypes, RestTypes
<1>2. ASSUME NEW p \in Producers, ProducerStep(p)
      PROVE  FileTypes' /\ RestTypes'
  BY <1>1, <1>2, StartItemTypes, SkipItemTypes, TakeCountTypes, AcquireTypes, RefuseOversizedTypes, FailItemTypes,
     SpawnEncodingTypes, StopProducerTypes, QuietTypes DEF ProducerStep
<1>3. ASSUME NEW f \in Files, DownloadStep(f) \/ EncoderStep(f)
      PROVE  FileTypes' /\ RestTypes'
  BY <1>1, <1>3, ReceiveChunkTypes, StreamFailsTypes, GrowTypes, AwaitGrowthTypes, RefuseGrowthTypes, DropWaiterTypes,
     RetryStreamTypes, ReserveTagsTypes, RewriteTagsTypes, EndStreamTypes, ShrinkTypes, MarkCompleteTypes,
     SendTypes, DiscardUnsentTypes, EncodeTypes, RemoveOriginalTypes, EncodingFailsTypes DEF DownloadStep, EncoderStep
<1>4. CASE WriterStep
  BY <1>1, <1>4, ReceiveTypes, WriteSucceedsTypes, WriteFailsTypes, WriteCancelledTypes, QuietTypes DEF WriterStep
<1>5. CASE CancelSync \/ UNCHANGED stagingVars
  BY <1>1, <1>5, QuietTypes
<1> QED
  BY <1>2, <1>3, <1>4, <1>5 DEF StagingNext


(***************************************************************************)
(* The budget is kept: what each step does to one permit.                  *)
(***************************************************************************)

LEMMA StageKinds ==
  /\ \A s \in {"planned", "counting", "acquiring", "closed"} :
       s \notin Partial /\ s \notin Complete /\ s \notin Held
  /\ \A s \in {"streaming", "growing", "granted", "refused", "tagging", "failed", "encoding",
               "encoded", "shrinking", "completing"} :
       s \in Partial /\ s \notin Complete /\ s \in Held
  /\ \A s \in {"sending", "queued", "writing"} :
       s \notin Partial /\ s \in Complete /\ s \in Held
BY DEF Partial, Complete, Held

LEMMA PermitStays ==
  ASSUME StagingTypeOK, NEW f \in Files, UNCHANGED budgetVars,
         stage'[f] \in Partial <=> stage[f] \in Partial,
         stage'[f] \in Complete <=> stage[f] \in Complete
  PROVE  BudgetMoves(f)
<1>1. bytes[f] \in Nat
  BY DEF StagingTypeOK
<1>2. /\ budget.used \in Int /\ budget.complete \in Int
      /\ budget.partial \in Int /\ budget.waiters \in Int
  BY DEF StagingTypeOK
<1>3. bytes' = bytes /\ waiting' = waiting /\ budget' = budget
  BY DEF budgetVars
<1> QED
  BY <1>1, <1>2, <1>3 DEF BudgetMoves

LEMMA BudgetStays ==
  ASSUME BudgetKept, UNCHANGED fileVars, UNCHANGED budgetVars
  PROVE  BudgetKept'
BY DEF BudgetKept, FilesFitPermits, FitsPermit, AnsweredAreRegistered, BudgetMatchesPermits, Total, BytesOf,
       PermitsOf, fileVars, budgetVars

LEMMA CloseKeepsBudget ==
  ASSUME StagingTypeOK, StagingTypeOK', BudgetKept, NEW f \in Files, Close(f), UNCHANGED waiting
  PROVE  BudgetKept'
<1>1. OthersStand(f)
  BY DEF OthersStand, Close, StagingTypeOK
<1>2. stage'[f] = "closed" /\ bytes'[f] = 0 /\ disk'[f] = 0 /\ size'[f] = 0
  BY DEF Close, StagingTypeOK
<1>3. BudgetMoves(f)
  <2>1. bytes[f] \in Nat
    BY DEF StagingTypeOK
  <2>2. /\ budget.used \in Int /\ budget.complete \in Int
        /\ budget.partial \in Int /\ budget.waiters \in Int
    BY DEF StagingTypeOK
  <2>3. /\ budget'.used = budget.used - bytes[f]
        /\ budget'.complete = budget.complete - (IF stage[f] \in Complete THEN bytes[f] ELSE 0)
        /\ budget'.partial = budget.partial - (IF stage[f] \in Partial THEN 1 ELSE 0)
        /\ budget'.waiters = budget.waiters
    BY <2>1, <2>2 DEF Close, StagingTypeOK
  <2> QED
    BY <1>2, <2>1, <2>2, <2>3, StageKinds DEF BudgetMoves
<1>4. FitsPermit(f)'
  BY <1>2 DEF FitsPermit, Complete
<1> QED
  BY <1>1, <1>2, <1>3, <1>4, FileMoves

LEMMA StartItemKeepsBudget ==
  ASSUME StagingTypeOK, StagingTypeOK', BudgetKept, NEW p \in Producers, NEW f \in Files, StartItem(p, f)
  PROVE  BudgetKept'
<1>1. OthersStand(f) /\ UNCHANGED budgetVars
  BY DEF OthersStand, StartItem, budgetVars, StagingTypeOK
<1>2. FitsPermit(f) /\ (stage[f] \in {"granted", "refused"} => f \in waiting)
  BY DEF BudgetKept, FilesFitPermits, AnsweredAreRegistered
<1>3. /\ stage[f] = "planned" /\ stage'[f] = "counting"
      /\ size'[f] = size[f] /\ disk'[f] = disk[f] /\ bytes'[f] = bytes[f]
      /\ Headroom[f] <= want'[f]
  BY NumberTypes, TypesTogether DEF StartItem, budgetVars, StagingTypeOK
<1>4. BudgetMoves(f)
  BY <1>1, <1>3, PermitStays, StageKinds
<1>5. FitsPermit(f)'
  BY <1>2, <1>3, StageKinds, NumberTypes, TypesTogether DEF FitsPermit
<1>6. stage'[f] \in {"granted", "refused"} => f \in waiting'
  BY <1>1, <1>2, <1>3 DEF budgetVars
<1> QED
  BY <1>1, <1>4, <1>5, <1>6, FileMoves

LEMMA SkipItemKeepsBudget ==
  ASSUME StagingTypeOK, StagingTypeOK', BudgetKept, NEW p \in Producers, NEW f \in Files, SkipItem(p, f)
  PROVE  BudgetKept'
<1>1. OthersStand(f) /\ UNCHANGED budgetVars
  BY DEF OthersStand, SkipItem, budgetVars, StagingTypeOK
<1>2. FitsPermit(f) /\ (stage[f] \in {"granted", "refused"} => f \in waiting)
  BY DEF BudgetKept, FilesFitPermits, AnsweredAreRegistered
<1>3. /\ stage[f] = "planned" /\ stage'[f] = "closed"
      /\ size'[f] = size[f] /\ disk'[f] = disk[f] /\ bytes'[f] = bytes[f]
  BY NumberTypes, TypesTogether DEF SkipItem, budgetVars, StagingTypeOK
<1>4. BudgetMoves(f)
  BY <1>1, <1>3, PermitStays, StageKinds
<1>5. FitsPermit(f)'
  BY <1>2, <1>3, StageKinds, NumberTypes, TypesTogether DEF FitsPermit
<1>6. stage'[f] \in {"granted", "refused"} => f \in waiting'
  BY <1>1, <1>2, <1>3 DEF budgetVars
<1> QED
  BY <1>1, <1>4, <1>5, <1>6, FileMoves

LEMMA TakeCountKeepsBudget ==
  ASSUME StagingTypeOK, StagingTypeOK', BudgetKept, NEW p \in Producers, NEW f \in Files, TakeCount(p, f)
  PROVE  BudgetKept'
<1>1. OthersStand(f) /\ UNCHANGED budgetVars
  BY DEF OthersStand, TakeCount, budgetVars, StagingTypeOK
<1>2. FitsPermit(f) /\ (stage[f] \in {"granted", "refused"} => f \in waiting)
  BY DEF BudgetKept, FilesFitPermits, AnsweredAreRegistered
<1>3. /\ stage[f] = "counting" /\ stage'[f] = "acquiring"
      /\ size'[f] = size[f] /\ disk'[f] = disk[f] /\ bytes'[f] = bytes[f] /\ want'[f] = want[f]
  BY NumberTypes, TypesTogether DEF TakeCount, budgetVars, StagingTypeOK
<1>4. BudgetMoves(f)
  BY <1>1, <1>3, PermitStays, StageKinds
<1>5. FitsPermit(f)'
  BY <1>2, <1>3, StageKinds, NumberTypes, TypesTogether DEF FitsPermit
<1>6. stage'[f] \in {"granted", "refused"} => f \in waiting'
  BY <1>1, <1>2, <1>3 DEF budgetVars
<1> QED
  BY <1>1, <1>4, <1>5, <1>6, FileMoves

LEMMA RefuseOversizedKeepsBudget ==
  ASSUME StagingTypeOK, StagingTypeOK', BudgetKept, NEW p \in Producers, NEW f \in Files, RefuseOversized(p, f)
  PROVE  BudgetKept'
<1>1. OthersStand(f) /\ UNCHANGED budgetVars
  BY DEF OthersStand, RefuseOversized, budgetVars, StagingTypeOK
<1>2. FitsPermit(f) /\ (stage[f] \in {"granted", "refused"} => f \in waiting)
  BY DEF BudgetKept, FilesFitPermits, AnsweredAreRegistered
<1>3. /\ stage[f] = "acquiring" /\ stage'[f] = "closed"
      /\ size'[f] = size[f] /\ disk'[f] = disk[f] /\ bytes'[f] = bytes[f]
  BY NumberTypes, TypesTogether DEF RefuseOversized, budgetVars, StagingTypeOK
<1>4. BudgetMoves(f)
  BY <1>1, <1>3, PermitStays, StageKinds
<1>5. FitsPermit(f)'
  BY <1>2, <1>3, StageKinds, NumberTypes, TypesTogether DEF FitsPermit
<1>6. stage'[f] \in {"granted", "refused"} => f \in waiting'
  BY <1>1, <1>2, <1>3 DEF budgetVars
<1> QED
  BY <1>1, <1>4, <1>5, <1>6, FileMoves

LEMMA ReceiveChunkKeepsBudget ==
  ASSUME StagingTypeOK, StagingTypeOK', BudgetKept, NEW f \in Files, ReceiveChunk(f)
  PROVE  BudgetKept'
<1>1. OthersStand(f) /\ UNCHANGED budgetVars
  BY DEF OthersStand, ReceiveChunk, budgetVars, StagingTypeOK
<1>2. FitsPermit(f) /\ (stage[f] \in {"granted", "refused"} => f \in waiting)
  BY DEF BudgetKept, FilesFitPermits, AnsweredAreRegistered
<1>3. /\ stage[f] = "streaming" /\ stage'[f] = "growing"
      /\ size'[f] = size[f] /\ disk'[f] = disk[f] /\ bytes'[f] = bytes[f]
  BY NumberTypes, TypesTogether DEF ReceiveChunk, budgetVars, StagingTypeOK
<1>4. BudgetMoves(f)
  BY <1>1, <1>3, PermitStays, StageKinds
<1>5. FitsPermit(f)'
  BY <1>2, <1>3, StageKinds, NumberTypes, TypesTogether DEF FitsPermit
<1>6. stage'[f] \in {"granted", "refused"} => f \in waiting'
  BY <1>1, <1>2, <1>3 DEF budgetVars
<1> QED
  BY <1>1, <1>4, <1>5, <1>6, FileMoves

LEMMA StreamFailsKeepsBudget ==
  ASSUME StagingTypeOK, StagingTypeOK', BudgetKept, NEW f \in Files, StreamFails(f)
  PROVE  BudgetKept'
<1>1. OthersStand(f) /\ UNCHANGED budgetVars
  BY DEF OthersStand, StreamFails, budgetVars, StagingTypeOK
<1>2. FitsPermit(f) /\ (stage[f] \in {"granted", "refused"} => f \in waiting)
  BY DEF BudgetKept, FilesFitPermits, AnsweredAreRegistered
<1>3. /\ stage[f] = "streaming" /\ stage'[f] = "failed"
      /\ size'[f] = size[f] /\ disk'[f] = disk[f] /\ bytes'[f] = bytes[f]
  BY NumberTypes, TypesTogether DEF StreamFails, budgetVars, StagingTypeOK
<1>4. BudgetMoves(f)
  BY <1>1, <1>3, PermitStays, StageKinds
<1>5. FitsPermit(f)'
  BY <1>2, <1>3, StageKinds, NumberTypes, TypesTogether DEF FitsPermit
<1>6. stage'[f] \in {"granted", "refused"} => f \in waiting'
  BY <1>1, <1>2, <1>3 DEF budgetVars
<1> QED
  BY <1>1, <1>4, <1>5, <1>6, FileMoves

LEMMA RefuseGrowthKeepsBudget ==
  ASSUME StagingTypeOK, StagingTypeOK', BudgetKept, NEW f \in Files, RefuseGrowth(f)
  PROVE  BudgetKept'
<1>1. OthersStand(f) /\ UNCHANGED budgetVars
  <2>1. CASE f \in waiting
    BY <2>1 DEF OthersStand, RefuseGrowth, BeforeDrop, budgetVars, StagingTypeOK
  <2>2. CASE f \notin waiting
    BY <2>2 DEF OthersStand, RefuseGrowth, Refused, budgetVars, StagingTypeOK
  <2> QED
    BY <2>1, <2>2
<1>2. FitsPermit(f) /\ (stage[f] \in {"granted", "refused"} => f \in waiting)
  BY DEF BudgetKept, FilesFitPermits, AnsweredAreRegistered
<1>3. /\ stage[f] = "growing"
      /\ stage'[f] = "failed" \/ (stage'[f] = "refused" /\ f \in waiting)
      /\ size'[f] = size[f] /\ disk'[f] = disk[f] /\ bytes'[f] = bytes[f]
  <2>1. CASE f \in waiting
    BY <2>1 DEF RefuseGrowth, BeforeDrop, budgetVars, StagingTypeOK
  <2>2. CASE f \notin waiting
    BY <2>2 DEF RefuseGrowth, Refused, budgetVars, StagingTypeOK
  <2> QED
    BY <2>1, <2>2
<1>4. BudgetMoves(f)
  BY <1>1, <1>3, PermitStays, StageKinds
<1>5. FitsPermit(f)'
  BY <1>2, <1>3, StageKinds, NumberTypes, TypesTogether DEF FitsPermit
<1>6. stage'[f] \in {"granted", "refused"} => f \in waiting'
  BY <1>1, <1>2, <1>3 DEF budgetVars
<1> QED
  BY <1>1, <1>4, <1>5, <1>6, FileMoves

LEMMA RetryStreamKeepsBudget ==
  ASSUME StagingTypeOK, StagingTypeOK', BudgetKept, NEW f \in Files, RetryStream(f)
  PROVE  BudgetKept'
<1>1. OthersStand(f) /\ UNCHANGED budgetVars
  BY DEF OthersStand, RetryStream, budgetVars, StagingTypeOK
<1>2. FitsPermit(f) /\ (stage[f] \in {"granted", "refused"} => f \in waiting)
  BY DEF BudgetKept, FilesFitPermits, AnsweredAreRegistered
<1>3. /\ stage[f] = "failed" /\ stage'[f] \in {"failed", "streaming"}
      /\ size'[f] = 0 /\ disk'[f] = 0 /\ bytes'[f] = bytes[f]
  BY NumberTypes, TypesTogether DEF RetryStream, budgetVars, StagingTypeOK
<1>4. BudgetMoves(f)
  BY <1>1, <1>3, PermitStays, StageKinds
<1>5. FitsPermit(f)'
  BY <1>2, <1>3, StageKinds, NumberTypes, TypesTogether DEF FitsPermit
<1>6. stage'[f] \in {"granted", "refused"} => f \in waiting'
  BY <1>1, <1>2, <1>3 DEF budgetVars
<1> QED
  BY <1>1, <1>4, <1>5, <1>6, FileMoves

LEMMA ReserveTagsKeepsBudget ==
  ASSUME StagingTypeOK, StagingTypeOK', BudgetKept, NEW f \in Files, ReserveTags(f)
  PROVE  BudgetKept'
<1>1. OthersStand(f) /\ UNCHANGED budgetVars
  BY DEF OthersStand, ReserveTags, budgetVars, StagingTypeOK
<1>2. FitsPermit(f) /\ (stage[f] \in {"granted", "refused"} => f \in waiting)
  BY DEF BudgetKept, FilesFitPermits, AnsweredAreRegistered
<1>3. /\ stage[f] = "streaming" /\ stage'[f] = "growing"
      /\ size'[f] = size[f] /\ disk'[f] = disk[f] /\ bytes'[f] = bytes[f]
  BY NumberTypes, TypesTogether DEF ReserveTags, budgetVars, StagingTypeOK
<1>4. BudgetMoves(f)
  BY <1>1, <1>3, PermitStays, StageKinds
<1>5. FitsPermit(f)'
  BY <1>2, <1>3, StageKinds, NumberTypes, TypesTogether DEF FitsPermit
<1>6. stage'[f] \in {"granted", "refused"} => f \in waiting'
  BY <1>1, <1>2, <1>3 DEF budgetVars
<1> QED
  BY <1>1, <1>4, <1>5, <1>6, FileMoves

LEMMA RewriteTagsKeepsBudget ==
  ASSUME StagingTypeOK, StagingTypeOK', BudgetKept, NEW f \in Files, RewriteTags(f)
  PROVE  BudgetKept'
<1>1. OthersStand(f) /\ UNCHANGED budgetVars
  BY DEF OthersStand, RewriteTags, budgetVars, StagingTypeOK
<1>2. FitsPermit(f) /\ (stage[f] \in {"granted", "refused"} => f \in waiting)
  BY DEF BudgetKept, FilesFitPermits, AnsweredAreRegistered
<1>3. /\ stage[f] = "tagging" /\ stage'[f] \in {"encoding", "shrinking", "failed"}
      /\ size'[f] = size[f] /\ disk'[f] = size[f] /\ bytes'[f] = bytes[f]
  BY NumberTypes, TypesTogether DEF RewriteTags, budgetVars, StagingTypeOK
<1>4. BudgetMoves(f)
  BY <1>1, <1>3, PermitStays, StageKinds
<1>5. FitsPermit(f)'
  BY <1>2, <1>3, StageKinds, NumberTypes, TypesTogether DEF FitsPermit
<1>6. stage'[f] \in {"granted", "refused"} => f \in waiting'
  BY <1>1, <1>2, <1>3 DEF budgetVars
<1> QED
  BY <1>1, <1>4, <1>5, <1>6, FileMoves

LEMMA EndStreamKeepsBudget ==
  ASSUME StagingTypeOK, StagingTypeOK', BudgetKept, NEW f \in Files, EndStream(f)
  PROVE  BudgetKept'
<1>1. OthersStand(f) /\ UNCHANGED budgetVars
  BY DEF OthersStand, EndStream, budgetVars, StagingTypeOK
<1>2. FitsPermit(f) /\ (stage[f] \in {"granted", "refused"} => f \in waiting)
  BY DEF BudgetKept, FilesFitPermits, AnsweredAreRegistered
<1>3. /\ stage[f] = "streaming" /\ stage'[f] \in {"encoding", "shrinking"}
      /\ size'[f] = size[f] /\ disk'[f] = disk[f] /\ bytes'[f] = bytes[f]
  BY NumberTypes, TypesTogether DEF EndStream, budgetVars, StagingTypeOK
<1>4. BudgetMoves(f)
  BY <1>1, <1>3, PermitStays, StageKinds
<1>5. FitsPermit(f)'
  BY <1>2, <1>3, StageKinds, NumberTypes, TypesTogether DEF FitsPermit
<1>6. stage'[f] \in {"granted", "refused"} => f \in waiting'
  BY <1>1, <1>2, <1>3 DEF budgetVars
<1> QED
  BY <1>1, <1>4, <1>5, <1>6, FileMoves

LEMMA EncodeKeepsBudget ==
  ASSUME StagingTypeOK, StagingTypeOK', BudgetKept, NEW f \in Files, Encode(f)
  PROVE  BudgetKept'
<1>1. OthersStand(f) /\ UNCHANGED budgetVars
  BY DEF OthersStand, Encode, budgetVars, StagingTypeOK
<1>2. FitsPermit(f) /\ (stage[f] \in {"granted", "refused"} => f \in waiting)
  BY DEF BudgetKept, FilesFitPermits, AnsweredAreRegistered
<1>3. /\ stage[f] = "encoding" /\ stage'[f] = "encoded"
      /\ bytes'[f] = bytes[f]
      /\ \E n \in 0..OutputRoom(f) : disk'[f] = size[f] + n /\ size'[f] = n
  BY NumberTypes, TypesTogether DEF Encode, budgetVars, StagingTypeOK
<1>4. BudgetMoves(f)
  BY <1>1, <1>3, PermitStays, StageKinds
<1>5. FitsPermit(f)'
  <2>1. PICK n \in 0..OutputRoom(f) : disk'[f] = size[f] + n /\ size'[f] = n
    BY <1>3
  <2>2. /\ bytes[f] \in Nat /\ size[f] \in Nat /\ Headroom[f] \in Nat
        /\ size[f] + Headroom[f] <= bytes[f]
    BY <1>2, <1>3, NumberTypes, TypesTogether DEF FitsPermit
  <2>3. n \in Nat /\ size[f] + n <= bytes[f]
    BY <2>2 DEF OutputRoom, Monus
  <2>4. disk'[f] <= bytes'[f] /\ size'[f] <= bytes'[f]
    BY <1>3, <2>1, <2>2, <2>3
  <2> QED
    BY <1>3, <2>4 DEF FitsPermit, Held, Partial, Complete
<1>6. stage'[f] \in {"granted", "refused"} => f \in waiting'
  BY <1>1, <1>2, <1>3 DEF budgetVars
<1> QED
  BY <1>1, <1>4, <1>5, <1>6, FileMoves

LEMMA RemoveOriginalKeepsBudget ==
  ASSUME StagingTypeOK, StagingTypeOK', BudgetKept, NEW f \in Files, RemoveOriginal(f)
  PROVE  BudgetKept'
<1>1. OthersStand(f) /\ UNCHANGED budgetVars
  BY DEF OthersStand, RemoveOriginal, budgetVars, StagingTypeOK
<1>2. FitsPermit(f) /\ (stage[f] \in {"granted", "refused"} => f \in waiting)
  BY DEF BudgetKept, FilesFitPermits, AnsweredAreRegistered
<1>3. /\ stage[f] = "encoded" /\ stage'[f] = "shrinking"
      /\ size'[f] = size[f] /\ disk'[f] = size[f] /\ bytes'[f] = bytes[f]
  BY NumberTypes, TypesTogether DEF RemoveOriginal, budgetVars, StagingTypeOK
<1>4. BudgetMoves(f)
  BY <1>1, <1>3, PermitStays, StageKinds
<1>5. FitsPermit(f)'
  BY <1>2, <1>3, StageKinds, NumberTypes, TypesTogether DEF FitsPermit
<1>6. stage'[f] \in {"granted", "refused"} => f \in waiting'
  BY <1>1, <1>2, <1>3 DEF budgetVars
<1> QED
  BY <1>1, <1>4, <1>5, <1>6, FileMoves

LEMMA SendKeepsBudget ==
  ASSUME StagingTypeOK, StagingTypeOK', BudgetKept, NEW f \in Files, Send(f)
  PROVE  BudgetKept'
<1>1. OthersStand(f) /\ UNCHANGED budgetVars
  BY DEF OthersStand, Send, budgetVars, StagingTypeOK
<1>2. FitsPermit(f) /\ (stage[f] \in {"granted", "refused"} => f \in waiting)
  BY DEF BudgetKept, FilesFitPermits, AnsweredAreRegistered
<1>3. /\ stage[f] = "sending" /\ stage'[f] = "queued"
      /\ size'[f] = size[f] /\ disk'[f] = disk[f] /\ bytes'[f] = bytes[f]
  BY NumberTypes, TypesTogether DEF Send, budgetVars, StagingTypeOK
<1>4. BudgetMoves(f)
  BY <1>1, <1>3, PermitStays, StageKinds
<1>5. FitsPermit(f)'
  BY <1>2, <1>3, StageKinds, NumberTypes, TypesTogether DEF FitsPermit
<1>6. stage'[f] \in {"granted", "refused"} => f \in waiting'
  BY <1>1, <1>2, <1>3 DEF budgetVars
<1> QED
  BY <1>1, <1>4, <1>5, <1>6, FileMoves

LEMMA AcquireKeepsBudget ==
  ASSUME StagingTypeOK, StagingTypeOK', BudgetKept, NEW p \in Producers, NEW f \in Files, Acquire(p, f)
  PROVE  BudgetKept'
<1>1. /\ bytes[f] \in Nat /\ want[f] \in Nat /\ size[f] \in Nat /\ Headroom[f] \in Nat
      /\ Needed(f) \in Nat /\ Needed(f) >= want[f] + Headroom[f] - bytes[f]
  BY NumberTypes, TypesTogether
<1>2. /\ budget.used \in Int /\ budget.complete \in Int
      /\ budget.partial \in Int /\ budget.waiters \in Int
  BY DEF StagingTypeOK
<1>3. FitsPermit(f) /\ (stage[f] \in {"granted", "refused"} => f \in waiting) /\ budget.used <= MaxBytes
  BY DEF BudgetKept, FilesFitPermits, AnsweredAreRegistered
<1>4. OthersStand(f)
  BY DEF OthersStand, Acquire, StagingTypeOK
<1>5. /\ stage[f] = "acquiring" /\ stage'[f] = "streaming"
      /\ bytes'[f] = want[f] /\ size'[f] = size[f] /\ disk'[f] = disk[f]
      /\ waiting' = waiting
  BY DEF Acquire, StagingTypeOK
<1>6. /\ budget'.used = budget.used + want[f] /\ budget'.complete = budget.complete
      /\ budget'.partial = budget.partial + 1 /\ budget'.waiters = budget.waiters
  BY <1>1, <1>2 DEF Acquire, StagingTypeOK
<1>7. bytes[f] = 0 /\ size[f] = 0 /\ disk[f] = 0 /\ Headroom[f] <= want[f]
  BY <1>3, <1>5, StageKinds DEF FitsPermit
<1>8. budget'.used <= MaxBytes
  <2>1. MaxBytes \in Nat /\ want[f] <= MaxBytes - budget.used
    BY StagingAssumption DEF Acquire
  <2> QED
    BY <1>1, <1>2, <1>6, <2>1
<1>9. BudgetMoves(f)
  BY <1>1, <1>2, <1>5, <1>6, <1>7, <1>8, StageKinds DEF BudgetMoves
<1>10. FitsPermit(f)'
  BY <1>1, <1>5, <1>7, StageKinds DEF FitsPermit
<1>11. stage'[f] \in {"granted", "refused"} => f \in waiting'
  BY <1>5
<1> QED
  BY <1>4, <1>9, <1>10, <1>11, FileMoves

LEMMA GrantedAlone ==
  ASSUME StagingTypeOK, NEW f \in Files, Granted(f)
  PROVE  \A g \in Files \ {f} : /\ stage'[g] = stage[g] /\ want'[g] = want[g]
                                /\ size'[g] = size[g] /\ disk'[g] = disk[g]
<1>1. \A g \in Files \ {f} : size'[g] = size[g]
  <2>1. CASE phase[f] = "stream"
    BY <2>1 DEF Granted, StagingTypeOK
  <2>2. CASE phase[f] # "stream"
    BY <2>2 DEF Granted
  <2> QED
    BY <2>1, <2>2
<1>2. \A g \in Files \ {f} : stage'[g] = stage[g] /\ want'[g] = want[g] /\ disk'[g] = disk[g]
  BY DEF Granted, StagingTypeOK
<1> QED
  BY <1>1, <1>2

LEMMA AnswerGranted ==
  ASSUME StagingTypeOK, NEW f \in Files, Granted(f)
  PROVE  \/ stage'[f] = "tagging" /\ size'[f] = size[f] /\ disk'[f] = want[f]
         \/ stage'[f] = "streaming" /\ size'[f] = want[f] /\ disk'[f] = want[f]
<1>1. phase[f] = "tag" \/ phase[f] = "stream"
  BY DEF StagingTypeOK
<1>2. CASE phase[f] = "tag"
  BY <1>2 DEF Granted, StagingTypeOK
<1>3. CASE phase[f] = "stream"
  BY <1>3 DEF Granted, StagingTypeOK
<1> QED
  BY <1>1, <1>2, <1>3

LEMMA GrowKeepsBudget ==
  ASSUME StagingTypeOK, StagingTypeOK', BudgetKept, NEW f \in Files, Grow(f)
  PROVE  BudgetKept'
<1>1. /\ bytes[f] \in Nat /\ want[f] \in Nat /\ size[f] \in Nat /\ Headroom[f] \in Nat
      /\ Needed(f) \in Nat /\ Needed(f) >= want[f] + Headroom[f] - bytes[f]
  BY NumberTypes, TypesTogether
<1>2. /\ budget.used \in Int /\ budget.complete \in Int
      /\ budget.partial \in Int /\ budget.waiters \in Int
  BY DEF StagingTypeOK
<1>3. FitsPermit(f) /\ (stage[f] \in {"granted", "refused"} => f \in waiting) /\ budget.used <= MaxBytes
  BY DEF BudgetKept, FilesFitPermits, AnsweredAreRegistered
<1>4. OthersStand(f)
  <2>1. CASE f \in waiting
    BY <2>1 DEF OthersStand, Grow, BeforeDrop, StagingTypeOK
  <2>2. CASE f \notin waiting
    BY <2>2, GrantedAlone DEF OthersStand, Grow, StagingTypeOK
  <2> QED
    BY <2>1, <2>2
<1>5. /\ stage[f] = "growing" /\ bytes'[f] = bytes[f] + Needed(f) /\ waiting' = waiting
  BY DEF Grow, StagingTypeOK
<1>6. \/ stage'[f] = "granted" /\ f \in waiting
         /\ want'[f] = want[f] /\ size'[f] = size[f] /\ disk'[f] = disk[f]
      \/ stage'[f] = "tagging" /\ size'[f] = size[f] /\ disk'[f] = want[f]
      \/ stage'[f] = "streaming" /\ size'[f] = want[f] /\ disk'[f] = want[f]
  <2>1. CASE f \in waiting
    BY <2>1 DEF Grow, BeforeDrop, StagingTypeOK
  <2>2. CASE f \notin waiting
    BY <2>2, AnswerGranted DEF Grow
  <2> QED
    BY <2>1, <2>2
<1>7. /\ budget'.used = budget.used + Needed(f) /\ budget'.complete = budget.complete
      /\ budget'.partial = budget.partial /\ budget'.waiters = budget.waiters
  BY <1>1, <1>2 DEF Grow, StagingTypeOK
<1>8. budget'.used <= MaxBytes
  <2>1. MaxBytes \in Nat /\ Needed(f) <= MaxBytes - budget.used
    BY StagingAssumption DEF Grow
  <2> QED
    BY <1>1, <1>2, <1>7, <2>1
<1>9. BudgetMoves(f)
  <2>1. (stage'[f] \in Partial <=> stage[f] \in Partial) /\ stage[f] \notin Complete /\ stage'[f] \notin Complete
    BY <1>5, <1>6, StageKinds
  <2> QED
    BY <1>1, <1>2, <1>5, <1>7, <1>8, <2>1 DEF BudgetMoves
<1>10. FitsPermit(f)'
  <2>1. size[f] + Headroom[f] <= bytes'[f] /\ want[f] + Headroom[f] <= bytes'[f]
        /\ disk[f] = size[f] /\ bytes'[f] \in Nat
    BY <1>1, <1>3, <1>5 DEF FitsPermit
  <2>2. want[f] <= bytes'[f]
    BY <1>1, <2>1
  <2> QED
    BY <1>6, <2>1, <2>2, StageKinds DEF FitsPermit
<1>11. stage'[f] \in {"granted", "refused"} => f \in waiting'
  BY <1>5, <1>6
<1> QED
  BY <1>4, <1>9, <1>10, <1>11, FileMoves

LEMMA AwaitGrowthKeepsBudget ==
  ASSUME StagingTypeOK, StagingTypeOK', BudgetKept, NEW f \in Files, AwaitGrowth(f)
  PROVE  BudgetKept'
<1>1. /\ bytes[f] \in Nat /\ want[f] \in Nat /\ size[f] \in Nat /\ Headroom[f] \in Nat
      /\ Needed(f) \in Nat /\ Needed(f) >= want[f] + Headroom[f] - bytes[f]
  BY NumberTypes, TypesTogether
<1>2. /\ budget.used \in Int /\ budget.complete \in Int
      /\ budget.partial \in Int /\ budget.waiters \in Int
  BY DEF StagingTypeOK
<1>3. FitsPermit(f) /\ (stage[f] \in {"granted", "refused"} => f \in waiting) /\ budget.used <= MaxBytes
  BY DEF BudgetKept, FilesFitPermits, AnsweredAreRegistered
<1>4. OthersStand(f)
  BY DEF OthersStand, AwaitGrowth, StagingTypeOK
<1>5. /\ stage[f] = "growing" /\ stage'[f] \in {"growing", "refused"}
      /\ bytes' = bytes /\ size' = size /\ disk' = disk /\ want' = want
      /\ waiting' = waiting \cup {f}
  BY DEF AwaitGrowth, StagingTypeOK
<1>6. /\ budget'.used = budget.used /\ budget'.complete = budget.complete
      /\ budget'.partial = budget.partial
      /\ budget'.waiters = budget.waiters + (IF f \in waiting THEN 0 ELSE 1)
  BY <1>2 DEF AwaitGrowth, Registered, StagingTypeOK
<1>7. BudgetMoves(f)
  <2>1. (stage'[f] \in Partial <=> stage[f] \in Partial) /\ stage[f] \notin Complete /\ stage'[f] \notin Complete
    BY <1>5, StageKinds
  <2> QED
    BY <1>1, <1>2, <1>5, <1>6, <2>1 DEF BudgetMoves
<1>8. FitsPermit(f)'
  BY <1>3, <1>5, StageKinds DEF FitsPermit
<1>9. stage'[f] \in {"granted", "refused"} => f \in waiting'
  BY <1>5
<1> QED
  BY <1>4, <1>7, <1>8, <1>9, FileMoves

LEMMA DropWaiterKeepsBudget ==
  ASSUME StagingTypeOK, StagingTypeOK', BudgetKept, NEW f \in Files, DropWaiter(f)
  PROVE  BudgetKept'
<1>1. /\ bytes[f] \in Nat /\ want[f] \in Nat /\ size[f] \in Nat /\ Headroom[f] \in Nat
      /\ Needed(f) \in Nat /\ Needed(f) >= want[f] + Headroom[f] - bytes[f]
  BY NumberTypes, TypesTogether
<1>2. /\ budget.used \in Int /\ budget.complete \in Int
      /\ budget.partial \in Int /\ budget.waiters \in Int
  BY DEF StagingTypeOK
<1>3. FitsPermit(f) /\ (stage[f] \in {"granted", "refused"} => f \in waiting) /\ budget.used <= MaxBytes
  BY DEF BudgetKept, FilesFitPermits, AnsweredAreRegistered
<1>4. OthersStand(f)
  <2>1. CASE stage[f] = "granted"
    BY <2>1, GrantedAlone DEF OthersStand, DropWaiter, StagingTypeOK
  <2>2. CASE stage[f] # "granted"
    BY <2>2 DEF OthersStand, DropWaiter, Refused, StagingTypeOK
  <2> QED
    BY <2>1, <2>2
<1>5. /\ stage[f] \in {"granted", "refused"} /\ f \in waiting
      /\ bytes' = bytes /\ waiting' = waiting \ {f}
  BY <1>3 DEF DropWaiter
<1>6. \/ stage[f] = "granted" /\ stage'[f] = "tagging" /\ size'[f] = size[f] /\ disk'[f] = want[f]
      \/ stage[f] = "granted" /\ stage'[f] = "streaming" /\ size'[f] = want[f] /\ disk'[f] = want[f]
      \/ stage[f] = "refused" /\ stage'[f] = "failed" /\ size'[f] = size[f] /\ disk'[f] = disk[f]
  <2>1. CASE stage[f] = "granted"
    BY <2>1, AnswerGranted DEF DropWaiter
  <2>2. CASE stage[f] = "refused"
    BY <2>2 DEF DropWaiter, Refused, StagingTypeOK
  <2> QED
    BY <1>5, <2>1, <2>2
<1>7. /\ budget'.used = budget.used /\ budget'.complete = budget.complete
      /\ budget'.partial = budget.partial /\ budget'.waiters = budget.waiters - 1
  BY <1>2 DEF DropWaiter, StagingTypeOK
<1>8. BudgetMoves(f)
  <2>1. (stage'[f] \in Partial <=> stage[f] \in Partial) /\ stage[f] \notin Complete /\ stage'[f] \notin Complete
    BY <1>6, StageKinds
  <2> QED
    BY <1>1, <1>2, <1>5, <1>7, <2>1 DEF BudgetMoves
<1>9. FitsPermit(f)'
  <2>1. stage[f] = "granted" => size[f] + Headroom[f] <= bytes[f] /\ want[f] + Headroom[f] <= bytes[f]
                                /\ want[f] <= bytes[f]
    BY <1>1, <1>3 DEF FitsPermit
  <2>2. stage[f] = "refused" => size[f] + Headroom[f] <= bytes[f] /\ disk[f] = size[f]
    BY <1>3 DEF FitsPermit
  <2> QED
    BY <1>5, <1>6, <2>1, <2>2, StageKinds DEF FitsPermit
<1>10. stage'[f] \in {"granted", "refused"} => f \in waiting'
  BY <1>6
<1> QED
  BY <1>4, <1>8, <1>9, <1>10, FileMoves

LEMMA ShrinkKeepsBudget ==
  ASSUME StagingTypeOK, StagingTypeOK', BudgetKept, NEW f \in Files, Shrink(f)
  PROVE  BudgetKept'
<1>1. /\ bytes[f] \in Nat /\ want[f] \in Nat /\ size[f] \in Nat /\ Headroom[f] \in Nat
      /\ Needed(f) \in Nat /\ Needed(f) >= want[f] + Headroom[f] - bytes[f]
  BY NumberTypes, TypesTogether
<1>2. /\ budget.used \in Int /\ budget.complete \in Int
      /\ budget.partial \in Int /\ budget.waiters \in Int
  BY DEF StagingTypeOK
<1>3. FitsPermit(f) /\ (stage[f] \in {"granted", "refused"} => f \in waiting) /\ budget.used <= MaxBytes
  BY DEF BudgetKept, FilesFitPermits, AnsweredAreRegistered
<1>4. OthersStand(f)
  BY DEF OthersStand, Shrink, StagingTypeOK
<1>5. stage[f] = "shrinking" /\ disk[f] = size[f] /\ size[f] <= bytes[f]
  BY <1>3 DEF Shrink, FitsPermit
<1>6. /\ stage'[f] = "completing" /\ bytes'[f] = size[f]
      /\ size' = size /\ disk' = disk /\ waiting' = waiting
  BY <1>1, <1>5 DEF Shrink, StagingTypeOK
<1>7. /\ budget'.used = budget.used - (bytes[f] - size[f]) /\ budget'.complete = budget.complete
      /\ budget'.partial = budget.partial /\ budget'.waiters = budget.waiters
  BY <1>1, <1>2, <1>5 DEF Shrink, Monus, StagingTypeOK
<1>8. BudgetMoves(f)
  <2>1. (stage'[f] \in Partial <=> stage[f] \in Partial) /\ stage[f] \notin Complete /\ stage'[f] \notin Complete
    BY <1>5, <1>6, StageKinds
  <2> QED
    BY <1>1, <1>2, <1>5, <1>6, <1>7, <2>1 DEF BudgetMoves
<1>9. FitsPermit(f)'
  BY <1>1, <1>5, <1>6, StageKinds DEF FitsPermit
<1>10. stage'[f] \in {"granted", "refused"} => f \in waiting'
  BY <1>6
<1> QED
  BY <1>4, <1>8, <1>9, <1>10, FileMoves

LEMMA MarkCompleteKeepsBudget ==
  ASSUME StagingTypeOK, StagingTypeOK', BudgetKept, NEW f \in Files, MarkComplete(f)
  PROVE  BudgetKept'
<1>1. /\ bytes[f] \in Nat /\ want[f] \in Nat /\ size[f] \in Nat /\ Headroom[f] \in Nat
      /\ Needed(f) \in Nat /\ Needed(f) >= want[f] + Headroom[f] - bytes[f]
  BY NumberTypes, TypesTogether
<1>2. /\ budget.used \in Int /\ budget.complete \in Int
      /\ budget.partial \in Int /\ budget.waiters \in Int
  BY DEF StagingTypeOK
<1>3. FitsPermit(f) /\ (stage[f] \in {"granted", "refused"} => f \in waiting) /\ budget.used <= MaxBytes
  BY DEF BudgetKept, FilesFitPermits, AnsweredAreRegistered
<1>4. OthersStand(f)
  BY DEF OthersStand, MarkComplete, StagingTypeOK
<1>5. /\ stage[f] = "completing" /\ stage'[f] = "sending"
      /\ bytes' = bytes /\ size' = size /\ disk' = disk /\ waiting' = waiting
  BY DEF MarkComplete, StagingTypeOK
<1>6. /\ budget'.used = budget.used /\ budget'.complete = budget.complete + bytes[f]
      /\ budget'.partial = budget.partial - 1 /\ budget'.waiters = budget.waiters
  BY <1>1, <1>2 DEF MarkComplete, StagingTypeOK
<1>7. BudgetMoves(f)
  BY <1>1, <1>2, <1>5, <1>6, StageKinds DEF BudgetMoves
<1>8. FitsPermit(f)'
  BY <1>3, <1>5, StageKinds DEF FitsPermit
<1>9. stage'[f] \in {"granted", "refused"} => f \in waiting'
  BY <1>5
<1> QED
  BY <1>4, <1>7, <1>8, <1>9, FileMoves


LEMMA StopProducerKeepsBudget ==
  ASSUME StagingTypeOK, StagingTypeOK', BudgetKept, NEW p \in Producers, StopProducer(p)
  PROVE  BudgetKept'
<1>1. PICK f \in Files : f = Plan[p][next[p]]
  BY PlanHasFiles DEF StopProducer, HasItem
<1>2. CASE stage[f] \in {"streaming", "failed"}
  BY <1>1, <1>2, CloseKeepsBudget DEF StopProducer
<1>3. CASE stage[f] \notin {"streaming", "failed"}
  <2>1. /\ stage[f] \in {"planned", "counting", "acquiring"}
        /\ stage' = [stage EXCEPT ![f] = IF @ = "planned" THEN @ ELSE "closed"]
        /\ want' = [want EXCEPT ![f] = 0]
        /\ UNCHANGED <<size, disk, bytes, budget, waiting>>
    BY <1>1, <1>3 DEF StopProducer
  <2>2. OthersStand(f) /\ UNCHANGED budgetVars
    BY <1>1, <2>1 DEF OthersStand, budgetVars, StagingTypeOK
  <2>3. stage'[f] \in {"planned", "closed"}
    BY <1>1, <2>1 DEF StagingTypeOK
  <2>4. FitsPermit(f)
    BY <1>1 DEF BudgetKept, FilesFitPermits
  <2>5. BudgetMoves(f)
    BY <1>1, <2>1, <2>2, <2>3, PermitStays, StageKinds
  <2>6. FitsPermit(f)'
    BY <2>1, <2>3, <2>4, StageKinds DEF FitsPermit
  <2> QED
    BY <1>1, <2>2, <2>3, <2>5, <2>6, FileMoves
<1> QED
  BY <1>2, <1>3

LEMMA ReceiveKeepsBudget ==
  ASSUME StagingTypeOK, StagingTypeOK', BudgetKept, QueueHasQueued, Receive
  PROVE  BudgetKept'
<1>1. PICK f \in Files : f = Head(queue) /\ stage[f] = "queued"
  <2>1. queue # <<>> /\ queue \in Seq(Files)
    BY DEF Receive, StagingTypeOK
  <2>2. 1 \in DOMAIN queue /\ Head(queue) = queue[1] /\ Head(queue) \in Files
    BY <2>1
  <2> QED
    BY <2>2 DEF QueueHasQueued
<1>2. CASE cancelled \/ writerFailed
  BY <1>1, <1>2, CloseKeepsBudget DEF Receive
<1>3. CASE ~(cancelled \/ writerFailed)
  <2>1. /\ stage' = [stage EXCEPT ![f] = "writing"]
        /\ UNCHANGED <<want, size, disk, bytes, budget, waiting>>
    BY <1>1, <1>3 DEF Receive
  <2>2. OthersStand(f) /\ UNCHANGED budgetVars
    BY <1>1, <2>1 DEF OthersStand, budgetVars, StagingTypeOK
  <2>3. stage'[f] = "writing"
    BY <1>1, <2>1 DEF StagingTypeOK
  <2>4. FitsPermit(f)
    BY <1>1 DEF BudgetKept, FilesFitPermits
  <2>5. BudgetMoves(f)
    BY <1>1, <2>2, <2>3, PermitStays, StageKinds
  <2>6. FitsPermit(f)'
    BY <1>1, <2>1, <2>3, <2>4, StageKinds DEF FitsPermit
  <2> QED
    BY <1>1, <2>2, <2>3, <2>5, <2>6, FileMoves
<1> QED
  BY <1>2, <1>3

LEMMA SpawnEncodingKeepsBudget ==
  ASSUME StagingTypeOK, StagingTypeOK', BudgetKept, NEW p \in Producers, NEW f \in Files, SpawnEncoding(p, f)
  PROVE  BudgetKept'
<1>1. CASE cancelled
  BY <1>1, CloseKeepsBudget DEF SpawnEncoding
<1>2. CASE ~cancelled
  BY <1>2, BudgetStays DEF SpawnEncoding, budgetVars
<1> QED
  BY <1>1, <1>2

LEMMA StagingKeepsBudget ==
  ASSUME StagingTypeOK, StagingTypeOK', BudgetKept, QueueHasQueued, [StagingNext]_stagingVars
  PROVE  BudgetKept'
<1>1. ASSUME NEW p \in Producers, ProducerStep(p)
      PROVE  BudgetKept'
  <2>1. CASE ArriveAtBarrier(p) \/ EndItems(p) \/ ArriveLate(p) \/ EndProducer(p)
    BY <2>1, BudgetStays DEF ArriveAtBarrier, EndItems, ArriveLate, EndProducer
  <2>2. ASSUME NEW f \in Files, FailItem(p, f)
        PROVE  BudgetKept'
    BY <2>2, CloseKeepsBudget DEF FailItem
  <2> QED
    BY <1>1, <2>1, <2>2, StartItemKeepsBudget, SkipItemKeepsBudget, TakeCountKeepsBudget,
       AcquireKeepsBudget, RefuseOversizedKeepsBudget, SpawnEncodingKeepsBudget,
       StopProducerKeepsBudget DEF ProducerStep
<1>2. ASSUME NEW f \in Files, DownloadStep(f)
      PROVE  BudgetKept'
  <2>1. CASE DiscardUnsent(f)
    BY <2>1, CloseKeepsBudget DEF DiscardUnsent
  <2> QED
    BY <1>2, <2>1, ReceiveChunkKeepsBudget, StreamFailsKeepsBudget, GrowKeepsBudget,
       AwaitGrowthKeepsBudget, RefuseGrowthKeepsBudget, DropWaiterKeepsBudget,
       RetryStreamKeepsBudget, ReserveTagsKeepsBudget, RewriteTagsKeepsBudget,
       EndStreamKeepsBudget, ShrinkKeepsBudget, MarkCompleteKeepsBudget, SendKeepsBudget
       DEF DownloadStep
<1>3. ASSUME NEW f \in Files, EncoderStep(f)
      PROVE  BudgetKept'
  <2>1. CASE EncodingFails(f)
    BY <2>1, CloseKeepsBudget DEF EncodingFails
  <2> QED
    BY <1>3, <2>1, EncodeKeepsBudget, RemoveOriginalKeepsBudget DEF EncoderStep
<1>4. CASE WriterStep
  <2>1. ASSUME NEW f \in Files, WriteSucceeds(f) \/ WriteFails(f) \/ WriteCancelled(f)
        PROVE  BudgetKept'
    <3>1. Close(f) /\ UNCHANGED waiting
      BY <2>1 DEF WriteSucceeds, WriteFails, WriteCancelled
    <3> QED
      BY <3>1, CloseKeepsBudget
  <2>2. CASE StopWriter \/ CloseStaging
    BY <2>2, BudgetStays DEF StopWriter, CloseStaging
  <2> QED
    BY <1>4, <2>1, <2>2, ReceiveKeepsBudget DEF WriterStep
<1>5. CASE CancelSync \/ UNCHANGED stagingVars
  BY <1>5, BudgetStays DEF CancelSync, stagingVars
<1> QED
  BY <1>1, <1>2, <1>3, <1>4, <1>5 DEF StagingNext


(***************************************************************************)
(* How files and producers move.                                           *)
(***************************************************************************)

\* The way of a file, in which it never goes back.
Rank(s) == IF s = "planned" THEN 0 ELSE IF s \in Download THEN 1 ELSE IF s \in Encoding THEN 2
           ELSE IF s = "queued" THEN 3 ELSE IF s = "writing" THEN 4 ELSE 5

LEMMA RankTells ==
  ASSUME NEW s \in FileStages
  PROVE  /\ Rank(s) \in 0..5
         /\ Rank(s) = 0 <=> s = "planned"
         /\ Rank(s) = 1 <=> s \in Download
         /\ Rank(s) = 2 <=> s \in Encoding
         /\ Rank(s) = 3 <=> s = "queued"
         /\ Rank(s) = 4 <=> s = "writing"
         /\ Rank(s) = 5 <=> s = "closed"
BY DEF Rank, FileStages, Download, Encoding, Partial, Complete

LEMMA PassedRanks ==
  ASSUME NEW s \in FileStages, NEW f
  PROVE  Passed(f, s) <=> Rank(s) \in {3, 4, 5} \/ (f \in Local /\ Rank(s) = 2)
BY RankTells DEF Passed, Handed

FilesAdvance == \A f \in Files : Rank(stage[f]) <= Rank(stage'[f])

\* A file is begun by the producer that has come to it, and an automatic one only behind the
\* barrier.
Starts(p, f) == Current(p, f) /\ ~cancelled /\ (AtBarrier(p) => arrived = Producers)
OnlyCurrentStarts ==
  \A f \in Files : stage[f] = "planned" /\ stage'[f] # "planned" => \E p \in Producers : Starts(p, f)

OnlyLocalEncode ==
  \A f \in Files : stage'[f] \in {"encoding", "encoded"} => f \in Local

\* What a step may do to the loop of a producer: leave it, go on from a file that is on its
\* way, break off (before the end of the plan only with a cancellation), end.
Stands(p)   == at'[p] = at[p] /\ next'[p] = next[p]
GoesOn(p)   == /\ HasItem(p) /\ at'[p] = at[p] /\ next'[p] = next[p] + 1
               /\ Passed(Plan[p][next[p]], stage'[Plan[p][next[p]]])
BreaksOff(p) == /\ at[p] = "items" /\ at'[p] = "joining" /\ next'[p] = next[p]
                /\ next[p] \in DOMAIN Plan[p] =>
                     cancelled' /\ stage'[Plan[p][next[p]]] \in {"planned", "closed"}
Ends(p)     == /\ at[p] = "joining" /\ at'[p] = "ended" /\ next'[p] = next[p]
               /\ EncodingsOf(p) = {} /\ stage' = stage
LoopsMove   == \A p \in Producers : Stands(p) \/ GoesOn(p) \/ BreaksOff(p) \/ Ends(p)

Moves == /\ FilesAdvance /\ OnlyCurrentStarts /\ OnlyLocalEncode /\ LoopsMove
         /\ (cancelled => cancelled')

\* Downloading and encoding.
Works(f) ==
  /\ \A g \in Files \ {f} : stage'[g] = stage[g]
  /\ Rank(stage[f]) \in {1, 2} /\ Rank(stage'[f]) \in {1, 2}
  /\ Rank(stage[f]) <= Rank(stage'[f])
  /\ stage'[f] \in {"encoding", "encoded"} => f \in Local
  /\ UNCHANGED <<producerVars, writerVars, cancelled, outcome>>

LEMMA RankNames ==
  /\ Rank("planned") = 0
  /\ Rank("counting") = 1 /\ Rank("acquiring") = 1 /\ Rank("streaming") = 1 /\ Rank("growing") = 1
  /\ Rank("granted") = 1 /\ Rank("refused") = 1 /\ Rank("tagging") = 1 /\ Rank("failed") = 1
  /\ Rank("encoding") = 2 /\ Rank("encoded") = 2 /\ Rank("shrinking") = 2 /\ Rank("completing") = 2
  /\ Rank("sending") = 2
  /\ Rank("queued") = 3 /\ Rank("writing") = 4 /\ Rank("closed") = 5
BY DEF Rank, Download, Encoding, Partial, Complete

LEMMA DownloadsWork ==
  ASSUME StagingTypeOK, AheadIsPlanned, NEW f \in Files,
         \/ \E p \in Producers : TakeCount(p, f) \/ Acquire(p, f)
         \/ DownloadStep(f) \/ Encode(f) \/ RemoveOriginal(f),
         ~Send(f), ~DiscardUnsent(f)
  PROVE  Works(f)
<1> DEFINE Stays == \A g \in Files \ {f} : stage'[g] = stage[g]
           Changes == /\ Rank(stage[f]) \in {1, 2} /\ Rank(stage'[f]) \in {1, 2}
                      /\ Rank(stage[f]) <= Rank(stage'[f])
                      /\ stage'[f] \in {"encoding", "encoded"} => f \in Local
<1> SUFFICES Stays /\ Changes
  BY DEF Works, TakeCount, Acquire, Stay, DownloadStep, Encode, RemoveOriginal, ReceiveChunk, StreamFails, Grow,
         AwaitGrowth, RefuseGrowth, DropWaiter, RetryStream, ReserveTags, RewriteTags, EndStream, Shrink,
         MarkComplete, producerVars
<1>0. stage[f] \in {"encoding", "encoded"} => f \in Local
  BY DEF AheadIsPlanned
<1>1. CASE \E p \in Producers : TakeCount(p, f)
  <2>1. Stays /\ (stage[f] = "counting") /\ (stage'[f] = "acquiring")
    BY <1>1 DEF TakeCount, StagingTypeOK
  <2> QED
    BY <2>1, <1>0, RankNames
<1>2. CASE \E p \in Producers : Acquire(p, f)
  <2>1. Stays /\ (stage[f] = "acquiring") /\ (stage'[f] = "streaming")
    BY <1>2 DEF Acquire, StagingTypeOK
  <2> QED
    BY <2>1, <1>0, RankNames
<1>3. CASE ReceiveChunk(f)
  <2>1. Stays /\ (stage[f] = "streaming") /\ (stage'[f] = "growing")
    BY <1>3 DEF ReceiveChunk, StagingTypeOK
  <2> QED
    BY <2>1, <1>0, RankNames
<1>4. CASE StreamFails(f)
  <2>1. Stays /\ (stage[f] = "streaming") /\ (stage'[f] = "failed")
    BY <1>4 DEF StreamFails, StagingTypeOK
  <2> QED
    BY <2>1, <1>0, RankNames
<1>5. CASE Grow(f)
  <2>1. Stays /\ (stage[f] = "growing") /\ (stage'[f] = "granted" \/ stage'[f] = "tagging" \/ stage'[f] = "streaming")
    BY <1>5 DEF Grow, BeforeDrop, Granted, StagingTypeOK
  <2> QED
    BY <2>1, <1>0, RankNames
<1>6. CASE AwaitGrowth(f)
  <2>1. Stays /\ (stage[f] = "growing") /\ (stage'[f] = "growing" \/ stage'[f] = "refused")
    BY <1>6 DEF AwaitGrowth, StagingTypeOK
  <2> QED
    BY <2>1, <1>0, RankNames
<1>7. CASE RefuseGrowth(f)
  <2>1. Stays /\ (stage[f] = "growing") /\ (stage'[f] = "refused" \/ stage'[f] = "failed")
    BY <1>7 DEF RefuseGrowth, BeforeDrop, Refused, StagingTypeOK
  <2> QED
    BY <2>1, <1>0, RankNames
<1>8. CASE DropWaiter(f)
  <2>1. Stays /\ (stage[f] = "granted" \/ stage[f] = "refused") /\ (stage'[f] = "tagging" \/ stage'[f] = "streaming" \/ stage'[f] = "failed")
    BY <1>8 DEF DropWaiter, Granted, Refused, StagingTypeOK
  <2> QED
    BY <2>1, <1>0, RankNames
<1>9. CASE RetryStream(f)
  <2>1. Stays /\ (stage[f] = "failed") /\ (stage'[f] = "failed" \/ stage'[f] = "streaming")
    BY <1>9 DEF RetryStream, StagingTypeOK
  <2> QED
    BY <2>1, <1>0, RankNames
<1>10. CASE ReserveTags(f)
  <2>1. Stays /\ (stage[f] = "streaming") /\ (stage'[f] = "growing")
    BY <1>10 DEF ReserveTags, StagingTypeOK
  <2> QED
    BY <2>1, <1>0, RankNames
<1>11. CASE RewriteTags(f)
  <2>1. Stays /\ (stage[f] = "tagging") /\ ((stage'[f] = "encoding" /\ f \in Local) \/ stage'[f] = "shrinking" \/ stage'[f] = "failed")
    BY <1>11 DEF RewriteTags, StagingTypeOK
  <2> QED
    BY <2>1, <1>0, RankNames
<1>12. CASE EndStream(f)
  <2>1. Stays /\ (stage[f] = "streaming") /\ ((stage'[f] = "encoding" /\ f \in Local) \/ stage'[f] = "shrinking")
    BY <1>12 DEF EndStream, StagingTypeOK
  <2> QED
    BY <2>1, <1>0, RankNames
<1>13. CASE Shrink(f)
  <2>1. Stays /\ (stage[f] = "shrinking") /\ (stage'[f] = "completing")
    BY <1>13 DEF Shrink, StagingTypeOK
  <2> QED
    BY <2>1, <1>0, RankNames
<1>14. CASE MarkComplete(f)
  <2>1. Stays /\ (stage[f] = "completing") /\ (stage'[f] = "sending")
    BY <1>14 DEF MarkComplete, StagingTypeOK
  <2> QED
    BY <2>1, <1>0, RankNames
<1>15. CASE Encode(f)
  <2>1. Stays /\ (stage[f] = "encoding") /\ (stage'[f] = "encoded")
    BY <1>15 DEF Encode, StagingTypeOK
  <2> QED
    BY <2>1, <1>0, RankNames
<1>16. CASE RemoveOriginal(f)
  <2>1. Stays /\ (stage[f] = "encoded") /\ (stage'[f] = "shrinking")
    BY <1>16 DEF RemoveOriginal, StagingTypeOK
  <2> QED
    BY <2>1, <1>0, RankNames
<1> HIDE DEF Stays, Changes
<1> QED
  BY <1>1, <1>2, <1>3, <1>4, <1>5, <1>6, <1>7, <1>8, <1>9, <1>10, <1>11, <1>12, <1>13, <1>14, <1>15, <1>16 DEF DownloadStep


LEMMA OneFileMoves ==
  ASSUME StagingTypeOK, AheadIsPlanned, NEW f \in Files,
         \A g \in Files \ {f} : stage'[g] = stage[g],
         Rank(stage[f]) <= Rank(stage'[f]),
         stage[f] = "planned" /\ stage'[f] # "planned" => \E p \in Producers : Starts(p, f),
         stage'[f] \in {"encoding", "encoded"} => f \in Local
  PROVE  FilesAdvance /\ OnlyCurrentStarts /\ OnlyLocalEncode
<1>1. FilesAdvance
  <2> SUFFICES ASSUME NEW g \in Files PROVE Rank(stage[g]) <= Rank(stage'[g])
    BY DEF FilesAdvance
  <2>1. Rank(stage[g]) \in 0..5
    BY RankTells DEF StagingTypeOK
  <2> QED
    BY <2>1
<1>2. OnlyCurrentStarts
  BY DEF OnlyCurrentStarts
<1>3. OnlyLocalEncode
  BY DEF OnlyLocalEncode, AheadIsPlanned
<1> QED
  BY <1>1, <1>2, <1>3

\* A file is closed, and nothing is done to the others.
Shuts(f) == stage'[f] = "closed" /\ \A g \in Files \ {f} : stage'[g] = stage[g]

LEMMA CloseShuts ==
  ASSUME StagingTypeOK, NEW f \in Files, Close(f)
  PROVE  Shuts(f)
BY DEF Shuts, Close, StagingTypeOK

LEMMA ShutFileMoves ==
  ASSUME StagingTypeOK, AheadIsPlanned, NEW f \in Files, Shuts(f),
         stage[f] = "planned" => \E p \in Producers : Starts(p, f)
  PROVE  FilesAdvance /\ OnlyCurrentStarts /\ OnlyLocalEncode
<1>1. Rank(stage[f]) \in 0..5 /\ Rank(stage'[f]) = 5
  BY RankTells, RankNames DEF StagingTypeOK, Shuts
<1> QED
  BY <1>1, OneFileMoves DEF Shuts

LEMMA NoFileMoves ==
  ASSUME StagingTypeOK, AheadIsPlanned, stage' = stage
  PROVE  FilesAdvance /\ OnlyCurrentStarts /\ OnlyLocalEncode
<1>1. \A g \in Files : Rank(stage[g]) \in 0..5
  BY RankTells DEF StagingTypeOK
<1> QED
  BY <1>1 DEF FilesAdvance, OnlyCurrentStarts, OnlyLocalEncode, AheadIsPlanned

\* The loop of one producer moves.
LEMMA OneLoopMoves ==
  ASSUME StagingTypeOK, NEW p \in Producers,
         \/ Advance(p) /\ HasItem(p) /\ Passed(Plan[p][next[p]], stage'[Plan[p][next[p]]])
         \/ Break(p) /\ at[p] = "items"
            /\ (next[p] \in DOMAIN Plan[p] =>
                  cancelled' /\ stage'[Plan[p][next[p]]] \in {"planned", "closed"})
         \/ Stay
  PROVE  LoopsMove
<1> SUFFICES ASSUME NEW q \in Producers
             PROVE  Stands(q) \/ GoesOn(q) \/ BreaksOff(q) \/ Ends(q)
  BY DEF LoopsMove
<1>1. CASE Advance(p) /\ HasItem(p) /\ Passed(Plan[p][next[p]], stage'[Plan[p][next[p]]])
  BY <1>1 DEF Advance, Stands, GoesOn, StagingTypeOK
<1>2. CASE Break(p) /\ at[p] = "items"
            /\ (next[p] \in DOMAIN Plan[p] =>
                  cancelled' /\ stage'[Plan[p][next[p]]] \in {"planned", "closed"})
  BY <1>2 DEF Break, Stands, BreaksOff, StagingTypeOK
<1>3. CASE Stay
  BY <1>3 DEF Stay, Stands
<1> QED
  BY <1>1, <1>2, <1>3

LEMMA LoopsStand ==
  ASSUME UNCHANGED <<at, next>>
  PROVE  LoopsMove
BY DEF LoopsMove, Stands

\* A producer that went on or broke off because of a failure.
LEMMA BlamedLoopMoves ==
  ASSUME StagingTypeOK, NEW p \in Producers, NEW f \in Files, Current(p, f), Shuts(f),
         Blame(f) /\ AfterBlame(p, f)
  PROVE  LoopsMove /\ (cancelled => cancelled')
<1>1. Plan[p][next[p]] = f /\ HasItem(p) /\ at[p] = "items"
  BY DEF Current, HasItem
<1>2. Passed(f, "closed")
  BY DEF Passed, Handed
<1>3. CASE f \in AutoFill
  BY <1>1, <1>2, <1>3, OneLoopMoves DEF Blame, AfterBlame, Shuts
<1>4. CASE f \notin AutoFill
  BY <1>1, <1>4, OneLoopMoves DEF Blame, AfterBlame, Shuts
<1> QED
  BY <1>3, <1>4

LEMMA WorksMove ==
  ASSUME StagingTypeOK, AheadIsPlanned, NEW f \in Files, Works(f)
  PROVE  Moves
<1>1. stage[f] # "planned"
  BY RankNames DEF Works
<1>2. FilesAdvance /\ OnlyCurrentStarts /\ OnlyLocalEncode
  BY <1>1, OneFileMoves DEF Works
<1> QED
  BY <1>2, LoopsStand DEF Works, producerVars, Moves

LEMMA ProducerMoves ==
  ASSUME StagingTypeOK, AheadIsPlanned, NEW p \in Producers, ProducerStep(p)
  PROVE  Moves
<1>1. CASE ArriveAtBarrier(p) \/ ArriveLate(p)
  BY <1>1, NoFileMoves, LoopsStand DEF ArriveAtBarrier, ArriveLate, fileVars, Moves
<1>2. ASSUME NEW f \in Files, StartItem(p, f)
      PROVE  Moves
  <2>1. /\ stage[f] = "planned" /\ stage'[f] = "counting" /\ Starts(p, f)
        /\ \A g \in Files \ {f} : stage'[g] = stage[g]
    BY <1>2 DEF StartItem, Starts, StagingTypeOK
  <2>2. Rank(stage[f]) <= Rank(stage'[f])
    BY <2>1, RankNames
  <2> QED
    BY <1>2, <2>1, <2>2, OneFileMoves, LoopsStand DEF StartItem, Stay, Moves
<1>3. ASSUME NEW f \in Files, SkipItem(p, f)
      PROVE  Moves
  <2>1. Shuts(f) /\ Current(p, f) /\ Starts(p, f)
    BY <1>3 DEF SkipItem, Shuts, Starts, StagingTypeOK
  <2>2. LoopsMove /\ (cancelled => cancelled')
    <3>1. CASE Blame(f) /\ AfterBlame(p, f)
      BY <2>1, <3>1, BlamedLoopMoves
    <3>2. CASE Advance(p) /\ UNCHANGED cancelled
      BY <2>1, <3>2, OneLoopMoves DEF Shuts, Current, Passed, Handed
    <3> QED
      BY <1>3, <3>1, <3>2 DEF SkipItem
  <2> QED
    BY <2>1, <2>2, ShutFileMoves DEF Moves
<1>4. ASSUME NEW f \in Files, TakeCount(p, f) \/ Acquire(p, f)
      PROVE  Moves
  <2>1. Works(f)
    BY <1>4, DownloadsWork DEF DownloadStep, Send, DiscardUnsent, TakeCount, Acquire
  <2> QED
    BY <2>1, WorksMove
<1>5. ASSUME NEW f \in Files, RefuseOversized(p, f)
      PROVE  Moves
  <2>1. Shuts(f) /\ Current(p, f) /\ stage[f] = "acquiring"
    BY <1>5 DEF RefuseOversized, Shuts, StagingTypeOK
  <2>2. LoopsMove
    <3>1. CASE cancelled
      BY <1>5, <2>1, <3>1, OneLoopMoves DEF RefuseOversized, Shuts, Current, HasItem
    <3>2. CASE ~cancelled
      BY <1>5, <2>1, <3>2, OneLoopMoves DEF RefuseOversized, Shuts, Current, Passed, Handed
    <3> QED
      BY <3>1, <3>2
  <2> QED
    BY <1>5, <2>1, <2>2, ShutFileMoves DEF Moves, RefuseOversized
<1>6. ASSUME NEW f \in Files, FailItem(p, f)
      PROVE  Moves
  <2>1. Shuts(f) /\ Current(p, f) /\ stage[f] = "failed"
    BY <1>6, CloseShuts DEF FailItem
  <2>2. LoopsMove /\ (cancelled => cancelled')
    BY <1>6, <2>1, BlamedLoopMoves DEF FailItem
  <2> QED
    BY <2>1, <2>2, ShutFileMoves DEF Moves
<1>7. ASSUME NEW f \in Files, SpawnEncoding(p, f)
      PROVE  Moves
  <2>1. /\ Current(p, f) /\ stage[f] = "encoding" /\ f \in Local
        /\ cancelled' = cancelled
    BY <1>7 DEF SpawnEncoding, AheadIsPlanned
  <2>2. CASE cancelled
    <3>1. Shuts(f)
      BY <1>7, <2>2, CloseShuts DEF SpawnEncoding
    <3>2. LoopsMove
      BY <1>7, <2>1, <2>2, <3>1, OneLoopMoves DEF SpawnEncoding, Shuts, Current, HasItem
    <3> QED
      BY <2>1, <3>1, <3>2, ShutFileMoves DEF Moves
  <2>3. CASE ~cancelled
    <3>1. stage' = stage /\ Advance(p)
      BY <1>7, <2>3 DEF SpawnEncoding, fileVars
    <3>2. LoopsMove
      BY <2>1, <3>1, OneLoopMoves DEF Current, Passed, Encoding
    <3> QED
      BY <2>1, <3>1, <3>2, NoFileMoves DEF Moves
  <2> QED
    BY <2>2, <2>3
<1>8. CASE StopProducer(p)
  <2>1. PICK f \in Files : f = Plan[p][next[p]]
    BY <1>8, PlanHasFiles DEF StopProducer, HasItem
  <2>2. HasItem(p) /\ cancelled /\ cancelled' = cancelled /\ Break(p) /\ Current(p, f)
    BY <1>8, <2>1 DEF StopProducer, Current
  <2>3. stage' = stage \/ (Shuts(f) /\ stage[f] # "planned")
    <3>1. CASE stage[f] \in {"streaming", "failed"}
      BY <1>8, <2>1, <3>1, CloseShuts DEF StopProducer
    <3>2. CASE stage[f] = "planned"
      <4>1. stage' = [stage EXCEPT ![f] = "planned"]
        BY <1>8, <2>1, <3>2 DEF StopProducer, StagingTypeOK
      <4> QED
        BY <3>2, <4>1 DEF StagingTypeOK
    <3>3. CASE stage[f] \in {"counting", "acquiring"}
      <4>1. stage' = [stage EXCEPT ![f] = "closed"]
        BY <1>8, <2>1, <3>3 DEF StopProducer
      <4>2. Shuts(f)
        BY <4>1 DEF Shuts, StagingTypeOK
      <4> QED
        BY <3>3, <4>2
    <3> QED
      BY <1>8, <2>1, <3>1, <3>2, <3>3 DEF StopProducer
  <2>4. stage'[f] \in {"planned", "closed"}
    <3>1. CASE stage[f] = "planned"
      BY <2>3, <3>1 DEF Shuts
    <3>2. CASE stage[f] # "planned"
      <4>1. CASE stage[f] \in {"streaming", "failed"}
        BY <1>8, <2>1, <4>1, CloseShuts DEF StopProducer, Shuts
      <4>2. CASE stage[f] \notin {"streaming", "failed"}
        BY <1>8, <2>1, <3>2, <4>2 DEF StopProducer, StagingTypeOK
      <4> QED
        BY <4>1, <4>2
    <3> QED
      BY <3>1, <3>2
  <2>5. LoopsMove
    BY <2>1, <2>2, <2>4, OneLoopMoves DEF HasItem
  <2>6. FilesAdvance /\ OnlyCurrentStarts /\ OnlyLocalEncode
    BY <2>2, <2>3, NoFileMoves, ShutFileMoves
  <2> QED
    BY <2>2, <2>5, <2>6 DEF Moves
<1>9. CASE EndItems(p)
  BY <1>9, NoFileMoves, OneLoopMoves DEF EndItems, fileVars, Moves
<1>10. CASE EndProducer(p)
  <2>1. LoopsMove
    BY <1>10 DEF EndProducer, LoopsMove, Stands, Ends, fileVars, StagingTypeOK
  <2> QED
    BY <1>10, <2>1, NoFileMoves DEF EndProducer, fileVars, Moves
<1> QED
  BY <1>1, <1>2, <1>3, <1>4, <1>5, <1>6, <1>7, <1>8, <1>9, <1>10 DEF ProducerStep

LEMMA SendMoves ==
  ASSUME StagingTypeOK, AheadIsPlanned, NEW f \in Files, Send(f) \/ DiscardUnsent(f)
  PROVE  Moves
<1>1. /\ stage[f] = "sending" /\ at' = at /\ cancelled' = cancelled
      /\ next' = [p \in Producers |-> IF Current(p, f) THEN next[p] + 1 ELSE next[p]]
  BY DEF Send, DiscardUnsent
<1>2. /\ stage'[f] = "queued" \/ stage'[f] = "closed"
      /\ \A g \in Files \ {f} : stage'[g] = stage[g]
  BY CloseShuts DEF Send, DiscardUnsent, Shuts, StagingTypeOK
<1>3. FilesAdvance /\ OnlyCurrentStarts /\ OnlyLocalEncode
  <2>1. Rank(stage[f]) <= Rank(stage'[f])
    BY <1>1, <1>2, RankNames
  <2> QED
    BY <1>1, <1>2, <2>1, OneFileMoves
<1>4. LoopsMove
  <2> SUFFICES ASSUME NEW p \in Producers PROVE Stands(p) \/ GoesOn(p)
    BY DEF LoopsMove
  <2>1. CASE Current(p, f)
    <3>1. HasItem(p) /\ Plan[p][next[p]] = f
      BY <2>1 DEF Current
    <3>2. Passed(f, stage'[f])
      BY <1>2 DEF Passed, Handed
    <3> QED
      BY <1>1, <2>1, <3>1, <3>2 DEF GoesOn
  <2>2. CASE ~Current(p, f)
    BY <1>1, <2>2 DEF Stands
  <2> QED
    BY <2>1, <2>2
<1> QED
  BY <1>1, <1>3, <1>4 DEF Moves

LEMMA WriterMoves ==
  ASSUME StagingTypeOK, AheadIsPlanned, QueueHasQueued, WriterStep
  PROVE  Moves
<1>1. CASE Receive
  <2>1. PICK f \in Files : f = Head(queue) /\ stage[f] = "queued"
    <3>1. queue # <<>> /\ queue \in Seq(Files)
      BY <1>1 DEF Receive, StagingTypeOK
    <3>2. 1 \in DOMAIN queue /\ Head(queue) = queue[1] /\ Head(queue) \in Files
      BY <3>1
    <3> QED
      BY <3>2 DEF QueueHasQueued
  <2>2. LoopsMove /\ cancelled' = cancelled
    BY <1>1, LoopsStand DEF Receive, producerVars
  <2>3. CASE cancelled \/ writerFailed
    <3>1. Shuts(f)
      BY <1>1, <2>1, <2>3, CloseShuts DEF Receive
    <3> QED
      BY <2>1, <2>2, <3>1, ShutFileMoves DEF Moves
  <2>4. CASE ~(cancelled \/ writerFailed)
    <3>1. stage'[f] = "writing" /\ \A g \in Files \ {f} : stage'[g] = stage[g]
      BY <1>1, <2>1, <2>4 DEF Receive, StagingTypeOK
    <3>2. Rank(stage[f]) <= Rank(stage'[f])
      BY <2>1, <3>1, RankNames
    <3> QED
      BY <2>1, <2>2, <3>1, <3>2, OneFileMoves DEF Moves
  <2> QED
    BY <2>3, <2>4
<1>2. ASSUME NEW f \in Files, WriteSucceeds(f) \/ WriteFails(f) \/ WriteCancelled(f)
      PROVE  Moves
  <2>1. /\ stage[f] = "writing" /\ Close(f) /\ UNCHANGED <<at, next>>
        /\ cancelled => cancelled'
    BY <1>2 DEF WriteSucceeds, WriteFails, WriteCancelled, producerVars
  <2>2. Shuts(f)
    BY <2>1, CloseShuts
  <2> QED
    BY <2>1, <2>2, ShutFileMoves, LoopsStand DEF Moves
<1>3. CASE StopWriter \/ CloseStaging
  BY <1>3, NoFileMoves, LoopsStand DEF StopWriter, CloseStaging, producerVars, fileVars, Moves
<1> QED
  BY <1>1, <1>2, <1>3 DEF WriterStep

LEMMA StagingMoves ==
  ASSUME StagingTypeOK, AheadIsPlanned, QueueHasQueued, [StagingNext]_stagingVars
  PROVE  Moves
<1>1. ASSUME NEW f \in Files, DownloadStep(f) \/ EncoderStep(f)
      PROVE  Moves
  <2>1. CASE Send(f) \/ DiscardUnsent(f)
    BY <2>1, SendMoves
  <2>2. CASE EncodingFails(f)
    <3>1. /\ stage[f] \in {"encoding", "encoded"} /\ Close(f) /\ UNCHANGED <<at, next>>
          /\ cancelled => cancelled'
      BY <2>2 DEF EncodingFails, Blame, producerVars
    <3>2. Shuts(f)
      BY <3>1, CloseShuts
    <3> QED
      BY <3>1, <3>2, ShutFileMoves, LoopsStand DEF Moves
  <2>3. CASE ~(Send(f) \/ DiscardUnsent(f) \/ EncodingFails(f))
    BY <1>1, <2>3, DownloadsWork, WorksMove DEF EncoderStep
  <2> QED
    BY <2>1, <2>2, <2>3
<1>2. CASE CancelSync \/ UNCHANGED stagingVars
  BY <1>2, NoFileMoves, LoopsStand DEF CancelSync, stagingVars, producerVars, fileVars, Moves
<1> QED
  BY <1>1, <1>2, ProducerMoves, WriterMoves DEF StagingNext


(***************************************************************************)
(* What such moves keep.                                                   *)
(***************************************************************************)

\* Files in an order that is one number further on are so still.
LEMMA RanksGrow ==
  ASSUME StagingTypeOK, StagingTypeOK', FilesAdvance, NEW f \in Files
  PROVE  /\ stage[f] \in FileStages /\ stage'[f] \in FileStages
         /\ Rank(stage[f]) \in 0..5 /\ Rank(stage'[f]) \in 0..5
         /\ Rank(stage[f]) <= Rank(stage'[f])
BY RankTells DEF StagingTypeOK, FilesAdvance

LEMMA PassedStays ==
  ASSUME StagingTypeOK, StagingTypeOK', FilesAdvance, NEW f \in Files, PassedOn(f)
  PROVE  Passed(f, stage'[f])
BY RanksGrow, PassedRanks DEF PassedOn

LEMMA ThroughStays ==
  ASSUME StagingTypeOK, StagingTypeOK', FilesAdvance, NEW f \in Files, Through(f)
  PROVE  Through(f)'
<1>1. Rank(stage[f]) >= 2
  BY RanksGrow, RankTells DEF Through
<1>2. Rank(stage'[f]) # 0 /\ Rank(stage'[f]) # 1
  BY <1>1, RanksGrow
<1> QED
  BY <1>2, RanksGrow, RankTells DEF Through

LEMMA PassedIsThrough ==
  ASSUME StagingTypeOK, NEW f \in Files, PassedOn(f)
  PROVE  Through(f)
<1>1. stage[f] \in FileStages
  BY DEF StagingTypeOK
<1>2. Rank(stage[f]) # 0 /\ Rank(stage[f]) # 1
  BY <1>1, PassedRanks DEF PassedOn
<1> QED
  BY <1>1, <1>2, RankTells DEF Through

LEMMA PlaceTypes ==
  ASSUME StagingTypeOK, NEW p \in Producers
  PROVE  /\ next[p] \in Nat \ {0} /\ Len(Plan[p]) \in Nat
         /\ DOMAIN Plan[p] = 1..Len(Plan[p])
         /\ at[p] \in {"items", "joining", "ended"}
BY PlanHasFiles DEF StagingTypeOK

LEMMA PlacesKept ==
  ASSUME StagingTypeOK, PlacesInPlan, Moves
  PROVE  PlacesInPlan'
<1> SUFFICES ASSUME NEW p \in Producers
             PROVE  /\ next'[p] <= Len(Plan[p]) + 1
                    /\ at'[p] # "items" /\ ~cancelled' => next'[p] = Len(Plan[p]) + 1
  BY DEF PlacesInPlan
<1>1. next[p] <= Len(Plan[p]) + 1 /\ (at[p] # "items" /\ ~cancelled => next[p] = Len(Plan[p]) + 1)
  BY DEF PlacesInPlan
<1>2. CASE Stands(p)
  BY <1>1, <1>2 DEF Stands, Moves
<1>3. CASE GoesOn(p)
  BY <1>3, PlaceTypes DEF GoesOn, HasItem
<1>4. CASE BreaksOff(p)
  BY <1>1, <1>4, PlaceTypes DEF BreaksOff
<1>5. CASE Ends(p)
  BY <1>1, <1>5 DEF Ends, Moves
<1> QED
  BY <1>2, <1>3, <1>4, <1>5 DEF Moves, LoopsMove

\* A file has one place, so only the producer that comes to it starts it.
LEMMA StarterIsCurrent ==
  ASSUME Moves, NEW p \in Producers, NEW i \in DOMAIN Plan[p],
         stage[Plan[p][i]] = "planned", stage'[Plan[p][i]] # "planned"
  PROVE  HasItem(p) /\ next[p] = i
<1>1. Plan[p][i] \in Files
  BY PlanHasFiles
<1>2. PICK q \in Producers : Current(q, Plan[p][i])
  BY <1>1 DEF Moves, OnlyCurrentStarts, Starts
<1>3. HasItem(q) /\ next[q] \in DOMAIN Plan[q] /\ Plan[q][next[q]] = Plan[p][i]
  BY <1>2 DEF Current, HasItem
<1>4. q = p /\ next[q] = i
  BY <1>3, StagingAssumption
<1> QED
  BY <1>3, <1>4

LEMMA AheadKept ==
  ASSUME StagingTypeOK, StagingTypeOK', AheadIsPlanned, Moves
  PROVE  AheadIsPlanned'
<1>1. ASSUME NEW p \in Producers, NEW i \in DOMAIN Plan[p]
      PROVE  /\ i > next'[p] => stage'[Plan[p][i]] = "planned"
             /\ i = next'[p] /\ at'[p] # "items" => stage'[Plan[p][i]] \in {"planned", "closed"}
  <2> DEFINE f == Plan[p][i]
  <2>1. f \in Files /\ i \in Nat
    BY PlanHasFiles
  <2>2. /\ i > next[p] => stage[f] = "planned"
        /\ i = next[p] /\ at[p] # "items" => stage[f] \in {"planned", "closed"}
    BY DEF AheadIsPlanned
  <2>3. next[p] \in Nat /\ next'[p] \in Nat
    BY DEF StagingTypeOK
  <2>4. stage[f] = "planned" /\ stage'[f] # "planned" => HasItem(p) /\ next[p] = i
    BY StarterIsCurrent
  <2>5. stage[f] = "closed" => stage'[f] = "closed"
    BY <2>1, RanksGrow, RankTells DEF Moves
  <2>6. CASE Stands(p)
    BY <2>2, <2>3, <2>4, <2>5, <2>6 DEF Stands, HasItem
  <2>7. CASE GoesOn(p)
    <3>1. next'[p] = next[p] + 1 /\ at'[p] = "items"
      BY <2>7 DEF GoesOn, HasItem
    <3> QED
      BY <2>1, <2>2, <2>3, <2>4, <3>1
  <2>8. CASE BreaksOff(p)
    BY <2>2, <2>3, <2>4, <2>8 DEF BreaksOff
  <2>9. CASE Ends(p)
    BY <2>2, <2>3, <2>9 DEF Ends
  <2> QED
    BY <2>6, <2>7, <2>8, <2>9 DEF Moves, LoopsMove
<1> QED
  BY <1>1 DEF AheadIsPlanned, Moves, OnlyLocalEncode

LEMMA PassedKept ==
  ASSUME StagingTypeOK, StagingTypeOK', PassedAreOnTheirWay, Moves
  PROVE  PassedAreOnTheirWay'
<1> SUFFICES ASSUME NEW p \in Producers, NEW i \in DOMAIN Plan[p], i < next'[p]
             PROVE  Passed(Plan[p][i], stage'[Plan[p][i]])
  BY DEF PassedAreOnTheirWay, PassedOn
<1>1. Plan[p][i] \in Files /\ i \in Nat
  BY PlanHasFiles
<1>2. next[p] \in Nat /\ next'[p] \in Nat
  BY DEF StagingTypeOK
<1>3. i < next[p] => Passed(Plan[p][i], stage'[Plan[p][i]])
  BY <1>1, PassedStays DEF PassedAreOnTheirWay, Moves
<1>4. CASE GoesOn(p)
  <2>1. next'[p] = next[p] + 1 /\ Passed(Plan[p][next[p]], stage'[Plan[p][next[p]]])
    BY <1>4 DEF GoesOn
  <2>2. i < next[p] \/ i = next[p]
    BY <1>1, <1>2, <2>1
  <2> QED
    BY <1>3, <2>1, <2>2
<1>5. CASE ~GoesOn(p)
  BY <1>3, <1>5 DEF Moves, LoopsMove, Stands, BreaksOff, Ends
<1> QED
  BY <1>4, <1>5

\* Where the files of a producer can be that has gone through its plan.
LEMMA DoneProducers ==
  ASSUME StagingTypeOK, AheadIsPlanned, PassedAreOnTheirWay, NEW p \in Producers, at[p] # "items",
         NEW i \in DOMAIN Plan[p]
  PROVE  stage[Plan[p][i]] \in {"planned", "closed"} \/ PassedOn(Plan[p][i])
<1>1. i \in Nat /\ next[p] \in Nat
  BY PlanHasFiles DEF StagingTypeOK
<1>2. i < next[p] \/ i = next[p] \/ i > next[p]
  BY <1>1
<1> QED
  BY <1>2 DEF AheadIsPlanned, PassedAreOnTheirWay

LEMMA EndedKept ==
  ASSUME StagingTypeOK, StagingTypeOK', AheadIsPlanned, PassedAreOnTheirWay, EndedHaveNoEncodings, Moves
  PROVE  EndedHaveNoEncodings'
<1> SUFFICES ASSUME NEW p \in Producers, at'[p] = "ended", NEW f \in Local \cap Range(Plan[p]),
                    stage'[f] \in Encoding
             PROVE  FALSE
  BY DEF EndedHaveNoEncodings, EncodingsOf, Encoding
<1>1. PICK i \in DOMAIN Plan[p] : Plan[p][i] = f
  BY DEF Range
<1>2. f \in Files
  BY <1>1, PlanHasFiles
<1>3. CASE Ends(p)
  BY <1>3 DEF Ends, EncodingsOf, Encoding
<1>4. CASE ~Ends(p)
  <2>1. at[p] = "ended"
    BY <1>4 DEF Moves, LoopsMove, Stands, GoesOn, HasItem, BreaksOff
  <2>2. stage[f] \notin Encoding
    BY <2>1 DEF EndedHaveNoEncodings, EncodingsOf, Encoding
  <2>3. stage[f] \in {"planned", "closed"} \/ PassedOn(f)
    BY <1>1, <2>1, DoneProducers
  <2>4. Rank(stage'[f]) = 2 /\ Rank(stage[f]) # 2
    BY <1>2, <2>2, RanksGrow, RankTells DEF Moves
  <2>5. Rank(stage[f]) \in {0, 3, 4, 5}
    BY <1>2, <2>2, <2>3, RanksGrow, RankTells, PassedRanks DEF Moves, PassedOn
  <2>6. stage[f] = "planned"
    BY <1>2, <2>4, <2>5, RanksGrow, RankTells DEF Moves
  <2>7. HasItem(p)
    BY <1>1, <2>4, <2>6, StarterIsCurrent, RankNames
  <2> QED
    BY <2>1, <2>7 DEF HasItem
<1> QED
  BY <1>3, <1>4

LEMMA ArrivalsMove ==
  ASSUME StagingNext \/ UNCHANGED stagingVars
  PROVE  arrived' = arrived \/ \E p \in Producers : /\ ArriveAtBarrier(p) \/ ArriveLate(p)
                                                    /\ arrived' = arrived \cup {p}
<1>1. ASSUME NEW p \in Producers, ProducerStep(p), ~ArriveAtBarrier(p), ~ArriveLate(p)
      PROVE  arrived' = arrived
  BY <1>1 DEF ProducerStep, StartItem, SkipItem, TakeCount, Acquire, RefuseOversized, FailItem,
              SpawnEncoding, StopProducer, EndItems, EndProducer
<1>2. ASSUME NEW f \in Files, DownloadStep(f) \/ EncoderStep(f)
      PROVE  arrived' = arrived
  BY <1>2 DEF DownloadStep, EncoderStep, ReceiveChunk, StreamFails, Grow, AwaitGrowth, RefuseGrowth,
              DropWaiter, RetryStream, ReserveTags, RewriteTags, EndStream, Shrink, MarkComplete, Send,
              DiscardUnsent, Encode, RemoveOriginal, EncodingFails, producerVars
<1>3. CASE WriterStep \/ CancelSync \/ UNCHANGED stagingVars
  BY <1>3 DEF WriterStep, Receive, WriteSucceeds, WriteFails, WriteCancelled, StopWriter, CloseStaging,
              CancelSync, stagingVars, producerVars
<1> QED
  BY <1>1, <1>2, <1>3 DEF StagingNext, ArriveAtBarrier, ArriveLate

\* A file the user chose comes before the automatic ones of its server.
LEMMA ChosenComeFirst ==
  ASSUME NEW p \in Producers, NEW i \in DOMAIN Plan[p], NEW j \in DOMAIN Plan[p],
         Plan[p][i] \notin AutoFill, Plan[p][j] \in AutoFill
  PROVE  i < j
<1>1. i \in Nat /\ j \in Nat
  BY PlanHasFiles
<1>2. ~(j < i) /\ i # j
  BY StagingAssumption
<1> QED
  BY <1>1, <1>2

LEMMA ArrivedKept ==
  ASSUME StagingTypeOK, StagingTypeOK', PlacesInPlan, PassedAreOnTheirWay, ArrivedAreThrough, Moves,
         StagingNext \/ UNCHANGED stagingVars
  PROVE  ArrivedAreThrough'
<1> SUFFICES ASSUME ~cancelled', NEW p \in arrived', NEW i \in DOMAIN Plan[p], Plan[p][i] \notin AutoFill
             PROVE  Through(Plan[p][i])'
  BY DEF ArrivedAreThrough
<1>1. p \in Producers /\ ~cancelled
  BY DEF StagingTypeOK, Moves
<1>2. Plan[p][i] \in Files /\ i \in Nat /\ i <= Len(Plan[p])
  BY <1>1, PlanHasFiles
<1>3. i < next[p] => Through(Plan[p][i])
  BY <1>1, <1>2, PassedIsThrough DEF PassedAreOnTheirWay
<1>4. Through(Plan[p][i])
  <2>1. CASE p \in arrived
    BY <1>1, <2>1 DEF ArrivedAreThrough
  <2>2. CASE ArriveAtBarrier(p)
    <3>1. next[p] \in DOMAIN Plan[p] /\ Plan[p][next[p]] \in AutoFill
      BY <2>2 DEF ArriveAtBarrier, AtBarrier, HasItem
    <3>2. i < next[p]
      BY <1>1, <3>1, ChosenComeFirst
    <3> QED
      BY <1>3, <3>2
  <2>3. CASE ArriveLate(p)
    <3>1. next[p] = Len(Plan[p]) + 1
      BY <1>1, <2>3 DEF ArriveLate, PlacesInPlan
    <3>2. i < next[p]
      BY <1>1, <1>2, <3>1, PlaceTypes
    <3> QED
      BY <1>3, <3>2
  <2> QED
    BY <2>1, <2>2, <2>3, ArrivalsMove
<1>5. Plan[p][i] \in Files
  BY <1>2
<1> QED
  BY <1>4, <1>5, ThroughStays DEF Moves

LEMMA ManualKept ==
  ASSUME StagingTypeOK, StagingTypeOK', PassedAreOnTheirWay, ArrivedAreThrough, ManualBeforeAutoFill, Moves
  PROVE  ManualBeforeAutoFill'
<1> SUFFICES ASSUME NEW f \in AutoFill, NEW g \in Files \ AutoFill, stage'[f] # "planned"
             PROVE  Through(g)'
  BY DEF ManualBeforeAutoFill, Through
<1>1. f \in Files
  BY StagingAssumption
<1>2. CASE stage[f] # "planned"
  BY <1>2, ThroughStays DEF ManualBeforeAutoFill, Through, Moves
<1>3. CASE stage[f] = "planned"
  <2>1. PICK p \in Producers : Starts(p, f)
    BY <1>1, <1>3 DEF Moves, OnlyCurrentStarts
  <2>2. HasItem(p) /\ Plan[p][next[p]] = f /\ ~cancelled /\ next[p] \in DOMAIN Plan[p]
    BY <2>1 DEF Starts, Current, HasItem
  <2>3. Through(g)
    <3>1. CASE AtBarrier(p)
      <4>1. PICK q \in Producers : \E j \in DOMAIN Plan[q] : Plan[q][j] = g
        BY StagingAssumption DEF Range
      <4>2. q \in arrived
        BY <2>1, <3>1 DEF Starts
      <4> QED
        BY <2>2, <4>1, <4>2 DEF ArrivedAreThrough
    <3>2. CASE ~AtBarrier(p)
      <4>1. PICK i \in 1..(next[p] - 1) : Plan[p][i] \in AutoFill
        BY <2>2, <3>2 DEF AtBarrier
      <4>2. i \in DOMAIN Plan[p] /\ i < next[p]
        BY <2>2, <4>1, PlaceTypes
      <4>3. PassedOn(Plan[p][i])
        BY <4>2 DEF PassedAreOnTheirWay
      <4>4. stage[Plan[p][i]] # "planned"
        BY <4>3 DEF PassedOn, Passed, Handed, Encoding
      <4> QED
        BY <4>1, <4>4 DEF ManualBeforeAutoFill, Through
    <3> QED
      BY <3>1, <3>2
  <2> QED
    BY <2>3, ThroughStays DEF Moves
<1> QED
  BY <1>2, <1>3


(***************************************************************************)
(* The queue, the writer and the reports.                                  *)
(***************************************************************************)

\* Nothing comes to the channel or the writer, and nothing leaves them.
ChannelStands ==
  /\ UNCHANGED writerVars
  /\ \A g \in Files : /\ stage'[g] = "queued" <=> stage[g] = "queued"
                      /\ stage'[g] = "writing" <=> stage[g] = "writing"

\* What is reported stays reported, and a file that is closed is reported, unless the
\* operation is cancelled.
Reports ==
  \A g \in Files :
    /\ outcome[g] # "none" => outcome'[g] # "none"
    /\ stage[g] # "closed" /\ stage'[g] = "closed" /\ ~cancelled' => outcome'[g] # "none"

LEMMA ShutReports ==
  ASSUME NEW f \in Files, Shuts(f), \A g \in Files \ {f} : outcome'[g] = outcome[g],
         outcome'[f] # "none" \/ (outcome'[f] = outcome[f] /\ cancelled')
  PROVE  Reports
BY DEF Reports, Shuts

LEMMA BlameReports ==
  ASSUME StagingTypeOK, NEW f \in Files, Blame(f)
  PROVE  outcome'[f] # "none" /\ \A g \in Files \ {f} : outcome'[g] = outcome[g]
<1>1. CASE f \in AutoFill
  BY <1>1 DEF Blame, StagingTypeOK
<1>2. CASE f \notin AutoFill
  BY <1>2 DEF Blame, StagingTypeOK
<1> QED
  BY <1>1, <1>2

LEMMA EarlyShut ==
  ASSUME StagingTypeOK, NEW f \in Files, Shuts(f), stage[f] \notin {"queued", "writing"}, UNCHANGED writerVars
  PROVE  ChannelStands
BY DEF ChannelStands, Shuts

LEMMA WorksReport ==
  ASSUME StagingTypeOK, NEW f \in Files, Works(f)
  PROVE  ChannelStands /\ Reports
<1>1. stage[f] \notin {"queued", "writing"} /\ stage'[f] \notin {"queued", "writing", "closed"}
  BY RankNames DEF Works
<1> QED
  BY <1>1 DEF Works, ChannelStands, Reports

LEMMA ProducerReports ==
  ASSUME StagingTypeOK, AheadIsPlanned, NEW p \in Producers, ProducerStep(p)
  PROVE  ChannelStands /\ Reports
<1>1. CASE ArriveAtBarrier(p) \/ ArriveLate(p) \/ EndItems(p) \/ EndProducer(p)
  BY <1>1 DEF ArriveAtBarrier, ArriveLate, EndItems, EndProducer, fileVars, ChannelStands, Reports
<1>2. ASSUME NEW f \in Files, StartItem(p, f)
      PROVE  ChannelStands /\ Reports
  BY <1>2 DEF StartItem, StagingTypeOK, ChannelStands, Reports
<1>3. ASSUME NEW f \in Files, SkipItem(p, f)
      PROVE  ChannelStands /\ Reports
  <2>1. Shuts(f) /\ stage[f] = "planned" /\ UNCHANGED writerVars
    BY <1>3 DEF SkipItem, Shuts, StagingTypeOK
  <2>2. outcome'[f] # "none" /\ \A g \in Files \ {f} : outcome'[g] = outcome[g]
    BY <1>3, BlameReports DEF SkipItem, StagingTypeOK
  <2> QED
    BY <2>1, <2>2, ShutReports, EarlyShut
<1>4. ASSUME NEW f \in Files, TakeCount(p, f) \/ Acquire(p, f)
      PROVE  ChannelStands /\ Reports
  <2>1. Works(f)
    BY <1>4, DownloadsWork DEF DownloadStep, Send, DiscardUnsent, TakeCount, Acquire
  <2> QED
    BY <2>1, WorksReport
<1>5. ASSUME NEW f \in Files, RefuseOversized(p, f)
      PROVE  ChannelStands /\ Reports
  <2>1. Shuts(f) /\ stage[f] = "acquiring" /\ UNCHANGED writerVars /\ cancelled' = cancelled
    BY <1>5 DEF RefuseOversized, Shuts, StagingTypeOK
  <2>2. /\ outcome'[f] # "none" \/ (outcome'[f] = outcome[f] /\ cancelled')
        /\ \A g \in Files \ {f} : outcome'[g] = outcome[g]
    BY <1>5 DEF RefuseOversized, StagingTypeOK
  <2> QED
    BY <2>1, <2>2, ShutReports, EarlyShut
<1>6. ASSUME NEW f \in Files, FailItem(p, f)
      PROVE  ChannelStands /\ Reports
  <2>1. Shuts(f) /\ stage[f] = "failed" /\ UNCHANGED writerVars
    BY <1>6, CloseShuts DEF FailItem
  <2>2. outcome'[f] # "none" /\ \A g \in Files \ {f} : outcome'[g] = outcome[g]
    BY <1>6, BlameReports DEF FailItem
  <2> QED
    BY <2>1, <2>2, ShutReports, EarlyShut
<1>7. ASSUME NEW f \in Files, SpawnEncoding(p, f)
      PROVE  ChannelStands /\ Reports
  <2>1. stage[f] = "encoding" /\ UNCHANGED writerVars /\ cancelled' = cancelled /\ outcome' = outcome
    BY <1>7 DEF SpawnEncoding
  <2>2. CASE cancelled
    <3>1. Shuts(f)
      BY <1>7, <2>2, CloseShuts DEF SpawnEncoding
    <3> QED
      BY <2>1, <2>2, <3>1, ShutReports, EarlyShut
  <2>3. CASE ~cancelled
    <3>1. stage' = stage
      BY <1>7, <2>3 DEF SpawnEncoding, fileVars
    <3> QED
      BY <2>1, <3>1 DEF ChannelStands, Reports
  <2> QED
    BY <2>2, <2>3
<1>8. CASE StopProducer(p)
  <2>1. PICK f \in Files : f = Plan[p][next[p]]
    BY <1>8, PlanHasFiles DEF StopProducer, HasItem
  <2>2. /\ cancelled /\ cancelled' = cancelled /\ outcome' = outcome /\ UNCHANGED writerVars
        /\ stage[f] \in {"planned", "counting", "acquiring", "streaming", "failed"}
    BY <1>8, <2>1 DEF StopProducer
  <2>3. \A g \in Files \ {f} : stage'[g] = stage[g]
    <3>1. CASE stage[f] \in {"streaming", "failed"}
      BY <1>8, <2>1, <3>1, CloseShuts DEF StopProducer, Shuts
    <3>2. CASE stage[f] \notin {"streaming", "failed"}
      BY <1>8, <2>1, <3>2 DEF StopProducer, StagingTypeOK
    <3> QED
      BY <3>1, <3>2
  <2>4. stage'[f] \in {"planned", "closed"}
    <3>1. CASE stage[f] \in {"streaming", "failed"}
      BY <1>8, <2>1, <3>1, CloseShuts DEF StopProducer, Shuts
    <3>2. CASE stage[f] \notin {"streaming", "failed"}
      BY <1>8, <2>1, <3>2 DEF StopProducer, StagingTypeOK
    <3> QED
      BY <3>1, <3>2
  <2>5. ChannelStands
    BY <2>2, <2>3, <2>4 DEF ChannelStands
  <2>6. Reports
    BY <2>2 DEF Reports
  <2> QED
    BY <2>5, <2>6
<1> QED
  BY <1>1, <1>2, <1>3, <1>4, <1>5, <1>6, <1>7, <1>8 DEF ProducerStep

LEMMA FileReports ==
  ASSUME StagingTypeOK, AheadIsPlanned, NEW f \in Files, DownloadStep(f) \/ EncoderStep(f), ~Send(f)
  PROVE  ChannelStands /\ Reports
<1>1. CASE DiscardUnsent(f)
  <2>1. /\ Shuts(f) /\ stage[f] = "sending" /\ UNCHANGED writerVars
        /\ cancelled' /\ outcome' = outcome
    BY <1>1, CloseShuts DEF DiscardUnsent
  <2> QED
    BY <2>1, ShutReports, EarlyShut
<1>2. CASE EncodingFails(f)
  <2>1. Shuts(f) /\ stage[f] \in {"encoding", "encoded"} /\ UNCHANGED writerVars
    BY <1>2, CloseShuts DEF EncodingFails
  <2>2. /\ outcome'[f] # "none" \/ (outcome'[f] = outcome[f] /\ cancelled')
        /\ \A g \in Files \ {f} : outcome'[g] = outcome[g]
    BY <1>2, BlameReports DEF EncodingFails
  <2> QED
    BY <2>1, <2>2, ShutReports, EarlyShut
<1>3. CASE ~(DiscardUnsent(f) \/ EncodingFails(f))
  BY <1>3, DownloadsWork, WorksReport DEF EncoderStep
<1> QED
  BY <1>1, <1>2, <1>3

LEMMA WriterReports ==
  ASSUME StagingTypeOK, WriterHasFiles, QueueHasQueued, WriterStep
  PROVE  Reports
<1>1. CASE Receive
  <2>1. PICK f \in Files : f = Head(queue)
    <3>1. queue # <<>> /\ queue \in Seq(Files)
      BY <1>1 DEF Receive, StagingTypeOK
    <3> QED
      BY <3>1
  <2>2. outcome' = outcome /\ cancelled' = cancelled
    BY <1>1 DEF Receive
  <2>3. CASE cancelled \/ writerFailed
    <3>1. Shuts(f) /\ cancelled
      BY <1>1, <2>1, <2>3, CloseShuts DEF Receive, WriterHasFiles
    <3> QED
      BY <2>2, <3>1, ShutReports
  <2>4. CASE ~(cancelled \/ writerFailed)
    <3>1. stage'[f] = "writing" /\ \A g \in Files \ {f} : stage'[g] = stage[g]
      BY <1>1, <2>1, <2>4 DEF Receive, StagingTypeOK
    <3> QED
      BY <2>2, <3>1 DEF Reports
  <2> QED
    BY <2>3, <2>4
<1>2. ASSUME NEW f \in Files, WriteSucceeds(f) \/ WriteFails(f) \/ WriteCancelled(f)
      PROVE  Reports
  <2>1. Shuts(f)
    BY <1>2, CloseShuts DEF WriteSucceeds, WriteFails, WriteCancelled
  <2>2. /\ outcome'[f] # "none" \/ (outcome'[f] = outcome[f] /\ cancelled')
        /\ \A g \in Files \ {f} : outcome'[g] = outcome[g]
    BY <1>2 DEF WriteSucceeds, WriteFails, WriteCancelled, StagingTypeOK
  <2> QED
    BY <2>1, <2>2, ShutReports
<1>3. CASE StopWriter \/ CloseStaging
  BY <1>3 DEF StopWriter, CloseStaging, fileVars, Reports
<1> QED
  BY <1>1, <1>2, <1>3 DEF WriterStep

LEMMA StagingReports ==
  ASSUME StagingTypeOK, AheadIsPlanned, WriterHasFiles, QueueHasQueued, [StagingNext]_stagingVars
  PROVE  Reports
<1>1. ASSUME NEW f \in Files, Send(f)
      PROVE  Reports
  BY <1>1 DEF Send, StagingTypeOK, Reports
<1>2. CASE CancelSync \/ UNCHANGED stagingVars
  BY <1>2 DEF CancelSync, stagingVars, fileVars, Reports
<1> QED
  BY <1>1, <1>2, ProducerReports, FileReports, WriterReports DEF StagingNext

LEMMA ReportedKept ==
  ASSUME ClosedAreReported, Reports, Moves
  PROVE  ClosedAreReported'
BY DEF ClosedAreReported, Reports, Moves

\* In the channel is what Send put there, until Receive takes it out.
LEMMA QueueStands ==
  ASSUME QueueHasQueued, queue' = queue, \A g \in Files : stage'[g] = "queued" <=> stage[g] = "queued",
         StagingTypeOK
  PROVE  QueueHasQueued'
<1>1. \A i \in DOMAIN queue : queue[i] \in Files
  BY DEF StagingTypeOK
<1> QED
  BY <1>1 DEF QueueHasQueued

LEMMA SendKeepsQueue ==
  ASSUME StagingTypeOK, QueueHasQueued, NEW f \in Files, Send(f)
  PROVE  QueueHasQueued'
<1>1. /\ stage[f] = "sending" /\ stage'[f] = "queued" /\ queue' = Append(queue, f)
      /\ \A g \in Files \ {f} : stage'[g] = stage[g]
  BY DEF Send, StagingTypeOK
<1>2. /\ queue \in Seq(Files) /\ Len(queue) \in Nat /\ DOMAIN queue = 1..Len(queue)
      /\ \A i \in 1..Len(queue) : queue[i] \in Files
  BY DEF StagingTypeOK
<1>3. /\ DOMAIN queue' = 1..(Len(queue) + 1)
      /\ \A i \in 1..Len(queue) : queue'[i] = queue[i]
      /\ queue'[Len(queue) + 1] = f
  BY <1>1, <1>2, AppendProperties
<1>4. \A i \in 1..(Len(queue) + 1) : i \in 1..Len(queue) \/ i = Len(queue) + 1
  BY <1>2
<1>5. \A i \in 1..Len(queue) : i \in 1..(Len(queue) + 1) /\ i # Len(queue) + 1
  BY <1>2
<1>6. \A i \in 1..Len(queue) : stage[queue[i]] = "queued" /\ queue[i] # f
  BY <1>1, <1>2 DEF QueueHasQueued
<1>7. Len(queue) + 1 \in 1..(Len(queue) + 1)
  BY <1>2
<1>8. \A i \in DOMAIN queue' : stage'[queue'[i]] = "queued"
  BY <1>1, <1>2, <1>3, <1>4, <1>6
<1>9. \A i, j \in DOMAIN queue' : queue'[i] = queue'[j] => i = j
  BY <1>2, <1>3, <1>4, <1>6 DEF QueueHasQueued
<1>10. \A g \in Files : stage'[g] = "queued" => \E i \in DOMAIN queue' : queue'[i] = g
  <2> SUFFICES ASSUME NEW g \in Files, stage'[g] = "queued"
               PROVE  \E i \in DOMAIN queue' : queue'[i] = g
    OBVIOUS
  <2>1. CASE g = f
    BY <1>3, <1>7, <2>1
  <2>2. CASE g # f
    <3>1. PICK i \in 1..Len(queue) : queue[i] = g
      BY <1>1, <1>2, <2>2 DEF QueueHasQueued
    <3> QED
      BY <1>3, <1>5, <3>1
  <2> QED
    BY <2>1, <2>2
<1> QED
  BY <1>8, <1>9, <1>10 DEF QueueHasQueued

\* What Receive does to the file it takes.
LEMMA ReceiveTakes ==
  ASSUME StagingTypeOK, QueueHasQueued, Receive
  PROVE  \E f \in Files : /\ f = Head(queue) /\ stage[f] = "queued"
                          /\ \A g \in Files \ {f} : stage'[g] = stage[g]
                          /\ IF cancelled \/ writerFailed THEN stage'[f] = "closed" /\ writer' = writer
                             ELSE stage'[f] = "writing" /\ writer' = "writing"
<1>1. PICK f \in Files : f = Head(queue) /\ stage[f] = "queued"
  <2>1. queue # <<>> /\ queue \in Seq(Files)
    BY DEF Receive, StagingTypeOK
  <2>2. 1 \in DOMAIN queue /\ Head(queue) = queue[1] /\ Head(queue) \in Files
    BY <2>1
  <2> QED
    BY <2>2 DEF QueueHasQueued
<1>2. CASE cancelled \/ writerFailed
  BY <1>1, <1>2, CloseShuts DEF Receive, Shuts
<1>3. CASE ~(cancelled \/ writerFailed)
  BY <1>1, <1>3 DEF Receive, StagingTypeOK
<1> QED
  BY <1>1, <1>2, <1>3

LEMMA ReceiveKeepsQueue ==
  ASSUME StagingTypeOK, QueueHasQueued, Receive
  PROVE  QueueHasQueued'
<1>1. PICK f \in Files : /\ f = Head(queue) /\ stage'[f] # "queued"
                         /\ \A g \in Files \ {f} : stage'[g] = stage[g]
  BY ReceiveTakes
<1>2. /\ queue \in Seq(Files) /\ queue # <<>> /\ queue' = Tail(queue)
      /\ Len(queue) \in Nat /\ Len(queue) >= 1
  BY DEF Receive, StagingTypeOK
<1>3. /\ DOMAIN queue = 1..Len(queue) /\ \A i \in 1..Len(queue) : queue[i] \in Files
      /\ f = queue[1]
  BY <1>1, <1>2
<1>4. /\ DOMAIN queue' = 1..(Len(queue) - 1)
      /\ \A i \in 1..(Len(queue) - 1) : queue'[i] = queue[i + 1]
  BY <1>2, HeadTailProperties
<1>5. \A i \in 1..(Len(queue) - 1) : i + 1 \in 1..Len(queue) /\ i + 1 # 1
  BY <1>2
<1>6. 1 \in 1..Len(queue)
  BY <1>2
<1>7. \A i \in 1..(Len(queue) - 1) : queue[i + 1] # f
  BY <1>3, <1>5, <1>6 DEF QueueHasQueued
<1>8. \A i \in DOMAIN queue' : stage'[queue'[i]] = "queued"
  BY <1>1, <1>3, <1>4, <1>5, <1>7 DEF QueueHasQueued
<1>9. \A i, j \in DOMAIN queue' : queue'[i] = queue'[j] => i = j
  <2> SUFFICES ASSUME NEW i \in 1..(Len(queue) - 1), NEW j \in 1..(Len(queue) - 1), queue[i + 1] = queue[j + 1]
               PROVE  i = j
    BY <1>4
  <2>1. i + 1 = j + 1
    BY <1>3, <1>5 DEF QueueHasQueued
  <2> QED
    BY <2>1
<1>10. \A g \in Files : stage'[g] = "queued" => \E i \in DOMAIN queue' : queue'[i] = g
  <2> SUFFICES ASSUME NEW g \in Files, stage'[g] = "queued"
               PROVE  \E i \in DOMAIN queue' : queue'[i] = g
    OBVIOUS
  <2>1. g # f /\ stage[g] = "queued"
    BY <1>1
  <2>2. PICK k \in 1..Len(queue) : queue[k] = g
    BY <1>3, <2>1 DEF QueueHasQueued
  <2>3. k # 1
    BY <1>3, <2>1, <2>2
  <2>4. k - 1 \in 1..(Len(queue) - 1) /\ (k - 1) + 1 = k
    BY <1>2, <2>3
  <2> QED
    BY <1>4, <2>2, <2>4
<1> QED
  BY <1>8, <1>9, <1>10 DEF QueueHasQueued

LEMMA QueueKept ==
  ASSUME StagingTypeOK, AheadIsPlanned, QueueHasQueued, [StagingNext]_stagingVars
  PROVE  QueueHasQueued'
<1>1. ASSUME ChannelStands
      PROVE  QueueHasQueued'
  BY <1>1, QueueStands DEF ChannelStands, writerVars
<1>2. ASSUME NEW f \in Files, WriteSucceeds(f) \/ WriteFails(f) \/ WriteCancelled(f)
      PROVE  QueueHasQueued'
  <2>1. Shuts(f) /\ stage[f] = "writing" /\ queue' = queue
    BY <1>2, CloseShuts DEF WriteSucceeds, WriteFails, WriteCancelled
  <2>2. \A g \in Files : stage'[g] = "queued" <=> stage[g] = "queued"
    BY <2>1 DEF Shuts
  <2> QED
    BY <2>1, <2>2, QueueStands
<1>3. CASE StopWriter \/ CloseStaging
  BY <1>3, QueueStands DEF StopWriter, CloseStaging, fileVars
<1>4. CASE CancelSync \/ UNCHANGED stagingVars
  BY <1>4, QueueStands DEF CancelSync, stagingVars, fileVars, writerVars
<1> QED
  BY <1>1, <1>2, <1>3, <1>4, ProducerReports, FileReports, SendKeepsQueue, ReceiveKeepsQueue
     DEF StagingNext, WriterStep

\* A producer that has ended has not come back.
LEMMA SendersOnlyLeave ==
  ASSUME Moves, SendersLeft'
  PROVE  SendersLeft
<1>1. PICK p \in Producers : at'[p] # "ended"
  BY DEF SendersLeft
<1>2. at[p] # "ended"
  <2>1. Stands(p) \/ GoesOn(p) \/ BreaksOff(p) \/ Ends(p)
    BY DEF Moves, LoopsMove
  <2>2. CASE Stands(p)
    BY <1>1, <2>2 DEF Stands
  <2>3. CASE GoesOn(p) \/ BreaksOff(p) \/ Ends(p)
    BY <2>3 DEF GoesOn, HasItem, BreaksOff, Ends
  <2> QED
    BY <2>1, <2>2, <2>3
<1> QED
  BY <1>2 DEF SendersLeft

LEMMA WriterKept ==
  ASSUME StagingTypeOK, AheadIsPlanned, PassedAreOnTheirWay, EndedHaveNoEncodings, QueueHasQueued,
         WriterHasFiles, Moves, [StagingNext]_stagingVars
  PROVE  WriterHasFiles'
<1>1. ASSUME ChannelStands
      PROVE  WriterHasFiles'
  BY <1>1, SendersOnlyLeave DEF ChannelStands, writerVars, WriterHasFiles, Moves
<1>2. ASSUME NEW f \in Files, Send(f)
      PROVE  WriterHasFiles'
  <2>1. /\ stage[f] = "sending" /\ stage'[f] = "queued" /\ UNCHANGED <<at, writer, writerFailed, cancelled>>
        /\ \A g \in Files \ {f} : stage'[g] = stage[g]
    BY <1>2 DEF Send, StagingTypeOK
  <2>2. SendersLeft
    <3>1. PICK p \in Producers : \E i \in DOMAIN Plan[p] : Plan[p][i] = f
      BY StagingAssumption DEF Range
    <3>2. PICK i \in DOMAIN Plan[p] : Plan[p][i] = f
      BY <3>1
    <3>3. CASE at[p] # "items"
      <4>1. PassedOn(f)
        BY <2>1, <3>2, <3>3, DoneProducers
      <4>2. f \in Local \cap Range(Plan[p])
        BY <2>1, <3>2, <4>1 DEF PassedOn, Passed, Handed, Range
      <4>3. EncodingsOf(p) # {}
        BY <2>1, <4>2 DEF EncodingsOf
      <4> QED
        BY <4>3 DEF EndedHaveNoEncodings, SendersLeft
    <3>4. CASE at[p] = "items"
      BY <3>4 DEF SendersLeft
    <3> QED
      BY <3>3, <3>4
  <2> QED
    BY <2>1, <2>2 DEF WriterHasFiles, SendersLeft
<1>3. CASE Receive
  <2>1. PICK f \in Files : /\ f = Head(queue) /\ stage[f] = "queued"
                           /\ \A g \in Files \ {f} : stage'[g] = stage[g]
                           /\ IF cancelled \/ writerFailed THEN stage'[f] = "closed" /\ writer' = writer
                              ELSE stage'[f] = "writing" /\ writer' = "writing"
    BY <1>3, ReceiveTakes
  <2>2. writer = "receiving" /\ writerFailed' = writerFailed /\ cancelled' = cancelled
    BY <1>3 DEF Receive
  <2>3. \A g \in Files : stage[g] # "writing"
    BY <2>2 DEF WriterHasFiles
  <2> QED
    BY <2>1, <2>2, <2>3 DEF WriterHasFiles
<1>4. ASSUME NEW f \in Files, WriteSucceeds(f) \/ WriteFails(f) \/ WriteCancelled(f)
      PROVE  WriterHasFiles'
  <2>1. Shuts(f) /\ stage[f] = "writing"
    BY <1>4, CloseShuts DEF WriteSucceeds, WriteFails, WriteCancelled
  <2>2. \A g \in Files : stage'[g] # "writing"
    BY <2>1 DEF Shuts, WriterHasFiles
  <2>3. writer' = "receiving" /\ (writerFailed' => cancelled')
    BY <1>4 DEF WriteSucceeds, WriteFails, WriteCancelled, WriterHasFiles
  <2> QED
    BY <2>2, <2>3 DEF WriterHasFiles
<1>5. CASE StopWriter
  <2>1. /\ writer = "receiving" /\ writer' = "joining" /\ (cancelled \/ (queue = <<>> /\ ~SendersLeft))
        /\ queue' = queue /\ writerFailed' = writerFailed /\ cancelled' = cancelled /\ stage' = stage /\ at' = at
    BY <1>5 DEF StopWriter, fileVars, producerVars
  <2> QED
    BY <2>1 DEF WriterHasFiles, SendersLeft
<1>6. CASE CloseStaging
  <2>1. /\ writer = "joining" /\ writer' = "closed" /\ ~SendersLeft
        /\ queue' = queue /\ writerFailed' = writerFailed /\ cancelled' = cancelled /\ stage' = stage /\ at' = at
    BY <1>6 DEF CloseStaging, fileVars, producerVars
  <2> QED
    BY <2>1 DEF WriterHasFiles, SendersLeft
<1>7. CASE CancelSync \/ UNCHANGED stagingVars
  <2>1. /\ UNCHANGED <<stage, at, queue, writer, writerFailed>> /\ (cancelled => cancelled')
    BY <1>7 DEF CancelSync, stagingVars, fileVars, producerVars, writerVars
  <2> QED
    BY <2>1 DEF WriterHasFiles, SendersLeft
<1> QED
  BY <1>1, <1>2, <1>3, <1>4, <1>5, <1>6, <1>7, ProducerReports, FileReports DEF StagingNext, WriterStep


(***************************************************************************)
(* The invariant, and the properties that follow from it.                  *)
(***************************************************************************)

LEMMA StagingStarts ==
  ASSUME StagingInit
  PROVE  StagingInv
<1>1. \A f \in Files : stage[f] = "planned" /\ bytes[f] = 0 /\ disk[f] = 0 /\ size[f] = 0
  BY DEF StagingInit, Zero
<1>2. StagingTypeOK
  <2>1. FileTypes
    BY FileStageNames DEF StagingInit, Zero, FileTypes
  <2>2. RestTypes
    <3>1. at \in [Producers -> {"items", "joining", "ended"}] /\ next \in [Producers -> Nat \ {0}]
      BY DEF StagingInit
    <3>2. arrived \subseteq Producers /\ waiting \subseteq Files /\ queue \in Seq(Files)
      BY DEF StagingInit
    <3>3. writer = "receiving" /\ writerFailed = FALSE /\ cancelled = FALSE
      BY DEF StagingInit
    <3>4. outcome \in [Files -> {"none", "warned", "error", "written"}]
      BY DEF StagingInit
    <3> QED
      BY <3>1, <3>2, <3>3, <3>4 DEF RestTypes
  <2> QED
    BY <2>1, <2>2, TypesTogether
<1>3. PermitsOf(Partial \cup Complete) = {} /\ PermitsOf(Complete) = {} /\ PermitsOf(Partial) = {}
  BY <1>1, StageKinds DEF PermitsOf
<1>4. BudgetMatchesPermits
  <2>1. \A S : S = {} => Total(bytes, S) = 0 /\ Cardinality(S) = 0
    BY FS_EmptySet DEF Total, BytesOf
  <2>2. waiting = {} /\ budget = [used |-> 0, complete |-> 0, partial |-> 0, waiters |-> 0]
    BY DEF StagingInit
  <2> QED
    BY <1>3, <2>1, <2>2 DEF BudgetMatchesPermits
<1>5. FilesFitPermits /\ AnsweredAreRegistered
  BY <1>1, StageKinds DEF FilesFitPermits, FitsPermit, AnsweredAreRegistered
<1>6. budget.used <= MaxBytes
  BY StagingAssumption DEF StagingInit
<1>7. QueueHasQueued /\ WriterHasFiles
  BY <1>1 DEF StagingInit, QueueHasQueued, WriterHasFiles
<1>8. PlacesInPlan
  BY PlanHasFiles DEF StagingInit, PlacesInPlan
<1>9. AheadIsPlanned
  BY <1>1, PlanHasFiles DEF StagingInit, AheadIsPlanned
<1>10. PassedAreOnTheirWay
  <2> SUFFICES ASSUME NEW p \in Producers, NEW i \in DOMAIN Plan[p], i < next[p] PROVE FALSE
    BY DEF PassedAreOnTheirWay
  <2> QED
    BY PlanHasFiles DEF StagingInit
<1>11. ArrivedAreThrough /\ EndedHaveNoEncodings
  BY DEF StagingInit, ArrivedAreThrough, EndedHaveNoEncodings
<1>12. ManualBeforeAutoFill /\ ClosedAreReported
  BY <1>1, StagingAssumption DEF ManualBeforeAutoFill, ClosedAreReported
<1> QED
  BY <1>2, <1>4, <1>5, <1>6, <1>7, <1>8, <1>9, <1>10, <1>11, <1>12
     DEF StagingInv, BudgetInv, BudgetKept

LEMMA StagingKept ==
  ASSUME StagingInv, [StagingNext]_stagingVars
  PROVE  StagingInv'
<1>1. /\ StagingTypeOK /\ BudgetKept /\ QueueHasQueued /\ PlacesInPlan /\ AheadIsPlanned
      /\ PassedAreOnTheirWay /\ ArrivedAreThrough /\ ManualBeforeAutoFill /\ EndedHaveNoEncodings
      /\ WriterHasFiles /\ ClosedAreReported
  BY DEF StagingInv, BudgetInv
<1>2. StagingTypeOK'
  BY <1>1, StagingTypesKept
<1>3. BudgetKept' /\ QueueHasQueued'
  BY <1>1, <1>2, StagingKeepsBudget, QueueKept
<1>4. Moves /\ Reports
  BY <1>1, StagingMoves, StagingReports
<1>5. PlacesInPlan' /\ AheadIsPlanned' /\ PassedAreOnTheirWay' /\ EndedHaveNoEncodings'
  BY <1>1, <1>2, <1>4, PlacesKept, AheadKept, PassedKept, EndedKept
<1>6. ArrivedAreThrough' /\ ManualBeforeAutoFill'
  BY <1>1, <1>2, <1>4, ArrivedKept, ManualKept
<1>7. WriterHasFiles' /\ ClosedAreReported'
  BY <1>1, <1>4, WriterKept, ReportedKept
<1> QED
  BY <1>2, <1>3, <1>5, <1>6, <1>7 DEF StagingInv, BudgetInv

\* The files in the staging directories are covered by the permits, whichever server, encoder
\* or error path they are at.
LEMMA DiskIsCovered ==
  ASSUME StagingInv
  PROVE  DiskWithinBudget
<1>1. StagingTypeOK /\ FilesFitPermits /\ BudgetMatchesPermits /\ budget.used <= MaxBytes
  BY DEF StagingInv, BudgetInv, BudgetKept
<1>2. ASSUME NEW f \in Files
      PROVE  /\ disk[f] \in Nat /\ bytes[f] \in Nat /\ disk[f] <= bytes[f]
             /\ f \notin PermitsOf(Partial \cup Complete) => disk[f] = 0
  <2>1. /\ disk[f] \in Nat /\ bytes[f] \in Nat /\ size[f] \in Nat /\ Headroom[f] \in Nat
        /\ stage[f] \in FileStages
    BY <1>1, StagingAssumption DEF StagingTypeOK
  <2>2. FitsPermit(f)
    BY <1>1 DEF FilesFitPermits
  <2>3. stage[f] \notin Held => disk[f] = 0
    BY <2>2 DEF FitsPermit
  <2>4. disk[f] <= bytes[f]
    <3>1. CASE stage[f] \notin Held
      BY <2>1, <2>3, <3>1
    <3>2. CASE stage[f] \in Held
      BY <2>1, <2>2, <3>2 DEF FitsPermit, Held, Partial, Complete
    <3> QED
      BY <3>1, <3>2
  <2> QED
    BY <2>1, <2>3, <2>4 DEF PermitsOf, Held
<1>3. PermitsOf(Partial \cup Complete) \subseteq Files /\ IsFiniteSet(Files)
  BY StagingAssumption DEF PermitsOf
<1>4. IsFiniteSet(PermitsOf(Partial \cup Complete))
  BY <1>3, FS_Subset
<1>5. Total(disk, Files) <= Total(bytes, PermitsOf(Partial \cup Complete))
  BY <1>2, <1>3, <1>4, TotalGrows
<1>6. Total(disk, Files) \in Nat /\ MaxBytes \in Nat
  BY <1>2, <1>3, BytesAreFinite, StagingAssumption
<1>7. budget.used = Total(bytes, PermitsOf(Partial \cup Complete)) /\ budget.used \in Int
  BY <1>1 DEF BudgetMatchesPermits, StagingTypeOK
<1> QED
  BY <1>1, <1>5, <1>6, <1>7 DEF DiskWithinBudget

LEMMA AllAreReported ==
  ASSUME StagingInv
  PROVE  NothingSilentlyLost
<1> SUFFICES ASSUME writer = "closed", ~cancelled, NEW f \in Files
             PROVE  outcome[f] # "none"
  BY DEF NothingSilentlyLost
<1>1. /\ StagingTypeOK /\ QueueHasQueued /\ PlacesInPlan /\ PassedAreOnTheirWay
      /\ EndedHaveNoEncodings /\ WriterHasFiles /\ ClosedAreReported
  BY DEF StagingInv, BudgetInv
<1>2. queue = <<>> /\ \A p \in Producers : at[p] = "ended"
  BY <1>1 DEF WriterHasFiles, SendersLeft
<1>3. PICK p \in Producers : \E i \in DOMAIN Plan[p] : Plan[p][i] = f
  BY StagingAssumption DEF Range
<1>4. PICK i \in DOMAIN Plan[p] : Plan[p][i] = f
  BY <1>3
<1>5. i < next[p]
  BY <1>1, <1>2, PlaceTypes DEF PlacesInPlan
<1>6. Passed(f, stage[f])
  BY <1>1, <1>4, <1>5 DEF PassedAreOnTheirWay, PassedOn
<1>7. ~(f \in Local /\ stage[f] \in Encoding)
  BY <1>1, <1>2, <1>4 DEF EndedHaveNoEncodings, EncodingsOf, Encoding, Range
<1>8. stage[f] # "queued"
  BY <1>1, <1>2 DEF QueueHasQueued
<1>9. stage[f] # "writing"
  BY <1>1 DEF WriterHasFiles
<1>10. stage[f] = "closed"
  BY <1>6, <1>7, <1>8, <1>9 DEF Passed, Handed
<1> QED
  BY <1>1, <1>10 DEF ClosedAreReported

THEOREM StagingInvariant == StagingSpec => []StagingInv
<1>1. StagingInit => StagingInv
  BY StagingStarts
<1>2. StagingInv /\ [StagingNext]_stagingVars => StagingInv'
  BY StagingKept
<1> QED
  BY <1>1, <1>2, PTL DEF StagingSpec

THEOREM DiskStaysWithinBudget == StagingSpec => []DiskWithinBudget
<1>1. StagingInv => DiskWithinBudget
  BY DiskIsCovered
<1> QED
  BY <1>1, StagingInvariant, PTL

THEOREM ChosenFilesComeFirst == StagingSpec => []ManualBeforeAutoFill
<1>1. StagingInv => ManualBeforeAutoFill
  BY DEF StagingInv
<1> QED
  BY <1>1, StagingInvariant, PTL

THEOREM EveryFileIsAccountedFor == StagingSpec => []NothingSilentlyLost
<1>1. StagingInv => NothingSilentlyLost
  BY AllAreReported
<1> QED
  BY <1>1, StagingInvariant, PTL
=============================================================================
