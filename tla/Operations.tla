----------------------------- MODULE Operations -----------------------------
(***************************************************************************)
(* The operation ledger of SyncOperationManager (sync.rs): one record and  *)
(* one cancel token per sync operation, the finalization gate, and the     *)
(* tasks that meet there:                                                  *)
(*   the run that owns the pipeline guard (sync_execute in rpc.rs, auto-   *)
(*   sync in main.rs), sync_cancel, the device-removal handler (main.rs),  *)
(*   the repair RPC manifest_clear_dirty, and commit_shutdown.             *)
(* The pipeline guard itself is the subject of Admission: here one run at  *)
(* a time exists.                                                          *)
(***************************************************************************)
EXTENDS Naturals

CONSTANTS
  Ops,              \* operation ids, each used once
  Devices,          \* device ids
  MaxConnections,   \* bound on the connections of one device
  NoOp              \* no operation

ASSUME OperationsAssumption ==
  /\ NoOp \notin Ops
  /\ MaxConnections \in Nat \ {0}

VARIABLES
  status,       \* SyncOperation.status; "absent" before create_operation
  target,       \* SyncOperation.device_id
  errors,       \* SyncOperation.errors is not empty
  token,        \* cancel_tokens
  early,        \* history: tokens set before the run decided the outcome
  gate,         \* who holds finalization_gate: "free", "run" or "quit"
  connected,    \* connected_devices
  connection,   \* the observation token of the latest connection
  dirty,        \* manifest.dirty of each device
  marker,       \* history: the operation that last marked the device dirty
  repaired,     \* history: a repair cleared the flag since
  run,          \* the run that owns the pipeline: its stage and locals
  snapshot,     \* the run holds a clone of its Running record for an update
  removal,      \* the device-removal handler
  quit          \* where the shutdown path is

ledgerVars   == <<status, target, errors>>
deviceVars   == <<connected, connection>>
manifestVars == <<dirty, marker, repaired>>
vars == <<ledgerVars, token, early, gate, deviceVars, manifestVars, run, snapshot,
          removal, quit>>

\* The stages of a run. Up to "marked" (and in "rejecting") a sync_execute is
\* still the future of its HTTP request; from "transferring" on it is a task.
Attached == {"prepared", "admitted", "marked", "rejecting"}
Detached == {"transferring", "failing", "finalizing", "committing", "publishing"}
Stages   == {"idle", "ending"} \cup Attached \cup Detached

NoRun == [stage |-> "idle", kind |-> "execute", op |-> NoOp, device |-> NoOp,
          connection |-> 0, errors |-> FALSE, cancelled |-> FALSE]
NoRemoval == [stage |-> "idle", device |-> NoOp, victims |-> {}, victim |-> NoOp]

Runs == [stage : Stages, kind : {"execute", "auto"}, op : Ops \cup {NoOp},
         device : Devices \cup {NoOp}, connection : 0..MaxConnections,
         errors : BOOLEAN, cancelled : BOOLEAN]
Removals == [stage : {"idle", "listing", "failing", "updating"},
             device : Devices \cup {NoOp}, victims : SUBSET Ops, victim : Ops \cup {NoOp}]

\* Who holds the gate: the finalizer and commit_shutdown, each from its decision
\* to the last store of it.
GateHasOwner ==
  /\ gate = "run"  <=> run.stage \in {"committing", "publishing"}
  /\ gate = "quit" <=> quit = "sweeping"

OperationsTypeOK ==
  /\ status \in [Ops -> {"absent", "running", "complete", "failed", "cancelled"}]
  /\ target \in [Ops -> Devices \cup {NoOp}]
  /\ errors \in [Ops -> BOOLEAN]
  /\ token \in [Ops -> BOOLEAN]
  /\ early \in SUBSET Ops
  /\ gate \in {"free", "run", "quit"}
  /\ connected \in [Devices -> BOOLEAN]
  /\ connection \in [Devices -> 0..MaxConnections]
  /\ dirty \in [Devices -> BOOLEAN]
  /\ marker \in [Devices -> Ops \cup {NoOp}]
  /\ repaired \in [Devices -> BOOLEAN]
  /\ run \in Runs
  /\ snapshot \in BOOLEAN
  /\ removal \in Removals
  /\ quit \in {"open", "fencing", "sweeping", "draining"}
  /\ GateHasOwner

OperationsInit ==
  /\ status = [o \in Ops |-> "absent"]
  /\ target = [o \in Ops |-> NoOp]
  /\ errors = [o \in Ops |-> FALSE]
  /\ token = [o \in Ops |-> FALSE]
  /\ early = {}
  /\ gate = "free"
  /\ connected = [d \in Devices |-> FALSE]
  /\ connection = [d \in Devices |-> 0]
  /\ dirty = [d \in Devices |-> FALSE]
  /\ marker = [d \in Devices |-> NoOp]
  /\ repaired = [d \in Devices |-> FALSE]
  /\ run = NoRun
  /\ snapshot = FALSE
  /\ removal = NoRemoval
  /\ quit = "open"

AdmissionOpen == quit = "open"
Committed     == quit \in {"sweeping", "draining"}
RunningOps    == {o \in Ops : status[o] = "running"}

\* The outcome of the run is being decided: its finalizer holds the gate.
Deciding(o) == gate = "run" /\ run.op = o

\* {o} while the outcome of o is still open.
Undecided(o) == {p \in {o} : status[p] = "running" /\ ~Deciding(p)}

\* The physical connection the run was admitted with is still the current one.
ConnectionValid ==
  /\ connected[run.device]
  /\ connection[run.device] = run.connection

Goto(stage) == run' = [run EXCEPT !.stage = stage]

----------------------------------------------------------------------------
(* The run, until its operation is detached from the request.              *)

\* try_start_pipeline succeeded and the target device was resolved.
StartRun ==
  /\ run.stage = "idle"
  /\ AdmissionOpen
  /\ \E kind \in {"execute", "auto"}, d \in Devices :
       /\ connected[d]
       /\ run' = [NoRun EXCEPT !.stage = "prepared", !.kind = kind, !.device = d,
                               !.connection = connection[d]]
  /\ UNCHANGED <<ledgerVars, token, early, gate, deviceVars, manifestVars, snapshot,
                 removal, quit>>

\* Slip: the device is looked up before the lock is taken, or not at all.
AdmitAnyDevice ==
  /\ run.stage = "prepared"
  /\ run.kind = "execute" => RunningOps = {}
  /\ \E o \in Ops :
       /\ status[o] = "absent"
       /\ status' = [status EXCEPT ![o] = "running"]
       /\ target' = [target EXCEPT ![o] = run.device]
       /\ token' = [token EXCEPT ![o] = Committed]
       /\ run' = [run EXCEPT !.stage = "admitted", !.op = o]
  /\ UNCHANGED <<errors, early, gate, deviceVars, manifestVars, snapshot, removal, quit>>

\* Slip: a token is always born FALSE.
AdmitUncancelled ==
  /\ run.stage = "prepared"
  /\ run.kind = "execute" => RunningOps = {}
  /\ connected[run.device]
  /\ \E o \in Ops :
       /\ status[o] = "absent"
       /\ status' = [status EXCEPT ![o] = "running"]
       /\ target' = [target EXCEPT ![o] = run.device]
       /\ run' = [run EXCEPT !.stage = "admitted", !.op = o]
  /\ UNCHANGED <<errors, token, early, gate, deviceVars, manifestVars, snapshot, removal,
                 quit>>

\* admit_sync_operation: under the device-state lock that a removal needs, a
\* connected device gets a Running record and a token born with the committed
\* flag. sync_execute alone refuses while another record is Running.
AdmitOperation ==
  /\ run.stage = "prepared"
  /\ run.kind = "execute" => RunningOps = {}
  /\ connected[run.device]
  /\ \E o \in Ops :
       /\ status[o] = "absent"
       /\ status' = [status EXCEPT ![o] = "running"]
       /\ target' = [target EXCEPT ![o] = run.device]
       /\ token' = [token EXCEPT ![o] = Committed]
       /\ early' = IF Committed THEN early \cup {o} ELSE early
       /\ run' = [run EXCEPT !.stage = "admitted", !.op = o]
  /\ UNCHANGED <<errors, gate, deviceVars, manifestVars, snapshot, removal, quit>>

\* Every early return before an operation exists drops the pipeline guard.
LeaveUnadmitted ==
  /\ run.stage = "prepared"
  /\ run' = NoRun
  /\ UNCHANGED <<ledgerVars, token, early, gate, deviceVars, manifestVars, snapshot,
                 removal, quit>>

\* The dirty mark goes to the connection the run was admitted with.
MarkDirty ==
  /\ run.stage = "admitted"
  /\ ConnectionValid
  /\ dirty' = [dirty EXCEPT ![run.device] = TRUE]
  /\ marker' = [marker EXCEPT ![run.device] = run.op]
  /\ repaired' = [repaired EXCEPT ![run.device] = FALSE]
  /\ Goto("marked")
  /\ UNCHANGED <<ledgerVars, token, early, gate, deviceVars, snapshot, removal, quit>>

\* The dirty mark or the resolution of a provider fails: fail_sync_operation.
FailAdmitted ==
  /\ run.stage \in {"admitted", "marked"}
  /\ Goto("rejecting")
  /\ UNCHANGED <<ledgerVars, token, early, gate, deviceVars, manifestVars, snapshot,
                 removal, quit>>

\* The transfer task is spawned (auto-sync is a task from the start).
Detach ==
  /\ run.stage = "marked"
  /\ Goto("transferring")
  /\ UNCHANGED <<ledgerVars, token, early, gate, deviceVars, manifestVars, snapshot,
                 removal, quit>>

\* The client closes the connection: ForwardedRequest::drop aborts the request
\* future at its await, and the pipeline guard it owned goes with it.
AbortRequest ==
  /\ run.kind = "execute"
  /\ run.stage \in Attached
  /\ run' = NoRun
  /\ UNCHANGED <<ledgerVars, token, early, gate, deviceVars, manifestVars, snapshot,
                 removal, quit>>

----------------------------------------------------------------------------
(* The transfer.                                                           *)

\* A checkpoint stages a manifest change of the running transfer; it marks the
\* manifest dirty again.
StageItem ==
  /\ run.stage = "transferring"
  /\ ConnectionValid
  /\ dirty' = [dirty EXCEPT ![run.device] = TRUE]
  /\ UNCHANGED <<ledgerVars, token, early, gate, deviceVars, marker, repaired, run,
                 snapshot, removal, quit>>

\* get_operation: a clone, taken while the record is Running ...
SnapshotOperation ==
  /\ run.stage = "transferring"
  /\ ~snapshot
  /\ status[run.op] = "running"
  /\ snapshot' = TRUE
  /\ UNCHANGED <<ledgerVars, token, early, gate, deviceVars, manifestVars, run, removal,
                 quit>>

\* ... and written back by update_operation through the gate, unless the
\* record has left Running in between.
UpdateOperation ==
  /\ snapshot
  /\ gate = "free"
  /\ snapshot' = FALSE
  /\ UNCHANGED <<ledgerVars, token, early, gate, deviceVars, manifestVars, run, removal,
                 quit>>

\* execute_plan_sync returns its list of errors (FALSE: none) ...
FinishTransfer ==
  /\ run.stage = "transferring"
  /\ ~snapshot
  /\ \E failed \in BOOLEAN :
       run' = [run EXCEPT !.stage = "finalizing", !.errors = failed]
  /\ UNCHANGED <<ledgerVars, token, early, gate, deviceVars, manifestVars, snapshot,
                 removal, quit>>

\* ... or an error of its own.
AbortTransfer ==
  /\ run.stage = "transferring"
  /\ ~snapshot
  /\ Goto("failing")
  /\ UNCHANGED <<ledgerVars, token, early, gate, deviceVars, manifestVars, snapshot,
                 removal, quit>>

\* A failed record is written through update_operation, which ignores it when
\* the record has left Running.
WriteFailure ==
  /\ run.stage \in {"rejecting", "failing"}
  /\ gate = "free"
  /\ status' = [status EXCEPT ![run.op] = IF @ = "running" THEN "failed" ELSE @]
  /\ errors' = [errors EXCEPT ![run.op] = @ \/ status[run.op] = "running"]
  /\ Goto("ending")
  /\ UNCHANGED <<target, token, early, gate, deviceVars, manifestVars, snapshot, removal,
                 quit>>

----------------------------------------------------------------------------
(* finalize_operation: one decision under the gate.                        *)

\* A record that has left Running keeps its outcome; a failed one takes the
\* errors of the transfer too. The gate is released at once.
KeepOutcome ==
  /\ run.stage = "finalizing"
  /\ gate = "free"
  /\ status[run.op] # "running"
  /\ errors' = [errors EXCEPT ![run.op] = @ \/ (status[run.op] = "failed" /\ run.errors)]
  /\ Goto("ending")
  /\ UNCHANGED <<status, target, token, early, gate, deviceVars, manifestVars, snapshot,
                 removal, quit>>

\* A Running record: the token and the errors are read under the gate, and only
\* a run with neither commits the clean manifest.
DecideOutcome ==
  /\ run.stage = "finalizing"
  /\ gate = "free"
  /\ status[run.op] = "running"
  /\ gate' = "run"
  /\ LET failed    == run.errors \/ errors[run.op]
         cancelled == token[run.op]
     IN  run' = [run EXCEPT !.stage = IF failed \/ cancelled THEN "publishing"
                                                             ELSE "committing",
                            !.errors = failed,
                            !.cancelled = cancelled]
  /\ UNCHANGED <<ledgerVars, token, early, deviceVars, manifestVars, snapshot, removal,
                 quit>>

\* Slip: the result of the commit is dropped.
CommitIgnored ==
  /\ run.stage = "committing"
  /\ \/ /\ ConnectionValid
        /\ dirty' = [dirty EXCEPT ![run.device] = FALSE]
     \/ UNCHANGED dirty
  /\ Goto("publishing")
  /\ UNCHANGED <<ledgerVars, token, early, gate, deviceVars, marker, repaired, snapshot,
                 removal, quit>>

\* The final manifest write clears the dirty flag of the connection the run was
\* admitted with; it fails on any other connection, and may fail anyway. It
\* holds the manifest commit lock, which a removal needs.
CommitManifest ==
  /\ run.stage = "committing"
  /\ \/ /\ ConnectionValid
        /\ dirty' = [dirty EXCEPT ![run.device] = FALSE]
        /\ Goto("publishing")
     \/ /\ run' = [run EXCEPT !.stage = "publishing", !.errors = TRUE]
        /\ UNCHANGED dirty
  /\ UNCHANGED <<ledgerVars, token, early, gate, deviceVars, marker, repaired, snapshot,
                 removal, quit>>

Outcome == IF run.errors THEN "failed" ELSE IF run.cancelled THEN "cancelled" ELSE "complete"

\* Slip: the gate is not released.
PublishHolding ==
  /\ run.stage = "publishing"
  /\ status' = [status EXCEPT ![run.op] = Outcome]
  /\ errors' = [errors EXCEPT ![run.op] = run.errors]
  /\ Goto("ending")
  /\ UNCHANGED <<target, token, early, gate, deviceVars, manifestVars, snapshot, removal,
                 quit>>

PublishOutcome ==
  /\ run.stage = "publishing"
  /\ status' = [status EXCEPT ![run.op] = Outcome]
  /\ errors' = [errors EXCEPT ![run.op] = run.errors]
  /\ gate' = "free"
  /\ Goto("ending")
  /\ UNCHANGED <<target, token, early, deviceVars, manifestVars, snapshot, removal, quit>>

\* The pipeline guard is dropped.
EndRun ==
  /\ run.stage = "ending"
  /\ run' = NoRun
  /\ UNCHANGED <<ledgerVars, token, early, gate, deviceVars, manifestVars, snapshot,
                 removal, quit>>

----------------------------------------------------------------------------
(* The other actors.                                                       *)

\* sync_cancel of one operation.
RequestCancel(o) ==
  /\ status[o] # "absent"
  /\ token' = [token EXCEPT ![o] = TRUE]
  /\ early' = early \cup Undecided(o)
  /\ UNCHANGED <<ledgerVars, gate, deviceVars, manifestVars, run, snapshot, removal, quit>>

\* The event task handles one device event at a time.
DeviceDetected(d) ==
  /\ removal.stage = "idle"
  /\ ~connected[d]
  /\ connection[d] < MaxConnections
  /\ connected' = [connected EXCEPT ![d] = TRUE]
  /\ connection' = [connection EXCEPT ![d] = @ + 1]
  /\ UNCHANGED <<ledgerVars, token, early, gate, manifestVars, run, snapshot, removal, quit>>

\* DeviceEvent::Removed: first the device leaves connected_devices, which
\* closes the admission of operations against it ...
DeviceRemoved(d) ==
  /\ removal.stage = "idle"
  /\ connected[d]
  /\ run.stage = "committing" => run.device # d
  /\ connected' = [connected EXCEPT ![d] = FALSE]
  /\ removal' = [NoRemoval EXCEPT !.stage = "listing", !.device = d]
  /\ UNCHANGED <<ledgerVars, token, early, gate, connection, manifestVars, run, snapshot,
                 quit>>

\* ... then the Running records against it are listed ...
ListRunning ==
  /\ removal.stage = "listing"
  /\ removal' = [removal EXCEPT !.stage = "failing",
                                !.victims = {o \in RunningOps : target[o] = removal.device}]
  /\ UNCHANGED <<ledgerVars, token, early, gate, deviceVars, manifestVars, run, snapshot,
                 quit>>

\* ... and each is cancelled ...
CancelVictim(o) ==
  /\ removal.stage = "failing"
  /\ o \in removal.victims
  /\ token' = [token EXCEPT ![o] = TRUE]
  /\ early' = early \cup Undecided(o)
  /\ removal' = [removal EXCEPT !.stage = "updating", !.victim = o,
                                !.victims = @ \ {o}]
  /\ UNCHANGED <<ledgerVars, gate, deviceVars, manifestVars, run, snapshot, quit>>

\* ... and replaced by a failed clone through update_operation.
FailVictim ==
  /\ removal.stage = "updating"
  /\ gate = "free"
  /\ status' = [status EXCEPT ![removal.victim] = IF @ = "running" THEN "failed" ELSE @]
  /\ errors' = [errors EXCEPT ![removal.victim] =
                              @ \/ status[removal.victim] = "running"]
  /\ removal' = [removal EXCEPT !.stage = "failing", !.victim = NoOp]
  /\ UNCHANGED <<target, token, early, gate, deviceVars, manifestVars, run, snapshot, quit>>

EndRemoval ==
  /\ removal.stage = "failing"
  /\ removal.victims = {}
  /\ removal' = NoRemoval
  /\ UNCHANGED <<ledgerVars, token, early, gate, deviceVars, manifestVars, run, snapshot,
                 quit>>

\* manifest_clear_dirty: an ordinary mutation; no file of the manifest may be
\* missing, and no operation is looked at. While the final manifest is being
\* written it waits for the commit lock.
ClearDirty(d) ==
  /\ AdmissionOpen
  /\ connected[d]
  /\ dirty[d]
  /\ run.stage = "committing" => run.device # d
  /\ dirty' = [dirty EXCEPT ![d] = FALSE]
  /\ repaired' = [repaired EXCEPT ![d] = TRUE]
  /\ UNCHANGED <<ledgerVars, token, early, gate, deviceVars, marker, run, snapshot,
                 removal, quit>>

BeginFence ==
  /\ quit = "open"
  /\ quit' = "fencing"
  /\ UNCHANGED <<ledgerVars, token, early, gate, deviceVars, manifestVars, run, snapshot,
                 removal>>

FailFence ==
  /\ quit = "fencing"
  /\ quit' = "open"
  /\ UNCHANGED <<ledgerVars, token, early, gate, deviceVars, manifestVars, run, snapshot,
                 removal>>

\* commit_shutdown takes the gate and stores the committed flag ...
CommitQuit ==
  /\ quit = "fencing"
  /\ gate = "free"
  /\ gate' = "quit"
  /\ quit' = "sweeping"
  /\ UNCHANGED <<ledgerVars, token, early, deviceVars, manifestVars, run, snapshot, removal>>

\* ... then sets every token there is, and releases the gate.
SweepTokens ==
  /\ quit = "sweeping"
  /\ token' = [o \in Ops |-> token[o] \/ status[o] # "absent"]
  /\ early' = early \cup RunningOps
  /\ gate' = "free"
  /\ quit' = "draining"
  /\ UNCHANGED <<ledgerVars, deviceVars, manifestVars, run, snapshot, removal>>

----------------------------------------------------------------------------
RunBeforeDetach == StartRun \/ AdmitOperation \/ LeaveUnadmitted \/ MarkDirty
                     \/ FailAdmitted \/ Detach \/ AbortRequest
RunTransfer     == StageItem \/ SnapshotOperation \/ UpdateOperation \/ FinishTransfer
                     \/ AbortTransfer
RunOutcome      == WriteFailure \/ KeepOutcome \/ DecideOutcome \/ CommitManifest
                     \/ PublishOutcome \/ EndRun
RemovalNext     == \/ \E d \in Devices : DeviceDetected(d) \/ DeviceRemoved(d)
                   \/ ListRunning
                   \/ \E o \in Ops : CancelVictim(o)
                   \/ FailVictim
                   \/ EndRemoval
RequestNext     == \/ \E o \in Ops : RequestCancel(o)
                   \/ \E d \in Devices : ClearDirty(d)
QuitNext        == BeginFence \/ FailFence \/ CommitQuit \/ SweepTokens

OperationsNext == \/ RunBeforeDetach \/ RunTransfer \/ RunOutcome
                  \/ RemovalNext \/ RequestNext \/ QuitNext

OperationsSpec == OperationsInit /\ [][OperationsNext]_vars

\* A detached task is polled until it ends and its transfer is a finite plan of
\* bounded steps, so it ends although progress updates come in between; whoever
\* holds the gate releases it. Nothing is promised of clients, devices or Quit.
TransferEnds == FinishTransfer \/ AbortTransfer
OperationsFairness ==
  /\ SF_vars(TransferEnds)
  /\ WF_vars(UpdateOperation)
  /\ WF_vars(RunOutcome)
  /\ WF_vars(SweepTokens)

FairOperationsSpec == OperationsSpec /\ OperationsFairness

----------------------------------------------------------------------------
(* Safety.                                                                 *)

\* Once an operation has an outcome nothing rewrites it: not a progress update
\* from an older clone, not the removal handler, not the finalizer
\* (update_operation and finalize_operation check under the gate).
TerminalIsFinal ==
  [][\A o \in Ops : status[o] \notin {"absent", "running"} => status'[o] = status[o]]_vars

\* The dirty flag agrees with the outcome of the operation that set it: it is
\* cleared before Complete is published, and stays set for every other outcome
\* unless a repair cleared it. Between the clean write and the publication the
\* finalizer holds the gate.
EvidenceMatchesOutcome ==
  \A d \in Devices :
    marker[d] # NoOp /\ ~Deciding(marker[d]) =>
      IF status[marker[d]] = "complete" THEN ~dirty[d] ELSE dirty[d] \/ repaired[d]

\* A cancellation that was accepted before the run decided its outcome is never
\* answered by Complete, whoever sent it: sync_cancel, the removal of the
\* device, or Quit.
CancellationOwnsOutcome == \A o \in early : status[o] # "complete"

\* When the removal handler is through, no Running record targets the removed
\* device, also when the removal raced with the admission of an operation.
RemovedDeviceHasNoRunning ==
  removal.stage = "idle" =>
    \A o \in RunningOps : connected[target[o]]

\* Once Quit has swept the tokens no running operation can be without one:
\* neither those that were running nor one created by a run admitted before.
CommittedQuitReachesEveryOperation ==
  quit = "draining" => \A o \in RunningOps : token[o]

\* A doc says that no Running record is left without its worker (15-2, the
\* edge cases of operation registration). AbortRequest leaves one, and TLC finds
\* this violated (README, section 6).
RunningHasOwner == \A o \in RunningOps : run.op = o

(* Liveness.                                                               *)

\* A detached run always gets an outcome: no lock order of the gate and no lost
\* write leaves its record Running.
DetachedOperationEnds ==
  \A o \in Ops : (run.stage \in Detached /\ run.op = o) ~> (status[o] # "running")
=============================================================================
