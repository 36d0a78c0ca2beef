----------------------------- MODULE Admission -----------------------------
(***************************************************************************)
(* The atomics of SyncOperationManager (hifimule-daemon/src/sync.rs) that  *)
(* decide who may work and when the daemon may stop:                       *)
(*   try_start_pipeline / PipelineGuard, request_pipeline_cancel,          *)
(*   try_admit_mutation / MutationGuard, begin_shutdown_fence,             *)
(*   fail_shutdown_fence, commit_shutdown, wait_for_shutdown_drain,        *)
(* and the pending plan that a preparing pipeline publishes (rpc.rs).      *)
(*                                                                         *)
(* Every load and store of a shared atomic is a step of its own; what is   *)
(* done under one mutex is one step. The orders are Acquire and Release: a *)
(* store or an exchange acts on the latest value, a load may miss stores   *)
(* for a while unless a lock shows them to it.                             *)
(***************************************************************************)
EXTENDS Naturals, FiniteSets

CONSTANTS
  Pipelines,    \* tasks that call try_start_pipeline, again and again
  Mutators,     \* tasks that call try_admit_mutation, again and again
  NoPlan,       \* pending_plan = None
  NoRun         \* no run is the target of the cancel request in flight

ASSUME AdmissionAssumption ==
  /\ IsFiniteSet(Mutators)
  /\ Pipelines \cap Mutators = {}
  /\ NoPlan \notin Pipelines
  /\ NoRun \notin Pipelines

VARIABLES
  admissionClosed,      \* admission_closed
  pipelineActive,       \* pipeline_active
  pipelineCancelled,    \* pipeline_cancelled
  activeMutations,      \* active_mutations
  shutdownCommitted,    \* shutdown_committed
  pendingPlan,          \* the pipeline whose plan is in pending_plan
  pc,                   \* where each pipeline task is
  sawCommitted,         \* what a pipeline task loaded from shutdown_committed
  mpc,                  \* where each mutation task is
  cancelPc,             \* where request_pipeline_cancel is
  cancelTarget,         \* history: the run that was at work when it loaded the flag
  cancelled,            \* history: the runs whose cancel was acknowledged
  quit,                 \* where the shutdown path is
  ordered,              \* the build keeps a load behind an earlier exchange or lock
  stale,                \* of each atomic, the overwritten values that a load may return
  overtaken             \* a run has reset the cancel whose request is about to take the plan

pipelineVars == <<pipelineActive, pc, sawCommitted>>
mutationVars == <<activeMutations, mpc>>
cancelVars   == <<cancelPc, cancelTarget, cancelled>>
fenceVars    == <<admissionClosed, shutdownCommitted, quit>>
memoryVars   == <<ordered, stale, overtaken>>
vars == <<fenceVars, pipelineVars, mutationVars, cancelVars, memoryVars,
          pipelineCancelled, pendingPlan>>

\* Where a pipeline task can be. It owns PipelineGuard from "recheck" on.
Admitting == {"recheck", "load", "store"}
Running   == {"preparing", "executing", "ending"}
Owning    == Admitting \cup Running

\* Where the shutdown path can be, and the part of it after the commit.
Committing == {"cancelling", "releasing", "draining", "drainMutations", "drained"}

StaleValues == [closed : SUBSET BOOLEAN, active : SUBSET BOOLEAN, mutations : SUBSET Nat,
                cancelled : SUBSET BOOLEAN]

AdmissionTypeOK ==
  /\ admissionClosed \in BOOLEAN
  /\ pipelineActive \in BOOLEAN
  /\ pipelineCancelled \in BOOLEAN
  /\ activeMutations \in Nat
  /\ shutdownCommitted \in BOOLEAN
  /\ pendingPlan \in Pipelines \cup {NoPlan}
  /\ pc \in [Pipelines -> {"idle", "claim"} \cup Owning]
  /\ sawCommitted \in [Pipelines -> BOOLEAN]
  /\ mpc \in [Mutators -> {"idle", "count", "recheck", "surrender", "mutating"}]
  /\ cancelPc \in {"idle", "store", "take"}
  /\ cancelTarget \in Pipelines \cup {NoRun}
  /\ cancelled \subseteq Pipelines
  /\ quit \in {"open", "fencing"} \cup Committing
  /\ ordered \in BOOLEAN /\ overtaken \in BOOLEAN
  /\ stale \in StaleValues

AdmissionInit ==
  /\ admissionClosed = FALSE
  /\ pipelineActive = FALSE
  /\ pipelineCancelled = FALSE
  /\ activeMutations = 0
  /\ shutdownCommitted = FALSE
  /\ pendingPlan = NoPlan
  /\ pc = [p \in Pipelines |-> "idle"]
  /\ sawCommitted = [p \in Pipelines |-> FALSE]
  /\ mpc = [m \in Mutators |-> "idle"]
  /\ cancelPc = "idle"
  /\ cancelTarget = NoRun
  /\ cancelled = {}
  /\ quit = "open"
  /\ ordered \in BOOLEAN /\ overtaken = FALSE
  /\ stale = [closed |-> {}, active |-> {}, mutations |-> {}, cancelled |-> {}]

----------------------------------------------------------------------------
(* The memory. It may do more here than it can: a task may see the new     *)
(* value of an atomic and then the old one again. shutdown_committed is    *)
(* stored once, a load returns that or the FALSE before.                   *)

Loads(x, latest) == {latest} \cup stale[x]

\* A load that follows an exchange, an addition or a lock of the same task. On
\* x86-64 these are full barriers; Acquire and Release alone order nothing here.
LoadsBehind(x, latest) == IF ordered THEN {latest} ELSE Loads(x, latest)

Overwrite(x, old, new) ==
  /\ stale' = [stale EXCEPT ![x] = (@ \cup {old}) \ {new}]
  /\ UNCHANGED <<ordered, overtaken>>

\* What is stored is seen everywhere in the end. Only of the gate and the count
\* anything depends on it.
Settle(x) ==
  /\ stale[x] # {}
  /\ stale' = [stale EXCEPT ![x] = {}]
  /\ UNCHANGED <<fenceVars, pipelineVars, mutationVars, cancelVars, pipelineCancelled,
                 pendingPlan, ordered, overtaken>>

----------------------------------------------------------------------------
(* try_start_pipeline, one atomic access per action.                       *)

PipelineGoto(p, from, to) ==
  /\ pc[p] = from
  /\ pc' = [pc EXCEPT ![p] = to]

\* First load of admission_closed: a closed gate returns None.
LoadAdmission(p) ==
  /\ \E closed \in Loads("closed", admissionClosed) :
       PipelineGoto(p, "idle", IF closed THEN "idle" ELSE "claim")
  /\ UNCHANGED <<fenceVars, mutationVars, cancelVars, memoryVars, pipelineCancelled,
                 pendingPlan, pipelineActive, sawCommitted>>

\* compare_exchange(false, true): None when another pipeline holds the flag, or
\* did. A successful exchange starts a new run of p, which no cancel has met yet.
ClaimPipeline(p) ==
  /\ \/ /\ TRUE \in Loads("active", pipelineActive)
        /\ PipelineGoto(p, "claim", "idle")
        /\ UNCHANGED <<pipelineActive, cancelled, memoryVars>>
     \/ /\ ~pipelineActive
        /\ PipelineGoto(p, "claim", "recheck")
        /\ pipelineActive' = TRUE
        /\ cancelled' = cancelled \ {p}
        /\ Overwrite("active", FALSE, TRUE)
  /\ UNCHANGED <<fenceVars, mutationVars, pipelineCancelled, pendingPlan,
                 sawCommitted, cancelPc, cancelTarget>>

\* Slip: no second look at the gate once the flag is claimed.
RecheckNothing(p) ==
  /\ PipelineGoto(p, "recheck", "load")
  /\ UNCHANGED <<fenceVars, mutationVars, cancelVars, memoryVars, pipelineCancelled,
                 pendingPlan, pipelineActive, sawCommitted>>

\* Second load: surrender the pipeline when Quit closed the gate in between.
RecheckAdmission(p) ==
  /\ \E closed \in LoadsBehind("closed", admissionClosed) :
       IF closed
       THEN /\ PipelineGoto(p, "recheck", "idle")
            /\ pipelineActive' = FALSE
            /\ Overwrite("active", pipelineActive, FALSE)
       ELSE /\ PipelineGoto(p, "recheck", "load")
            /\ UNCHANGED <<pipelineActive, memoryVars>>
  /\ UNCHANGED <<fenceVars, mutationVars, cancelVars, pipelineCancelled, pendingPlan,
                 sawCommitted>>

\* The argument of pipeline_cancelled.store is loaded first ...
LoadCommitted(p) ==
  /\ PipelineGoto(p, "load", "store")
  /\ \E committed \in {FALSE, shutdownCommitted} :
       sawCommitted' = [sawCommitted EXCEPT ![p] = committed]
  /\ UNCHANGED <<fenceVars, mutationVars, cancelVars, memoryVars, pipelineCancelled,
                 pendingPlan, pipelineActive>>

\* ... and stored by a second access, whatever happened in between. The guard
\* is returned to a preparing (sync_calculate_delta, sync_prepare, auto-sync
\* before admission) or an executing (sync_execute) caller. Of the flag only this
\* run reads, and it cannot see what it has overwritten.
StoreCancelled(p) ==
  /\ \E stage \in {"preparing", "executing"} : PipelineGoto(p, "store", stage)
  /\ pipelineCancelled' = sawCommitted[p]
  /\ sawCommitted' = [sawCommitted EXCEPT ![p] = FALSE]
  /\ stale' = [stale EXCEPT !.cancelled = {}]
  /\ overtaken' = (overtaken \/ cancelPc = "take")
  /\ UNCHANGED <<fenceVars, mutationVars, cancelVars, pendingPlan,
                 pipelineActive, ordered>>

----------------------------------------------------------------------------
(* What a pipeline does with the pending plan, and the end of its guard.   *)

\* What the holder of the pending_plan lock may read of shutdown_committed: the
\* commit, once commit_shutdown has had the lock.
CommittedUnderLock == IF quit \in {"cancelling", "releasing"} THEN BOOLEAN
                                                            ELSE {shutdownCommitted}

\* The end of the preparation, under the pending_plan lock: a cancelled or
\* committed shutdown rejects the publication.
PublishPlan(p) ==
  /\ PipelineGoto(p, "preparing", "ending")
  /\ \E stopped \in Loads("cancelled", pipelineCancelled), committed \in CommittedUnderLock :
       pendingPlan' = IF stopped \/ committed THEN pendingPlan ELSE p
  /\ UNCHANGED <<fenceVars, mutationVars, cancelVars, memoryVars, pipelineCancelled,
                 pipelineActive, sawCommitted>>

\* A preparation that fails, or that polls the flag and stops.
AbandonPreparation(p) ==
  /\ PipelineGoto(p, "preparing", "ending")
  /\ UNCHANGED <<fenceVars, mutationVars, cancelVars, memoryVars, pipelineCancelled,
                 pendingPlan, pipelineActive, sawCommitted>>

\* sync_execute takes the plan its planId names, or works from an explicit
\* delta (or fails) and leaves it.
ExecutePlan(p) ==
  /\ PipelineGoto(p, "executing", "ending")
  /\ pendingPlan' \in {pendingPlan, NoPlan}
  /\ UNCHANGED <<fenceVars, mutationVars, cancelVars, memoryVars, pipelineCancelled,
                 pipelineActive, sawCommitted>>

\* Slip: the guard is dropped only by the error paths.
KeepPipelineGuard(p) ==
  /\ PipelineGoto(p, "ending", "idle")
  /\ cancelTarget' = IF cancelTarget = p THEN NoRun ELSE cancelTarget
  /\ UNCHANGED <<fenceVars, mutationVars, memoryVars, pipelineCancelled, pendingPlan,
                 pipelineActive, sawCommitted, cancelPc, cancelled>>

\* PipelineGuard::drop.
DropPipelineGuard(p) ==
  /\ PipelineGoto(p, "ending", "idle")
  /\ pipelineActive' = FALSE
  /\ Overwrite("active", pipelineActive, FALSE)
  /\ cancelTarget' = IF cancelTarget = p THEN NoRun ELSE cancelTarget
  /\ UNCHANGED <<fenceVars, mutationVars, pipelineCancelled, pendingPlan,
                 sawCommitted, cancelPc, cancelled>>

PipelineStep(p) ==
  \/ LoadAdmission(p) \/ ClaimPipeline(p) \/ RecheckAdmission(p)
  \/ LoadCommitted(p) \/ StoreCancelled(p)
  \/ PublishPlan(p) \/ AbandonPreparation(p) \/ ExecutePlan(p)
  \/ DropPipelineGuard(p)

\* sync_plan.discard, or the expiry task of the plan.
DiscardPlan ==
  /\ pendingPlan # NoPlan
  /\ pendingPlan' = NoPlan
  /\ UNCHANGED <<fenceVars, pipelineVars, mutationVars, cancelVars, memoryVars,
                 pipelineCancelled>>

----------------------------------------------------------------------------
(* request_pipeline_cancel (sync_cancel without an operation id).          *)

\* It loads pipeline_active; FALSE answers "no active sync pipeline". It may be the
\* flag of a run that has ended.
LoadActive ==
  /\ cancelPc = "idle"
  /\ TRUE \in Loads("active", pipelineActive)
  /\ cancelPc' = "store"
  /\ \/ cancelTarget' \in {p \in Pipelines : pc[p] \in Running}
     \/ (\A p \in Pipelines : pc[p] \notin Running) /\ UNCHANGED cancelTarget
  /\ UNCHANGED <<fenceVars, pipelineVars, mutationVars, memoryVars, pipelineCancelled,
                 pendingPlan, cancelled>>

StoreCancel ==
  /\ cancelPc = "store"
  /\ cancelPc' = "take"
  /\ pipelineCancelled' = TRUE
  /\ Overwrite("cancelled", pipelineCancelled, TRUE)
  /\ UNCHANGED <<fenceVars, pipelineVars, mutationVars, pendingPlan,
                 cancelTarget, cancelled>>

Acknowledge ==
  /\ cancelled' = cancelled \cup ({cancelTarget} \ {NoRun})
  /\ cancelTarget' = NoRun

\* Slip: the flag is stored but a plan already published stays.
AcknowledgeOnly ==
  /\ cancelPc = "take"
  /\ cancelPc' = "idle"
  /\ Acknowledge
  /\ overtaken' = FALSE
  /\ UNCHANGED <<fenceVars, pipelineVars, mutationVars, pipelineCancelled,
                 pendingPlan, ordered, stale>>

\* Releases whatever plan is pending and returns true to the caller. Who has the
\* lock of the plan after it sees its store, or what has overwritten that.
TakePlan ==
  /\ cancelPc = "take"
  /\ cancelPc' = "idle"
  /\ pendingPlan' = NoPlan
  /\ Acknowledge
  /\ stale' = [stale EXCEPT !.cancelled = IF overtaken THEN @ ELSE {}]
  /\ overtaken' = FALSE
  /\ UNCHANGED <<fenceVars, pipelineVars, mutationVars, pipelineCancelled, ordered>>

RequestPipelineCancel == LoadActive \/ StoreCancel \/ TakePlan

----------------------------------------------------------------------------
(* try_admit_mutation.                                                     *)

MutationGoto(m, from, to) ==
  /\ mpc[m] = from
  /\ mpc' = [mpc EXCEPT ![m] = to]

NoPipelineChange ==
  UNCHANGED <<fenceVars, pipelineVars, cancelVars, pipelineCancelled, pendingPlan>>

LoadMutationAdmission(m) ==
  /\ \E closed \in Loads("closed", admissionClosed) :
       MutationGoto(m, "idle", IF closed THEN "idle" ELSE "count")
  /\ UNCHANGED <<activeMutations, memoryVars>>
  /\ NoPipelineChange

\* fetch_add
CountMutation(m) ==
  /\ MutationGoto(m, "count", "recheck")
  /\ activeMutations' = activeMutations + 1
  /\ Overwrite("mutations", activeMutations, activeMutations + 1)
  /\ NoPipelineChange

\* Second load of admission_closed.
RecheckMutation(m) ==
  /\ \E closed \in LoadsBehind("closed", admissionClosed) :
       MutationGoto(m, "recheck", IF closed THEN "surrender" ELSE "mutating")
  /\ UNCHANGED <<activeMutations, memoryVars>>
  /\ NoPipelineChange

\* fetch_sub: of the refused admission, and of MutationGuard::drop.
UncountMutation(m) ==
  /\ \/ MutationGoto(m, "surrender", "idle")
     \/ MutationGoto(m, "mutating", "idle")
  /\ activeMutations' = activeMutations - 1
  /\ Overwrite("mutations", activeMutations, activeMutations - 1)
  /\ NoPipelineChange

MutationStep(m) ==
  \/ LoadMutationAdmission(m) \/ CountMutation(m)
  \/ RecheckMutation(m) \/ UncountMutation(m)

----------------------------------------------------------------------------
(* The shutdown path: begin_shutdown_fence, fail_shutdown_fence,           *)
(* commit_shutdown and wait_for_shutdown_drain.                            *)

NoWorkerChange == UNCHANGED <<pipelineVars, mutationVars, cancelVars>>

BeginShutdownFence ==
  /\ quit = "open"
  /\ quit' = "fencing"
  /\ admissionClosed' = TRUE
  /\ Overwrite("closed", FALSE, TRUE)
  /\ UNCHANGED <<shutdownCommitted, pipelineCancelled, pendingPlan>>
  /\ NoWorkerChange

\* The launch-generation write failed.
FailShutdownFence ==
  /\ quit = "fencing"
  /\ quit' = "open"
  /\ admissionClosed' = FALSE
  /\ Overwrite("closed", TRUE, FALSE)
  /\ UNCHANGED <<shutdownCommitted, pipelineCancelled, pendingPlan>>
  /\ NoWorkerChange

\* commit_shutdown, first store.
CommitShutdown ==
  /\ quit = "fencing"
  /\ quit' = "cancelling"
  /\ shutdownCommitted' = TRUE
  /\ UNCHANGED <<admissionClosed, pipelineCancelled, pendingPlan, memoryVars>>
  /\ NoWorkerChange

\* Second store.
CancelPipelines ==
  /\ quit = "cancelling"
  /\ quit' = "releasing"
  /\ pipelineCancelled' = TRUE
  /\ Overwrite("cancelled", pipelineCancelled, TRUE)
  /\ UNCHANGED <<admissionClosed, shutdownCommitted, pendingPlan>>
  /\ NoWorkerChange

\* pending_plan.take()
ReleasePlan ==
  /\ quit = "releasing"
  /\ quit' = "draining"
  /\ pendingPlan' = NoPlan
  /\ UNCHANGED <<admissionClosed, shutdownCommitted, pipelineCancelled, memoryVars>>
  /\ NoWorkerChange

\* One round of the 10 ms poll loads pipeline_active, then active_mutations.
DrainLoadPipeline ==
  /\ quit = "draining"
  /\ FALSE \in LoadsBehind("active", pipelineActive)
  /\ quit' = "drainMutations"
  /\ UNCHANGED <<admissionClosed, shutdownCommitted, pipelineCancelled, pendingPlan,
                 memoryVars>>
  /\ NoWorkerChange

DrainLoadMutations ==
  /\ quit = "drainMutations"
  /\ \E count \in LoadsBehind("mutations", activeMutations) :
       quit' = IF count = 0 THEN "drained" ELSE "draining"
  /\ UNCHANGED <<admissionClosed, shutdownCommitted, pipelineCancelled, pendingPlan,
                 memoryVars>>
  /\ NoWorkerChange

ShutdownStep ==
  \/ FailShutdownFence \/ CommitShutdown \/ CancelPipelines \/ ReleasePlan
  \/ DrainLoadPipeline \/ DrainLoadMutations

----------------------------------------------------------------------------
AdmissionNext ==
  \/ \E p \in Pipelines : PipelineStep(p)
  \/ \E m \in Mutators : MutationStep(m)
  \/ RequestPipelineCancel
  \/ DiscardPlan
  \/ BeginShutdownFence
  \/ ShutdownStep
  \/ \E x \in {"closed", "mutations"} : Settle(x)

AdmissionSpec == AdmissionInit /\ [][AdmissionNext]_vars

(***************************************************************************)
(* Every call returns: a task that was admitted runs its finite job and    *)
(* drops its guard, the launch-generation write ends, and the Quit task    *)
(* keeps polling, and a closed gate and the count become visible. No       *)
(* fairness on a caller that asks for admission, cancels or quits.         *)
(***************************************************************************)
AdmissionFairness ==
  /\ \A p \in Pipelines : WF_vars(PipelineStep(p) /\ pc[p] # "idle")
  /\ \A m \in Mutators : WF_vars(MutationStep(m) /\ mpc[m] # "idle")
  /\ WF_vars(ShutdownStep)
  /\ WF_vars(Settle("closed")) /\ WF_vars(Settle("mutations"))

FairAdmissionSpec == AdmissionSpec /\ AdmissionFairness

----------------------------------------------------------------------------
(* Properties.                                                             *)

Admitted(p) == pc[p] \in {"load", "store"} \cup Running

\* Once wait_for_shutdown_drain has returned, no pipeline and no mutation
\* that passed its admission checks is still at work: in a build that keeps the
\* loads behind what precedes them, the two loads of the gate around the claim (or
\* the count) close every window that the two separate loads of the drain could
\* miss. Without that see DrainedMeansQuiescent.
Quiescent ==
  /\ \A p \in Pipelines : ~Admitted(p)
  /\ \A m \in Mutators : mpc[m] # "mutating"

DrainMeansQuiescent == ordered /\ quit = "drained" => Quiescent

\* One pipeline at a time holds the guard, the one that surrenders it during
\* admission included: a late surrender never releases another's claim.
SinglePipeline ==
  \A p, q \in Pipelines : pc[p] \in Owning /\ pc[q] \in Owning => p = q

\* commit_shutdown releases the prepared plan, and a preparation still in
\* flight then cannot publish one behind it (rpc.rs rechecks the commit under
\* the plan lock, which a reset pipeline_cancelled alone would not stop).
NoPlanAfterCommit ==
  quit \in {"draining", "drainMutations", "drained"} => pendingPlan = NoPlan

\* A cancel request that found the run at work and answered true leaves no
\* plan of that run to execute, whichever of the two took the lock first. (A run
\* still inside try_start_pipeline overwrites the cancel and may publish.)
AcknowledgedCancelDropsPlan ==
  pendingPlan \notin cancelled

\* The atomics implement the promise: an admission takes effect at the second
\* load of the gate, the end of the drain at its last load. Of a build that does not
\* order these loads it says only that the fence goes through its four states.
Fence == INSTANCE ShutdownFence WITH
  Workers <- Pipelines \cup Mutators,
  fence   <- IF quit = "drained" THEN "drained"
             ELSE IF shutdownCommitted THEN "committed"
             ELSE IF admissionClosed THEN "fenced" ELSE "open",
  working <- IF ordered
             THEN {p \in Pipelines : Admitted(p)} \cup {m \in Mutators : mpc[m] = "mutating"}
             ELSE {}

ImplementsFence == Fence!FenceSpec

\* A committed Quit is not held up for ever: refused admissions stop touching
\* the flag and the count, and the admitted ones end.
CommittedQuitDrains == shutdownCommitted ~> quit = "drained"

----------------------------------------------------------------------------
(* What a comment of the code says and the orders it uses do not give: TLC *)
(* finds it violated (README, section 6).                                  *)

\* "Serialize admission with Quit. If Quit closed the gate after our first read,
\* surrender the pipeline before any device/provider work begins." (sync.rs:730)
\* Without an order between a store and a later load the second look may miss the
\* closed gate, while the drain misses the claim.
DrainedMeansQuiescent == quit = "drained" => Quiescent
=============================================================================
