-------------------------- MODULE AdmissionProofs --------------------------
(***************************************************************************)
(* For any number of pipeline tasks and any finite set of mutation tasks:  *)
(* the admission invariants of Admission, and that it implements           *)
(* ShutdownFence. What the rechecks and the drain promise each other is    *)
(* proved of builds that order them (ordered), the rest of all.            *)
(***************************************************************************)
EXTENDS Admission, FiniteSetTheorems, TLAPS

\* The mutation tasks that active_mutations counts.
Counted == {m \in Mutators : mpc[m] \in {"recheck", "surrender", "mutating"}}

\* The flag is up while a pipeline owns it.
OwnerHoldsFlag == \A p \in Pipelines : pc[p] \in Owning => pipelineActive

\* The latest values of the gate and of the committed flag follow the shutdown path.
FenceFollowsQuit ==
  /\ admissionClosed <=> quit # "open"
  /\ shutdownCommitted <=> quit \in Committing

\* Behind the closed gate, a flag once seen down has no admitted owner left.
DrainSawNoPipeline ==
  ordered /\ quit \in {"drainMutations", "drained"} => \A p \in Pipelines : ~Admitted(p)

\* The inductive invariant.
AdmissionInv ==
  /\ AdmissionTypeOK
  /\ FenceFollowsQuit
  /\ OwnerHoldsFlag
  /\ SinglePipeline
  /\ activeMutations = Cardinality(Counted)
  /\ DrainSawNoPipeline
  /\ DrainMeansQuiescent
  /\ NoPlanAfterCommit

----------------------------------------------------------------------------
(* Type correctness, action by action.                                     *)

LEMMA CountedFinite == IsFiniteSet(Counted)
  BY AdmissionAssumption, FS_Subset, Counted \subseteq Mutators DEF Counted

\* What a store leaves to be read is of the type of its atomic.
LEMMA FlagOverwritten ==
  ASSUME stale \in StaleValues, NEW x \in {"closed", "active", "cancelled"}, NEW old, NEW new,
         old \in BOOLEAN, Overwrite(x, old, new)
  PROVE  stale' \in StaleValues /\ UNCHANGED <<ordered, overtaken>>
<1> USE DEF StaleValues, Overwrite
<1>1. CASE x = "closed"    BY <1>1
<1>2. CASE x = "active"    BY <1>2
<1>3. CASE x = "cancelled" BY <1>3
<1>4. QED BY <1>1, <1>2, <1>3

LEMMA CountOverwritten ==
  ASSUME stale \in StaleValues, NEW old \in Nat, NEW new \in Nat,
         Overwrite("mutations", old, new)
  PROVE  stale' \in StaleValues /\ UNCHANGED <<ordered, overtaken>>
BY DEF StaleValues, Overwrite

LEMMA PipelineType ==
  ASSUME AdmissionTypeOK, NEW p \in Pipelines, PipelineStep(p)
  PROVE  AdmissionTypeOK'
<1> USE DEF AdmissionTypeOK, PipelineGoto, Owning, Admitting, Running, Committing,
            vars, fenceVars, pipelineVars, mutationVars, cancelVars, memoryVars
<1>1. CASE LoadAdmission(p)      BY <1>1 DEF LoadAdmission
<1>2. CASE ClaimPipeline(p)
  <2>1. UNCHANGED <<fenceVars, mutationVars, pipelineCancelled, pendingPlan, sawCommitted,
                   cancelPc, cancelTarget>>
    BY <1>2 DEF ClaimPipeline
  <2>2. CASE PipelineGoto(p, "claim", "idle") /\ UNCHANGED <<pipelineActive, cancelled, memoryVars>>
    BY <2>1, <2>2
  <2>3. CASE /\ PipelineGoto(p, "claim", "recheck") /\ pipelineActive' = TRUE
             /\ cancelled' = cancelled \ {p} /\ Overwrite("active", FALSE, TRUE)
    BY <2>1, <2>3, FlagOverwritten
  <2>4. QED BY <1>2, <2>2, <2>3 DEF ClaimPipeline
<1>3. CASE RecheckAdmission(p)
  <2>1. UNCHANGED <<fenceVars, mutationVars, cancelVars, pipelineCancelled, pendingPlan,
                   sawCommitted>>
    BY <1>3 DEF RecheckAdmission
  <2>2. CASE PipelineGoto(p, "recheck", "load") /\ UNCHANGED <<pipelineActive, memoryVars>>
    BY <2>1, <2>2
  <2>3. CASE /\ PipelineGoto(p, "recheck", "idle") /\ pipelineActive' = FALSE
             /\ Overwrite("active", pipelineActive, FALSE)
    BY <2>1, <2>3, FlagOverwritten
  <2>4. QED BY <1>3, <2>2, <2>3 DEF RecheckAdmission
<1>4. CASE LoadCommitted(p)
  <2>1. PICK committed \in {FALSE, shutdownCommitted} :
          sawCommitted' = [sawCommitted EXCEPT ![p] = committed]
    BY <1>4 DEF LoadCommitted
  <2>2. committed \in BOOLEAN BY <2>1
  <2>3. sawCommitted' \in [Pipelines -> BOOLEAN] BY <2>1, <2>2
  <2>4. QED BY <1>4, <2>3 DEF LoadCommitted
<1>5. CASE StoreCancelled(p)
  <2>1. stale' \in StaleValues BY <1>5 DEF StoreCancelled, StaleValues
  <2>2. QED BY <1>5, <2>1 DEF StoreCancelled
<1>6. CASE PublishPlan(p)        BY <1>6 DEF PublishPlan
<1>7. CASE AbandonPreparation(p) BY <1>7 DEF AbandonPreparation
<1>8. CASE ExecutePlan(p)        BY <1>8 DEF ExecutePlan
<1>9. CASE DropPipelineGuard(p)
  <2>1. Overwrite("active", pipelineActive, FALSE) BY <1>9 DEF DropPipelineGuard
  <2>2. QED BY <1>9, <2>1, FlagOverwritten DEF DropPipelineGuard
<1>10. QED
  BY <1>1, <1>2, <1>3, <1>4, <1>5, <1>6, <1>7, <1>8, <1>9 DEF PipelineStep

LEMMA CancelType ==
  ASSUME AdmissionTypeOK, RequestPipelineCancel \/ DiscardPlan
  PROVE  AdmissionTypeOK'
<1> USE DEF AdmissionTypeOK, Owning, Admitting, Running, Committing,
            fenceVars, pipelineVars, mutationVars, cancelVars, memoryVars
<1>1. CASE LoadActive  BY <1>1 DEF LoadActive
<1>2. CASE StoreCancel
  <2>1. Overwrite("cancelled", pipelineCancelled, TRUE) BY <1>2 DEF StoreCancel
  <2>2. QED BY <1>2, <2>1, FlagOverwritten DEF StoreCancel
<1>3. CASE TakePlan
  <2>1. stale' \in StaleValues BY <1>3 DEF TakePlan, StaleValues
  <2>2. QED BY <1>3, <2>1 DEF TakePlan, Acknowledge
<1>4. CASE DiscardPlan BY <1>4 DEF DiscardPlan
<1>5. QED BY <1>1, <1>2, <1>3, <1>4 DEF RequestPipelineCancel

LEMMA ShutdownType ==
  ASSUME AdmissionTypeOK, BeginShutdownFence \/ ShutdownStep
  PROVE  AdmissionTypeOK'
<1> USE DEF AdmissionTypeOK, Owning, Admitting, Running, Committing, fenceVars, pipelineVars,
            mutationVars, cancelVars, memoryVars, NoWorkerChange
<1>1. CASE BeginShutdownFence
  <2>1. Overwrite("closed", FALSE, TRUE) BY <1>1 DEF BeginShutdownFence
  <2>2. QED BY <1>1, <2>1, FlagOverwritten DEF BeginShutdownFence
<1>2. CASE FailShutdownFence
  <2>1. Overwrite("closed", TRUE, FALSE) BY <1>2 DEF FailShutdownFence
  <2>2. QED BY <1>2, <2>1, FlagOverwritten DEF FailShutdownFence
<1>3. CASE CommitShutdown     BY <1>3 DEF CommitShutdown
<1>4. CASE CancelPipelines
  <2>1. Overwrite("cancelled", pipelineCancelled, TRUE) BY <1>4 DEF CancelPipelines
  <2>2. QED BY <1>4, <2>1, FlagOverwritten DEF CancelPipelines
<1>5. CASE ReleasePlan        BY <1>5 DEF ReleasePlan
<1>6. CASE DrainLoadPipeline  BY <1>6 DEF DrainLoadPipeline
<1>7. CASE DrainLoadMutations BY <1>7 DEF DrainLoadMutations
<1>8. QED BY <1>1, <1>2, <1>3, <1>4, <1>5, <1>6, <1>7 DEF ShutdownStep

----------------------------------------------------------------------------
(* The count of admitted mutations.                                        *)

LEMMA CountIsExact ==
  ASSUME AdmissionTypeOK, activeMutations = Cardinality(Counted),
         NEW m \in Mutators, MutationStep(m)
  PROVE  AdmissionTypeOK' /\ activeMutations' = Cardinality(Counted')
<1> USE DEF AdmissionTypeOK, MutationGoto, NoPipelineChange, Owning, Admitting, Running,
            Committing, fenceVars, pipelineVars, cancelVars, memoryVars
<1>0. Cardinality(Counted) \in Nat
  BY CountedFinite, FS_CardinalityType
<1>1. CASE LoadMutationAdmission(m)
  <2>1. Counted' = Counted BY <1>1 DEF LoadMutationAdmission, Counted
  <2>2. QED BY <1>1, <2>1 DEF LoadMutationAdmission
<1>2. CASE CountMutation(m)
  <2>1. m \notin Counted /\ Counted' = Counted \cup {m}
    BY <1>2 DEF CountMutation, Counted
  <2>2. Cardinality(Counted') = Cardinality(Counted) + 1
    BY <2>1, CountedFinite, FS_AddElement
  <2>3. stale' \in StaleValues /\ UNCHANGED <<ordered, overtaken>>
    BY <1>2, CountOverwritten DEF CountMutation
  <2>4. QED BY <1>2, <1>0, <2>2, <2>3 DEF CountMutation
<1>3. CASE RecheckMutation(m)
  <2>1. Counted' = Counted BY <1>3 DEF RecheckMutation, Counted
  <2>2. QED BY <1>3, <2>1 DEF RecheckMutation
<1>4. CASE UncountMutation(m)
  <2>1. m \in Counted /\ Counted' = Counted \ {m}
    BY <1>4 DEF UncountMutation, Counted
  <2>2. Cardinality(Counted') = Cardinality(Counted) - 1
    BY <2>1, CountedFinite, FS_RemoveElement
  <2>3. Cardinality(Counted') \in Nat
    BY <2>1, CountedFinite, FS_RemoveElement, FS_CardinalityType
  <2>4. activeMutations' = Cardinality(Counted')
    BY <1>4, <1>0, <2>2 DEF UncountMutation
  <2>5. stale' \in StaleValues /\ UNCHANGED <<ordered, overtaken>>
    BY <1>4, <2>3, <2>4, CountOverwritten DEF UncountMutation
  <2>6. AdmissionTypeOK'
    BY <1>4, <2>3, <2>4, <2>5 DEF UncountMutation
  <2>7. QED BY <2>4, <2>6
<1>5. QED BY <1>1, <1>2, <1>3, <1>4 DEF MutationStep

\* With nothing counted, nobody mutates.
LEMMA ZeroMeansNobody ==
  ASSUME activeMutations = Cardinality(Counted), activeMutations = 0
  PROVE  \A m \in Mutators : mpc[m] # "mutating"
<1>1. Counted = {} BY CountedFinite, FS_EmptySet
<1>2. QED BY <1>1 DEF Counted

----------------------------------------------------------------------------
(* The invariant is inductive, action by action.                           *)

LEMMA InitInv == AdmissionInit => AdmissionInv
<1> SUFFICES ASSUME AdmissionInit PROVE AdmissionInv
  OBVIOUS
<1> USE DEF AdmissionInit
<1>1. AdmissionTypeOK
  BY DEF AdmissionTypeOK, Owning, Admitting, Running, Committing, StaleValues
<1>2. activeMutations = Cardinality(Counted)
  <2>1. Counted = {} BY DEF Counted
  <2>2. QED BY <2>1, FS_EmptySet
<1>3. FenceFollowsQuit /\ OwnerHoldsFlag /\ SinglePipeline
  BY DEF FenceFollowsQuit, OwnerHoldsFlag, SinglePipeline, Owning, Admitting, Running,
         Committing
<1>4. DrainSawNoPipeline /\ DrainMeansQuiescent /\ NoPlanAfterCommit
  BY DEF DrainSawNoPipeline, DrainMeansQuiescent, NoPlanAfterCommit
<1>5. QED BY <1>1, <1>2, <1>3, <1>4 DEF AdmissionInv

\* A pipeline step: only the winner of the exchange touches the flag, nobody
\* passes the second look behind a closed gate, and no plan behind a commit.
LEMMA PipelineInv ==
  ASSUME AdmissionInv, NEW p \in Pipelines, PipelineStep(p)
  PROVE  AdmissionInv'
<1> USE DEF AdmissionInv
<1>1. AdmissionTypeOK'
  BY PipelineType
<1>2. UNCHANGED <<fenceVars, mutationVars, ordered>>
  BY DEF PipelineStep, LoadAdmission, ClaimPipeline, RecheckAdmission, LoadCommitted,
         StoreCancelled, PublishPlan, AbandonPreparation, ExecutePlan, DropPipelineGuard,
         memoryVars, Overwrite
<1>3. FenceFollowsQuit' /\ Counted' = Counted
  BY <1>2 DEF FenceFollowsQuit, fenceVars, mutationVars, Counted
<1>4. OwnerHoldsFlag' /\ SinglePipeline'
  <2> USE DEF AdmissionTypeOK, PipelineGoto, OwnerHoldsFlag, SinglePipeline, Owning,
              Admitting, Running, pipelineVars
  <2>1. CASE LoadAdmission(p)      BY <2>1 DEF LoadAdmission
  <2>2. CASE ClaimPipeline(p)
    <3>1. CASE PipelineGoto(p, "claim", "idle") /\ UNCHANGED pipelineActive
      BY <3>1
    <3>2. CASE ~pipelineActive /\ PipelineGoto(p, "claim", "recheck") /\ pipelineActive' = TRUE
      BY <3>2
    <3>3. QED BY <2>2, <3>1, <3>2 DEF ClaimPipeline
  <2>3. CASE RecheckAdmission(p)   BY <2>3 DEF RecheckAdmission
  <2>4. CASE LoadCommitted(p)      BY <2>4 DEF LoadCommitted
  <2>5. CASE StoreCancelled(p)     BY <2>5 DEF StoreCancelled
  <2>6. CASE PublishPlan(p)        BY <2>6 DEF PublishPlan
  <2>7. CASE AbandonPreparation(p) BY <2>7 DEF AbandonPreparation
  <2>8. CASE ExecutePlan(p)        BY <2>8 DEF ExecutePlan
  <2>9. CASE DropPipelineGuard(p)  BY <2>9 DEF DropPipelineGuard
  <2>10. QED
    BY <2>1, <2>2, <2>3, <2>4, <2>5, <2>6, <2>7, <2>8, <2>9 DEF PipelineStep
<1>5. ordered => \A q \in Pipelines : Admitted(q)' => Admitted(q) \/ ~admissionClosed
  BY DEF LoadsBehind, AdmissionTypeOK, PipelineStep, LoadAdmission, ClaimPipeline, RecheckAdmission,
         LoadCommitted, StoreCancelled, PublishPlan, AbandonPreparation, ExecutePlan,
         DropPipelineGuard, PipelineGoto, Admitted, Running
<1>6. DrainSawNoPipeline' /\ DrainMeansQuiescent'
  BY <1>2, <1>5 DEF DrainSawNoPipeline, DrainMeansQuiescent, Quiescent, FenceFollowsQuit,
                    fenceVars, mutationVars
<1>7. pendingPlan' = pendingPlan \/ pendingPlan' = NoPlan \/ ~shutdownCommitted
        \/ quit \in {"cancelling", "releasing"}
  BY DEF CommittedUnderLock, PipelineStep, LoadAdmission, ClaimPipeline, RecheckAdmission,
         LoadCommitted, StoreCancelled, PublishPlan, AbandonPreparation, ExecutePlan, DropPipelineGuard
<1>8. NoPlanAfterCommit'
  BY <1>2, <1>7 DEF NoPlanAfterCommit, FenceFollowsQuit, Committing, fenceVars
<1>9. QED
  BY <1>1, <1>2, <1>3, <1>4, <1>6, <1>8 DEF mutationVars

LEMMA MutationInv ==
  ASSUME AdmissionInv, NEW m \in Mutators, MutationStep(m)
  PROVE  AdmissionInv'
<1> USE DEF AdmissionInv
<1>1. AdmissionTypeOK' /\ activeMutations' = Cardinality(Counted')
  BY CountIsExact
<1>2. NoPipelineChange /\ UNCHANGED ordered
  BY DEF MutationStep, LoadMutationAdmission, CountMutation, RecheckMutation, UncountMutation,
         memoryVars, Overwrite
<1>3. ordered => \A n \in Mutators :
        mpc'[n] = "mutating" => mpc[n] = "mutating" \/ ~admissionClosed
  BY DEF LoadsBehind, AdmissionTypeOK, MutationStep, LoadMutationAdmission, CountMutation,
         RecheckMutation, UncountMutation, MutationGoto
<1>4. QED
  BY <1>1, <1>2, <1>3
     DEF NoPipelineChange, FenceFollowsQuit, OwnerHoldsFlag, SinglePipeline,
         DrainSawNoPipeline, DrainMeansQuiescent, Quiescent, NoPlanAfterCommit, Admitted,
         fenceVars, pipelineVars

LEMMA CancelInv ==
  ASSUME AdmissionInv, RequestPipelineCancel \/ DiscardPlan
  PROVE  AdmissionInv'
<1> USE DEF AdmissionInv
<1>1. AdmissionTypeOK'
  BY CancelType
<1>2. UNCHANGED <<fenceVars, pipelineVars, mutationVars, ordered>>
      /\ pendingPlan' \in {pendingPlan, NoPlan}
  BY DEF RequestPipelineCancel, LoadActive, StoreCancel, TakePlan, DiscardPlan, memoryVars,
         Overwrite
<1>3. Counted' = Counted
  BY <1>2 DEF Counted, mutationVars
<1>4. QED
  BY <1>1, <1>2, <1>3
     DEF FenceFollowsQuit, OwnerHoldsFlag, SinglePipeline, DrainSawNoPipeline,
         DrainMeansQuiescent, Quiescent, NoPlanAfterCommit, Admitted, fenceVars, pipelineVars,
         mutationVars

\* A step of the shutdown path. The two loads of the drain are where the
\* strengthening is needed: OwnerHoldsFlag for the first, the exact count for
\* the second.
LEMMA ShutdownInv ==
  ASSUME AdmissionInv, BeginShutdownFence \/ ShutdownStep
  PROVE  AdmissionInv'
<1> USE DEF AdmissionInv
<1>1. AdmissionTypeOK'
  BY ShutdownType
<1>2. NoWorkerChange /\ UNCHANGED ordered
  BY DEF BeginShutdownFence, ShutdownStep, FailShutdownFence, CommitShutdown,
         CancelPipelines, ReleasePlan, DrainLoadPipeline, DrainLoadMutations, memoryVars,
         Overwrite
<1>3. Counted' = Counted /\ activeMutations' = Cardinality(Counted')
  BY <1>2 DEF NoWorkerChange, Counted, mutationVars
<1>4. OwnerHoldsFlag' /\ SinglePipeline'
  BY <1>2 DEF NoWorkerChange, OwnerHoldsFlag, SinglePipeline, pipelineVars
<1>5. FenceFollowsQuit'
  <2> USE DEF FenceFollowsQuit, Committing
  <2>1. CASE BeginShutdownFence BY <2>1 DEF BeginShutdownFence
  <2>2. CASE FailShutdownFence  BY <2>2 DEF FailShutdownFence
  <2>3. CASE CommitShutdown     BY <2>3 DEF CommitShutdown
  <2>4. CASE CancelPipelines    BY <2>4 DEF CancelPipelines
  <2>5. CASE ReleasePlan        BY <2>5 DEF ReleasePlan
  <2>6. CASE DrainLoadPipeline  BY <2>6 DEF DrainLoadPipeline
  <2>7. CASE DrainLoadMutations
    <3>1. quit' \in {"drained", "draining"} BY <2>7 DEF DrainLoadMutations
    <3>2. QED BY <2>7, <3>1 DEF DrainLoadMutations
  <2>8. QED BY <2>1, <2>2, <2>3, <2>4, <2>5, <2>6, <2>7 DEF ShutdownStep
<1>6. DrainSawNoPipeline'
  <2>1. CASE DrainLoadPipeline
    BY <2>1, <1>2 DEF DrainLoadPipeline, LoadsBehind, OwnerHoldsFlag, DrainSawNoPipeline, Admitted,
                      Owning, Admitting, NoWorkerChange, pipelineVars
  <2>2. CASE ~DrainLoadPipeline
    BY <2>2, <1>2 DEF BeginShutdownFence, ShutdownStep, FailShutdownFence,
         CommitShutdown, CancelPipelines, ReleasePlan, DrainLoadMutations,
         DrainSawNoPipeline, Admitted, NoWorkerChange, pipelineVars
  <2>3. QED BY <2>1, <2>2
<1>7. DrainMeansQuiescent'
  <2>1. CASE DrainLoadMutations /\ ordered /\ activeMutations = 0
    <3>1. \A m \in Mutators : mpc'[m] # "mutating"
      BY <2>1, <1>2, ZeroMeansNobody DEF NoWorkerChange, mutationVars
    <3>2. \A p \in Pipelines : ~Admitted(p)'
      BY <2>1, <1>2, <1>6 DEF DrainLoadMutations, LoadsBehind, DrainSawNoPipeline
    <3>3. QED BY <3>1, <3>2 DEF DrainMeansQuiescent, Quiescent
  <2>2. CASE ~(DrainLoadMutations /\ ordered /\ activeMutations = 0)
    BY <2>2, <1>2 DEF BeginShutdownFence, ShutdownStep, FailShutdownFence, CommitShutdown,
         CancelPipelines, ReleasePlan, DrainLoadPipeline, DrainLoadMutations, LoadsBehind,
         DrainMeansQuiescent
  <2>3. QED BY <2>1, <2>2
<1>8. NoPlanAfterCommit'
  BY DEF BeginShutdownFence, ShutdownStep, FailShutdownFence, CommitShutdown,
         CancelPipelines, ReleasePlan, DrainLoadPipeline, DrainLoadMutations,
         NoPlanAfterCommit
<1>9. QED BY <1>1, <1>3, <1>4, <1>5, <1>6, <1>7, <1>8

LEMMA StepInv == AdmissionInv /\ [AdmissionNext]_vars => AdmissionInv'
<1> SUFFICES ASSUME AdmissionInv, [AdmissionNext]_vars PROVE AdmissionInv'
  OBVIOUS
<1>1. CASE \E p \in Pipelines : PipelineStep(p) BY <1>1, PipelineInv
<1>2. CASE \E m \in Mutators : MutationStep(m)  BY <1>2, MutationInv
<1>3. CASE RequestPipelineCancel \/ DiscardPlan  BY <1>3, CancelInv
<1>4. CASE BeginShutdownFence \/ ShutdownStep    BY <1>4, ShutdownInv
<1>5. CASE \E x \in {"closed", "mutations"} : Settle(x)
  <2>1. stale' \in StaleValues
    BY <1>5 DEF Settle, AdmissionInv, AdmissionTypeOK, StaleValues
  <2>2. QED
    BY <1>5, <2>1 DEF Settle, AdmissionInv, AdmissionTypeOK, FenceFollowsQuit, OwnerHoldsFlag,
       SinglePipeline, Counted, DrainSawNoPipeline, DrainMeansQuiescent, Quiescent,
       NoPlanAfterCommit, Admitted, fenceVars, pipelineVars, mutationVars, cancelVars
<1>6. CASE UNCHANGED vars
  BY <1>6 DEF AdmissionInv, AdmissionTypeOK, FenceFollowsQuit, OwnerHoldsFlag,
       SinglePipeline, Counted, DrainSawNoPipeline, DrainMeansQuiescent, Quiescent,
       NoPlanAfterCommit, Admitted, vars, fenceVars, pipelineVars, mutationVars, cancelVars,
       memoryVars
<1>7. QED BY <1>1, <1>2, <1>3, <1>4, <1>5, <1>6 DEF AdmissionNext

----------------------------------------------------------------------------
(* The theorems.                                                           *)

\* AdmissionInv holds in every reachable state, whatever a load may miss. (What it says of the
\* drain it says of builds that are ordered.)
THEOREM AdmissionInvariant == AdmissionSpec => []AdmissionInv
BY InitInv, StepInv, PTL DEF AdmissionSpec

\* The atomics of SyncOperationManager keep their types, the mutation count
\* never wraps below zero.
THEOREM AdmissionTypeCorrect == AdmissionSpec => []AdmissionTypeOK
<1>1. AdmissionInv => AdmissionTypeOK BY DEF AdmissionInv
<1>2. QED BY <1>1, AdmissionInvariant, PTL

\* Two syncs never hold the pipeline together, however many tasks compete.
THEOREM PipelineMutualExclusion == AdmissionSpec => []SinglePipeline
<1>1. AdmissionInv => SinglePipeline BY DEF AdmissionInv
<1>2. QED BY <1>1, AdmissionInvariant, PTL

\* In a build that keeps a load behind the exchange, addition or lock before it,
\* wait_for_shutdown_drain returns only when all admitted work has ended. (Of other
\* builds this is false, see DrainedMeansQuiescent.)
THEOREM DrainIsSound == AdmissionSpec => []DrainMeansQuiescent
<1>1. AdmissionInv => DrainMeansQuiescent BY DEF AdmissionInv
<1>2. QED BY <1>1, AdmissionInvariant, PTL

\* No prepared plan survives or follows a committed Quit.
THEOREM CommittedQuitHoldsNoPlan == AdmissionSpec => []NoPlanAfterCommit
<1>1. AdmissionInv => NoPlanAfterCommit BY DEF AdmissionInv
<1>2. QED BY <1>1, AdmissionInvariant, PTL

----------------------------------------------------------------------------
(* A cancel that was acknowledged.                                         *)

\* The target of a cancel request in flight is the run that it found, and the flag that the
\* request has stored stays until that run ends. So does that of an acknowledged one.
CancelStands ==
  /\ overtaken => cancelPc = "take"
  /\ cancelPc = "idle" => cancelTarget = NoRun
  /\ cancelTarget # NoRun =>
       /\ pc[cancelTarget] \in Running
       /\ cancelPc = "take" => pipelineCancelled /\ ~overtaken
  /\ \A p \in cancelled :
       /\ pc[p] \notin Admitting
       /\ pc[p] \in Running => pipelineCancelled /\ FALSE \notin stale.cancelled

\* A store to another atomic, and a store of TRUE to one that was TRUE.
LEMMA OthersLeaveStale ==
  ASSUME stale \in StaleValues, NEW x \in {"closed", "active", "mutations"}, NEW old, NEW new,
         Overwrite(x, old, new)
  PROVE  stale'.cancelled = stale.cancelled /\ UNCHANGED <<ordered, overtaken>>
BY DEF StaleValues, Overwrite

LEMMA RaisedAgain ==
  ASSUME stale \in StaleValues, NEW old, Overwrite("cancelled", old, TRUE),
         FALSE \notin stale.cancelled, old = TRUE
  PROVE  FALSE \notin stale'.cancelled
BY DEF StaleValues, Overwrite

\* Only a run that is still being admitted lowers the flag, and there is one run at a time.
LEMMA PipelineKeepsCancel ==
  ASSUME AdmissionInv, CancelStands, AcknowledgedCancelDropsPlan,
         NEW p \in Pipelines, PipelineStep(p)
  PROVE  CancelStands' /\ AcknowledgedCancelDropsPlan'
<1> USE AdmissionAssumption
    DEF AdmissionInv, AdmissionTypeOK, CancelStands, AcknowledgedCancelDropsPlan,
        StaleValues, PipelineGoto, Owning, Admitting, Running, mutationVars, cancelVars, memoryVars
<1>1. CASE LoadAdmission(p)      BY <1>1 DEF LoadAdmission
<1>2. CASE ClaimPipeline(p)
  <2>1. UNCHANGED <<pipelineCancelled, pendingPlan, cancelPc, cancelTarget>>
    BY <1>2 DEF ClaimPipeline
  <2>2. CASE PipelineGoto(p, "claim", "idle") /\ UNCHANGED <<cancelled, memoryVars>>
    BY <2>1, <2>2
  <2>3. CASE PipelineGoto(p, "claim", "recheck") /\ cancelled' = cancelled \ {p}
             /\ Overwrite("active", FALSE, TRUE)
    BY <2>1, <2>3, OthersLeaveStale
  <2>4. QED BY <1>2, <2>2, <2>3 DEF ClaimPipeline
<1>3. CASE RecheckAdmission(p)
  <2>1. UNCHANGED <<pipelineCancelled, pendingPlan, cancelVars>>
    BY <1>3 DEF RecheckAdmission
  <2>2. CASE PipelineGoto(p, "recheck", "load") /\ UNCHANGED memoryVars
    BY <2>1, <2>2
  <2>3. CASE PipelineGoto(p, "recheck", "idle") /\ Overwrite("active", pipelineActive, FALSE)
    BY <2>1, <2>3, OthersLeaveStale
  <2>4. QED BY <1>3, <2>2, <2>3 DEF RecheckAdmission
<1>4. CASE LoadCommitted(p)      BY <1>4 DEF LoadCommitted
<1>5. CASE StoreCancelled(p)
  <2>1. \A q \in Pipelines : q # p => pc[q] \notin Owning
    BY <1>5 DEF StoreCancelled, SinglePipeline
  <2>2. QED BY <1>5, <2>1 DEF StoreCancelled
<1>6. CASE PublishPlan(p)
  <2>1. ASSUME p \in cancelled PROVE pendingPlan' = pendingPlan
    <3>1. pipelineCancelled /\ FALSE \notin stale.cancelled /\ stale.cancelled \subseteq BOOLEAN
      BY <1>6, <2>1 DEF PublishPlan
    <3>2. \A stopped \in Loads("cancelled", pipelineCancelled) : stopped
      BY <3>1 DEF Loads
    <3>3. QED BY <1>6, <3>2 DEF PublishPlan
  <2>2. pendingPlan' \in {pendingPlan, p}
    BY <1>6 DEF PublishPlan
  <2>3. QED BY <1>6, <2>1, <2>2 DEF PublishPlan
<1>7. CASE AbandonPreparation(p) BY <1>7 DEF AbandonPreparation
<1>8. CASE ExecutePlan(p)        BY <1>8 DEF ExecutePlan
<1>9. CASE DropPipelineGuard(p)
  BY <1>9, OthersLeaveStale DEF DropPipelineGuard
<1>10. QED
  BY <1>1, <1>2, <1>3, <1>4, <1>5, <1>6, <1>7, <1>8, <1>9 DEF PipelineStep

LEMMA RequestKeepsCancel ==
  ASSUME AdmissionInv, CancelStands, AcknowledgedCancelDropsPlan,
         RequestPipelineCancel \/ DiscardPlan
  PROVE  CancelStands' /\ AcknowledgedCancelDropsPlan'
<1> USE AdmissionAssumption
    DEF AdmissionInv, AdmissionTypeOK, CancelStands, AcknowledgedCancelDropsPlan,
        Owning, Admitting, Running, pipelineVars, cancelVars, memoryVars
<1>1. CASE LoadActive
  <2>1. cancelTarget' \in {p \in Pipelines : pc[p] \in Running} \/ cancelTarget' = cancelTarget
    BY <1>1 DEF LoadActive
  <2>2. cancelPc = "idle" /\ cancelPc' = "store" /\ cancelTarget = NoRun
    BY <1>1 DEF LoadActive
  <2>3. QED BY <1>1, <2>1, <2>2 DEF LoadActive
<1>2. CASE StoreCancel
  <2>1. Overwrite("cancelled", pipelineCancelled, TRUE) /\ UNCHANGED overtaken
    BY <1>2 DEF StoreCancel, Overwrite
  <2>2. pipelineCancelled /\ FALSE \notin stale.cancelled => FALSE \notin stale'.cancelled
    BY <2>1, RaisedAgain
  <2>3. QED BY <1>2, <2>1, <2>2 DEF StoreCancel
<1>3. CASE TakePlan
  <2>1. ~overtaken => stale'.cancelled = {}
    BY <1>3 DEF TakePlan, StaleValues
  <2>2. overtaken => stale'.cancelled = stale.cancelled
    BY <1>3 DEF TakePlan, StaleValues
  <2>3. QED BY <1>3, <2>1, <2>2 DEF TakePlan, Acknowledge
<1>4. CASE DiscardPlan BY <1>4 DEF DiscardPlan
<1>5. QED BY <1>1, <1>2, <1>3, <1>4 DEF RequestPipelineCancel

\* Everything else leaves the runs alone, raises the flag or drops the plan.
LEMMA OthersKeepCancel ==
  ASSUME AdmissionInv, CancelStands, AcknowledgedCancelDropsPlan,
         UNCHANGED <<pc, cancelVars, overtaken>>, pipelineCancelled => pipelineCancelled',
         pipelineCancelled /\ FALSE \notin stale.cancelled => FALSE \notin stale'.cancelled,
         pendingPlan' \in {pendingPlan, NoPlan}
  PROVE  CancelStands' /\ AcknowledgedCancelDropsPlan'
BY AdmissionAssumption DEF AdmissionInv, AdmissionTypeOK, CancelStands,
   AcknowledgedCancelDropsPlan, cancelVars

\* A cancel request that found a run at work and answered true leaves no plan of that run
\* behind, however its three steps fall between those of the run
\* (request_pipeline_cancel, sync_calculate_delta).
THEOREM CancelDropsPlan == AdmissionSpec => []AcknowledgedCancelDropsPlan
<1>1. AdmissionInit => CancelStands /\ AcknowledgedCancelDropsPlan
  BY DEF AdmissionInit, CancelStands, AcknowledgedCancelDropsPlan
<1>2. AdmissionInv /\ CancelStands /\ AcknowledgedCancelDropsPlan /\ [AdmissionNext]_vars
        => CancelStands' /\ AcknowledgedCancelDropsPlan'
  <2> SUFFICES ASSUME AdmissionInv, CancelStands, AcknowledgedCancelDropsPlan,
                      [AdmissionNext]_vars
               PROVE  CancelStands' /\ AcknowledgedCancelDropsPlan'
    OBVIOUS
  <2>1. CASE \E p \in Pipelines : PipelineStep(p)
    BY <2>1, PipelineKeepsCancel
  <2>2. CASE RequestPipelineCancel \/ DiscardPlan
    BY <2>2, RequestKeepsCancel
  <2>3. CASE \E m \in Mutators : MutationStep(m)
    <3>1. UNCHANGED <<pc, cancelVars, overtaken, pipelineCancelled, pendingPlan>>
      BY <2>3 DEF MutationStep, LoadMutationAdmission, CountMutation, RecheckMutation,
           UncountMutation, NoPipelineChange, pipelineVars, memoryVars, Overwrite
    <3>2. stale' = stale \/ \E old, new \in Int : Overwrite("mutations", old, new)
      BY <2>3 DEF MutationStep, LoadMutationAdmission, CountMutation, RecheckMutation,
           UncountMutation, memoryVars, AdmissionInv, AdmissionTypeOK
    <3>3. stale'.cancelled = stale.cancelled
      BY <3>2, OthersLeaveStale DEF AdmissionInv, AdmissionTypeOK
    <3>4. QED BY <3>1, <3>3, OthersKeepCancel
  <2>4. CASE BeginShutdownFence \/ ShutdownStep
    <3>1. UNCHANGED <<pc, cancelVars, overtaken>> /\ pendingPlan' \in {pendingPlan, NoPlan}
      BY <2>4 DEF BeginShutdownFence, ShutdownStep, FailShutdownFence, CommitShutdown,
           CancelPipelines, ReleasePlan, DrainLoadPipeline, DrainLoadMutations, NoWorkerChange,
           pipelineVars, memoryVars, Overwrite
    <3>2. pipelineCancelled => pipelineCancelled'
      BY <2>4 DEF BeginShutdownFence, ShutdownStep, FailShutdownFence, CommitShutdown,
           CancelPipelines, ReleasePlan, DrainLoadPipeline, DrainLoadMutations
    <3>3. \/ stale' = stale \/ Overwrite("closed", FALSE, TRUE) \/ Overwrite("closed", TRUE, FALSE)
          \/ Overwrite("cancelled", pipelineCancelled, TRUE)
      BY <2>4 DEF BeginShutdownFence, ShutdownStep, FailShutdownFence, CommitShutdown,
           CancelPipelines, ReleasePlan, DrainLoadPipeline, DrainLoadMutations, memoryVars
    <3>4. pipelineCancelled /\ FALSE \notin stale.cancelled => FALSE \notin stale'.cancelled
      BY <3>3, OthersLeaveStale, RaisedAgain DEF AdmissionInv, AdmissionTypeOK
    <3>5. QED BY <3>1, <3>2, <3>4, OthersKeepCancel
  <2>5. CASE UNCHANGED vars
    BY <2>5, OthersKeepCancel DEF vars, pipelineVars, memoryVars
  <2>6. CASE \E x \in {"closed", "mutations"} : Settle(x)
    <3>1. stale'.cancelled = stale.cancelled
      BY <2>6 DEF Settle, AdmissionInv, AdmissionTypeOK, StaleValues
    <3>2. UNCHANGED <<pc, cancelVars, overtaken, pipelineCancelled, pendingPlan>>
      BY <2>6 DEF Settle, pipelineVars
    <3>3. QED BY <3>1, <3>2, OthersKeepCancel
  <2>7. QED BY <2>1, <2>2, <2>3, <2>4, <2>5, <2>6 DEF AdmissionNext
<1>3. QED BY <1>1, <1>2, AdmissionInvariant, PTL DEF AdmissionSpec

----------------------------------------------------------------------------
(* Refinement: every step of the atomics is a step of ShutdownFence, or    *)
(* leaves its two variables alone.                                         *)

\* The two variables of ShutdownFence, under the refinement mapping.
AbstractFence ==
  IF quit = "drained" THEN "drained"
  ELSE IF shutdownCommitted THEN "committed"
  ELSE IF admissionClosed THEN "fenced" ELSE "open"
AtWork ==
  IF ordered THEN {p \in Pipelines : Admitted(p)} \cup {m \in Mutators : mpc[m] = "mutating"}
  ELSE {}

LEMMA PipelineRefines ==
  ASSUME AdmissionInv, NEW p \in Pipelines, PipelineStep(p)
  PROVE  [Fence!FenceNext]_(Fence!fenceVars)
<1> USE DEF AdmissionInv
<1>1. UNCHANGED <<fenceVars, mutationVars, ordered>>
  BY DEF PipelineStep, LoadAdmission, ClaimPipeline, RecheckAdmission, LoadCommitted,
         StoreCancelled, PublishPlan, AbandonPreparation, ExecutePlan, DropPipelineGuard,
         memoryVars, Overwrite
<1>2. AbstractFence' = AbstractFence /\ mpc' = mpc
  BY <1>1 DEF AbstractFence, fenceVars, mutationVars
<1>3. \A q \in Pipelines : q # p => Admitted(q)' = Admitted(q)
  BY DEF AdmissionTypeOK, PipelineStep, LoadAdmission, ClaimPipeline, RecheckAdmission,
         LoadCommitted, StoreCancelled, PublishPlan, AbandonPreparation, ExecutePlan,
         DropPipelineGuard, PipelineGoto, Admitted
<1>4. p \notin Mutators
  BY AdmissionAssumption
<1>5. CASE ~ordered \/ Admitted(p)' = Admitted(p)
  <2>1. AtWork' = AtWork BY <1>1, <1>2, <1>3, <1>5 DEF AtWork
  <2>2. QED BY <2>1, <1>2 DEF Fence!fenceVars, AtWork, AbstractFence
<1>6. CASE ordered /\ Admitted(p)' /\ ~Admitted(p)
  <2>1. AtWork' = AtWork \cup {p} /\ p \notin AtWork
    BY <1>1, <1>2, <1>3, <1>4, <1>6 DEF AtWork
  <2>2. ~admissionClosed
    BY <1>6 DEF LoadsBehind, AdmissionTypeOK, PipelineStep, LoadAdmission, ClaimPipeline,
         RecheckAdmission, LoadCommitted, StoreCancelled, PublishPlan,
         AbandonPreparation, ExecutePlan, DropPipelineGuard, PipelineGoto, Admitted, Running
  <2>3. AbstractFence = "open"
    BY <2>2 DEF AbstractFence, FenceFollowsQuit, Committing
  <2>4. Fence!Start(p)
    BY <2>1, <2>3, <1>2 DEF Fence!Start, AtWork, AbstractFence
  <2>5. QED BY <2>4 DEF Fence!FenceNext
<1>7. CASE ordered /\ ~Admitted(p)' /\ Admitted(p)
  <2>1. AtWork' = AtWork \ {p} /\ p \in AtWork
    BY <1>1, <1>2, <1>3, <1>4, <1>7 DEF AtWork
  <2>2. Fence!End(p)
    BY <2>1, <1>2 DEF Fence!End, AtWork, AbstractFence
  <2>3. QED BY <2>2 DEF Fence!FenceNext
<1>8. QED BY <1>5, <1>6, <1>7 DEF Admitted

LEMMA MutationRefines ==
  ASSUME AdmissionInv, NEW m \in Mutators, MutationStep(m)
  PROVE  [Fence!FenceNext]_(Fence!fenceVars)
<1> USE DEF AdmissionInv
<1>1. NoPipelineChange /\ UNCHANGED ordered
  BY DEF MutationStep, LoadMutationAdmission, CountMutation, RecheckMutation, UncountMutation,
         memoryVars, Overwrite
<1>2. AbstractFence' = AbstractFence /\ pc' = pc
  BY <1>1 DEF AbstractFence, NoPipelineChange, fenceVars, pipelineVars
<1>3. \A p \in Pipelines : Admitted(p)' = Admitted(p)
  BY <1>2 DEF Admitted
<1>4. \A n \in Mutators : n # m => mpc'[n] = mpc[n]
  BY DEF AdmissionTypeOK, MutationStep, LoadMutationAdmission, CountMutation,
         RecheckMutation, UncountMutation, MutationGoto
<1>5. m \notin Pipelines
  BY AdmissionAssumption
<1>6. CASE ~ordered \/ (mpc'[m] = "mutating") = (mpc[m] = "mutating")
  <2>1. AtWork' = AtWork BY <1>1, <1>3, <1>4, <1>6 DEF AtWork
  <2>2. QED BY <2>1, <1>2 DEF Fence!fenceVars, AtWork, AbstractFence
<1>7. CASE ordered /\ mpc'[m] = "mutating" /\ mpc[m] # "mutating"
  <2>1. AtWork' = AtWork \cup {m} /\ m \notin AtWork
    BY <1>1, <1>3, <1>4, <1>5, <1>7 DEF AtWork
  <2>2. ~admissionClosed
    BY <1>7 DEF LoadsBehind, AdmissionTypeOK, MutationStep, LoadMutationAdmission, CountMutation,
         RecheckMutation, UncountMutation, MutationGoto
  <2>3. AbstractFence = "open"
    BY <2>2 DEF AbstractFence, FenceFollowsQuit, Committing
  <2>4. Fence!Start(m)
    BY <2>1, <2>3, <1>2 DEF Fence!Start, AtWork, AbstractFence
  <2>5. QED BY <2>4 DEF Fence!FenceNext
<1>8. CASE ordered /\ mpc'[m] # "mutating" /\ mpc[m] = "mutating"
  <2>1. AtWork' = AtWork \ {m} /\ m \in AtWork
    BY <1>1, <1>3, <1>4, <1>5, <1>8 DEF AtWork
  <2>2. Fence!End(m)
    BY <2>1, <1>2 DEF Fence!End, AtWork, AbstractFence
  <2>3. QED BY <2>2 DEF Fence!FenceNext
<1>9. QED BY <1>6, <1>7, <1>8

LEMMA ShutdownRefines ==
  ASSUME AdmissionInv, BeginShutdownFence \/ ShutdownStep
  PROVE  [Fence!FenceNext]_(Fence!fenceVars)
<1> USE DEF AdmissionInv
<1>1. NoWorkerChange /\ UNCHANGED ordered
  BY DEF BeginShutdownFence, ShutdownStep, FailShutdownFence, CommitShutdown,
         CancelPipelines, ReleasePlan, DrainLoadPipeline, DrainLoadMutations, memoryVars,
         Overwrite
<1>2. AtWork' = AtWork
  BY <1>1 DEF AtWork, Admitted, NoWorkerChange, pipelineVars, mutationVars
<1>3. CASE BeginShutdownFence
  <2>1. AbstractFence = "open" /\ AbstractFence' = "fenced"
    BY <1>3 DEF BeginShutdownFence, AbstractFence, FenceFollowsQuit, Committing
  <2>2. Fence!Close BY <2>1, <1>2 DEF Fence!Close, AbstractFence, AtWork
  <2>3. QED BY <2>2 DEF Fence!FenceNext
<1>4. CASE FailShutdownFence
  <2>1. AbstractFence = "fenced" /\ AbstractFence' = "open"
    BY <1>4 DEF FailShutdownFence, AbstractFence, FenceFollowsQuit, Committing
  <2>2. Fence!Reopen BY <2>1, <1>2 DEF Fence!Reopen, AbstractFence, AtWork
  <2>3. QED BY <2>2 DEF Fence!FenceNext
<1>5. CASE CommitShutdown
  <2>1. AbstractFence = "fenced" /\ AbstractFence' = "committed"
    BY <1>5 DEF CommitShutdown, AbstractFence, FenceFollowsQuit, Committing
  <2>2. Fence!Commit BY <2>1, <1>2 DEF Fence!Commit, AbstractFence, AtWork
  <2>3. QED BY <2>2 DEF Fence!FenceNext
<1>6. CASE ShutdownStep /\ quit # "fencing" /\ quit' # "drained"
  <2>1. UNCHANGED <<shutdownCommitted, admissionClosed>> /\ quit # "drained"
    BY <1>6 DEF ShutdownStep, FailShutdownFence, CommitShutdown, CancelPipelines, ReleasePlan,
                DrainLoadPipeline, DrainLoadMutations
  <2>2. AbstractFence' = AbstractFence
    BY <1>6, <2>1 DEF AbstractFence
  <2>3. QED BY <2>2, <1>2 DEF Fence!fenceVars, AtWork, AbstractFence
<1>7. CASE DrainLoadMutations /\ quit' = "drained"
  <2>1. AbstractFence = "committed" /\ AbstractFence' = "drained"
    BY <1>7 DEF DrainLoadMutations, AbstractFence, FenceFollowsQuit, Committing
  <2>2. AtWork = {}
    BY <1>7, ZeroMeansNobody
       DEF DrainLoadMutations, LoadsBehind, DrainSawNoPipeline, AtWork
  <2>3. Fence!Drain BY <2>1, <2>2, <1>2 DEF Fence!Drain, AbstractFence, AtWork
  <2>4. QED BY <2>3 DEF Fence!FenceNext
<1>8. QED
  BY <1>3, <1>4, <1>5, <1>6, <1>7 DEF ShutdownStep, FailShutdownFence, CommitShutdown,
     CancelPipelines, ReleasePlan, DrainLoadPipeline, DrainLoadMutations

\* The atomics of SyncOperationManager implement the promise of ShutdownFence: work
\* starts only while the fence is open, and the drain ends only after it, in a build
\* that orders the rechecks and the drain; of any other only the fence is followed.
THEOREM AdmissionImplementsFence == AdmissionSpec => ImplementsFence
<1>1. AdmissionInit => Fence!FenceInit
  BY DEF AdmissionInit, Fence!FenceInit, Admitted, Running
<1>2. AdmissionInv /\ [AdmissionNext]_vars => [Fence!FenceNext]_(Fence!fenceVars)
  <2> SUFFICES ASSUME AdmissionInv, [AdmissionNext]_vars
               PROVE  [Fence!FenceNext]_(Fence!fenceVars)
    OBVIOUS
  <2>1. CASE \E p \in Pipelines : PipelineStep(p) BY <2>1, PipelineRefines
  <2>2. CASE \E m \in Mutators : MutationStep(m)  BY <2>2, MutationRefines
  <2>3. CASE BeginShutdownFence \/ ShutdownStep    BY <2>3, ShutdownRefines
  <2>4. CASE RequestPipelineCancel \/ DiscardPlan \/ UNCHANGED vars
    <3>1. UNCHANGED <<fenceVars, pc, mpc, ordered>>
      BY <2>4 DEF RequestPipelineCancel, LoadActive, StoreCancel, TakePlan, DiscardPlan, Overwrite,
                  vars, pipelineVars, mutationVars, memoryVars
    <3>2. QED BY <3>1 DEF Admitted, Fence!fenceVars, fenceVars
  <2>5. CASE \E x \in {"closed", "mutations"} : Settle(x)
    BY <2>5 DEF Settle, Admitted, Fence!fenceVars, fenceVars, pipelineVars, mutationVars
  <2>6. QED BY <2>1, <2>2, <2>3, <2>4, <2>5 DEF AdmissionNext
<1>3. QED
  BY <1>1, <1>2, AdmissionInvariant, PTL DEF AdmissionSpec, ImplementsFence, Fence!FenceSpec
=============================================================================
