CONSTANTS
  p1 = p1
  p2 = p2
  m1 = m1
  NoPlan = NoPlan
  NoRun = NoRun
  Pipelines <- MCPipelines
  Mutators <- MCMutators
SPECIFICATION FairAdmissionSpec
INVARIANT AcknowledgedCancelDropsPlan
PROPERTY ImplementsFence
PROPERTY CommittedQuitDrains
