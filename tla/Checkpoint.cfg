CONSTANTS
  a = a
  b = b
  Items = {a, b}
  Classes = {"msc", "mtp"}
  MaxObservations = 2
  MaxSaves = 1
  LateEvents = FALSE
SYMMETRY MCSymmetry
SPECIFICATION CheckpointSpec
INVARIANT CleanManifestIsTrue
INVARIANT AcknowledgedBasketSurvives
INVARIANT DirtyEvidenceIsKept
PROPERTY CompleteMeansPublished
