------------------------ MODULE MCManifestCheckpoint ------------------------
EXTENDS ManifestCheckpoint, TLC

CONSTANTS a, b

MCSymmetry == Permutations(Items)
=============================================================================
