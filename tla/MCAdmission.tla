---------------------------- MODULE MCAdmission ----------------------------
(* Two pipelines and a mutation task are enough for every race of the      *)
(* module: one task in each window, one that disturbs it. The theorems of  *)
(* AdmissionProofs hold for any number of either.                          *)
EXTENDS Admission

CONSTANTS p1, p2, m1

MCPipelines == {p1, p2}
MCMutators  == {m1}
=============================================================================
