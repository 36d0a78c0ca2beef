--------------------------- MODULE MCOperations ----------------------------
(* Model-checking values for Operations: two operations, so that one can   *)
(* follow the other, on one device that leaves and comes back.             *)
EXTENDS Operations

CONSTANTS o1, o2, d1

MCOps     == {o1, o2}
OneDevice == {d1}
=============================================================================
