-------------------------- MODULE MCHarnessSystem --------------------------
(* Instances of HarnessSystem for TLC. *)
EXTENDS HarnessSystem

CONSTANTS c1, c2, w1, w2, s1, s2, s3, d1, v1
============================================================================
