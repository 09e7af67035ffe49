--------------------------- MODULE MCVerifyIndex ---------------------------
(* Instances of VerifyIndex for TLC. *)
EXTENDS VerifyIndex, MCRagIndex

VerifyView == <<View, sighted>>
============================================================================
