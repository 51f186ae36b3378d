------------------------------ MODULE MCEvidence ------------------------------
(* Two commits, two suites, two threads of the app, the CI and the operator. *)
EXTENDS Evidence
=============================================================================
