------------------------------ MODULE MCRollback ------------------------------
(***************************************************************************)
(* Instances of Rollback: the deployments of seed.py, a (migration 36) and *)
(* b (migration 37, an irreversible side effect), both sealed with three   *)
(* pointers, and a pushed deployment p whose checkpoint, sealed later by   *)
(* the push pipeline, holds only an irreversible side effect.              *)
(***************************************************************************)
EXTENDS Rollback, StoreChecks

CONSTANTS a, b, p

MCPointers ==
  LET seeded == <<"vector_store", "relational_schema", "memory_graph">>
  IN  [d \in Deps |-> IF d = p THEN <<>> ELSE seeded]
MCMigration == [d \in Deps |-> IF d = a THEN 36 ELSE 37]
=============================================================================
