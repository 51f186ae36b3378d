----------------------------- MODULE MCRoutingTxn -----------------------------
(* Two connections, two or three deployments, a few routing changes. *)
EXTENDS RoutingTxn
=============================================================================
