----------------------------- MODULE MCRouteCache -----------------------------
(* One gateway of every kind (they share nothing), two deployments. *)
EXTENDS RouteCache
=============================================================================
