---------------------------- MODULE MCProxySession ----------------------------
(* One session with one shadow lane, three frames and a queue of one. *)
EXTENDS ProxySession
=============================================================================
