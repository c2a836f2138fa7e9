-------------------------- MODULE MCRefreshThread --------------------------
(* Instances of RefreshThread for TLC. *)
EXTENDS RefreshThread
=============================================================================
