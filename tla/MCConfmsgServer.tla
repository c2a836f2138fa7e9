-------------------------- MODULE MCConfmsgServer --------------------------
(* Instances of ConfmsgServer for TLC. *)
EXTENDS ConfmsgServer
=============================================================================
