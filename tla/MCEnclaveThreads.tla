------------------------- MODULE MCEnclaveThreads -------------------------
(* Instances of EnclaveThreads for TLC. *)
EXTENDS EnclaveThreads
=============================================================================
