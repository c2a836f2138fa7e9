---------------------------- MODULE MCHttpClient ----------------------------
(* An instance of HttpClient for TLC. *)
EXTENDS HttpClient, TLC

ThreadSymmetry == Permutations(Threads)
=============================================================================
