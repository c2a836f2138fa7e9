-------------------------- MODULE MCModelServing --------------------------
(* Instances of ModelServing for TLC. *)
EXTENDS ModelServing, TLC

\* The sessions are interchangeable.
ConnSymmetry == Permutations(Conns)
=============================================================================
