----------------------------- MODULE MCConfmsg -----------------------------
(* Instances of Confmsg for TLC. *)
EXTENDS Confmsg, TLC

\* Keys are interchangeable: a fresh key may be any key not in use.
KeySymmetry == Permutations(Keys)
=============================================================================
