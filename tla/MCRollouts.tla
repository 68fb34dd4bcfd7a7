----------------------------- MODULE MCRollouts -----------------------------
(* Instances of Rollouts for TLC. *)
EXTENDS Rollouts, TLC

HandlerSymmetry == Permutations(Handler)

=============================================================================
