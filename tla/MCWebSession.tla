---------------------------- MODULE MCWebSession ----------------------------
(* An instance of WebSession for TLC: one user with MFA, one without.      *)
EXTENDS WebSession

CONSTANTS v, w, t1, t2

=============================================================================
