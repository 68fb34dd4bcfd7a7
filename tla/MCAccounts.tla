----------------------------- MODULE MCAccounts -----------------------------
(* A small instance of Accounts for TLC. *)
EXTENDS Accounts, TLC

Symmetric ==
    Permutations(User) \cup Permutations(Token) \cup Permutations(Secret)
    \cup Permutations(Handler)

=============================================================================
