----------------------------- MODULE MCAccounts -----------------------------
(* Instances of Accounts for TLC: users and callers are interchangeable.     *)
EXTENDS Accounts, TLC

Symmetry == Permutations(Users) \union Permutations(Callers)
=============================================================================
