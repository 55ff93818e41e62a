------------------------------ MODULE MCVault ------------------------------
(* Model-checking instance of Vault: see the .cfg files.                   *)
EXTENDS Vault, TLC
Symmetry == Permutations(Client) \cup Permutations(Value) \cup Permutations(Name)
=============================================================================
