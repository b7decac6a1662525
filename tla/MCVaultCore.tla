---------------------------- MODULE MCVaultCore ----------------------------
(* Instances of VaultCore for TLC. *)
EXTENDS VaultCore, TLC

Symmetric == Permutations(Request) \union Permutations(Value)
=============================================================================
