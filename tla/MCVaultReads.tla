---------------------------- MODULE MCVaultReads ----------------------------
(* Instances of VaultReads for TLC. *)
EXTENDS VaultReads, TLC

Symmetric == Permutations(SecretId) \union Permutations(Name)
=============================================================================
