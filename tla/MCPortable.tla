----------------------------- MODULE MCPortable -----------------------------
(* Model values of PortableVault for TLC. *)
EXTENDS PortableVault, TLC

Symmetry == Permutations(Namespace)
=============================================================================
