----------------------------- MODULE MCPasskeys -----------------------------
(* Threads and sessions are interchangeable in Passkeys.                   *)
EXTENDS Passkeys, TLC

Symmetry == Permutations(Thread) \union Permutations(SessionId)
=============================================================================
