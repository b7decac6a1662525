--------------------------- MODULE MCIdempotency ---------------------------
EXTENDS Idempotency, TLC

Symmetric ==
    Permutations(Request) \union Permutations(SecretId) \union Permutations(Name)
=============================================================================
