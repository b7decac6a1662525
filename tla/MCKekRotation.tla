--------------------------- MODULE MCKekRotation ---------------------------
\* Small instances of KekRotation for TLC.
EXTENDS KekRotation, TLC

Symmetric == Permutations(Thread) \union Permutations(Object)

Everything ==
    {"namespace_metadata", "service_identities", "policies", "create_secret",
     "update_secret", "purge_secret", "read", "start", "resume", "root"}

\* Sessions in which secrets come, go and are read during a rotation.
SecretsAndRotation == {"create_secret", "purge_secret", "read", "start", "resume"}
=============================================================================
