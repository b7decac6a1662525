---------------------------- MODULE MCAccessGate ----------------------------
\* A small instance of AccessGate for TLC.
EXTENDS AccessGate, TLC

Symmetric == Permutations(Thread)

=============================================================================
