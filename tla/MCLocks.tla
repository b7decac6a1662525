------------------------------ MODULE MCLocks ------------------------------
(* Threads that serve every kind of request.                                *)
EXTENDS Locks, TLC

Every == DOMAIN Program

ThreadSymmetry == Permutations(Thread)

=============================================================================
