-------------------------- MODULE MCCallerIdentity --------------------------
(* Values for the constants of CallerIdentity.                             *)
EXTENDS CallerIdentity, TLC

\* The owner's role and no other: a caller may act, or may not.
OneRole == {"owner"}

IdentitySymmetry == Permutations(Threads) \cup Permutations(Machines)

=============================================================================
