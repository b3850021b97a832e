----------------------------- MODULE MCInstall ------------------------------
(* Values for the constants of Install.                                    *)
EXTENDS Install, TLC

SessionSymmetry == Permutations(Sessions)

=============================================================================
