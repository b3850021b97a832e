---------------------------- MODULE MCSqlSession ----------------------------
(* Values for the constants of SqlSession.                                 *)
EXTENDS SqlSession, TLC

ThreadSymmetry == Permutations(Threads)

=============================================================================
