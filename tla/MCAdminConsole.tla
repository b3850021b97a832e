--------------------------- MODULE MCAdminConsole ---------------------------
(* Values for the constants of AdminConsole.                               *)
EXTENDS AdminConsole, TLC

NoPads       == [Names -> PadEntry]
EveryRequest == RequestNames
\* Not "reply": see GatedTasksDoNotOverlap in the README.
AnsweredFaults == {"object", "registry", "timeout", "container"}

ConsoleSymmetry ==
  Permutations(Workers) \cup Permutations(Sessions) \cup Permutations(Licenses)

=============================================================================
