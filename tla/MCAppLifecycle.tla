--------------------------- MODULE MCAppLifecycle ---------------------------
(* Values for the constants of AppLifecycle.                               *)
EXTENDS AppLifecycle, TLC

\* PADs whose new constants have a default, or lack one.
PlainPads == [Names -> {"absent", "empty", "value"}]

\* One of the defaults may be the literal "<HIDDEN>".
AnyPads == [Names -> PadEntry]

EveryRequest      == RequestNames
RegisterOnly      == {"create"}
RegisterAndDelete == {"create", "delete"}
LicenseOnly       == {"create", "license", "unlicense"}
ConstantsOnly     == {"create", "deploy", "constants"}

AnyFault   == Faults
NoFault    == {}
\* What leaves the registry table within reach.
Unreported == {"object", "timeout", "container"}

NameSymmetry == Permutations(Workers) \cup Permutations(Names)

=============================================================================
