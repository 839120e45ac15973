--------------------------- MODULE MCProfileStore ---------------------------
(* ProfileStore alone, for the run that looks for a password that outlives *)
(* its profile: no call fails, the program runs once.                      *)
EXTENDS ProfileStore
CONSTANTS p1, p2
MCIds == {p1, p2}
=============================================================================
