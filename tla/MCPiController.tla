---------------------------- MODULE MCPiController ----------------------------
(* Three alike values of the preferences: the one stored, the one the user *)
(* makes of it and the one others do.                                      *)
EXTENDS PiController

CONSTANTS p0, p1, p2

MCPreferences == {p0, p1, p2}
MCCommands == {"preferences/save", "credentials/save", "auth/retry",
                "diagnostics/request"}
Alike == Permutations(MCPreferences)

=============================================================================
