------------------------- MODULE MCCredentialSession -------------------------
(* The instance of CredentialSession that TLC checks: two pairs of           *)
(* credentials, and two that ask for tokens and keys.                        *)
EXTENDS CredentialSession, TLC

CONSTANTS c1, c2, r1, r2

MCSymmetry == Permutations({c1, c2}) \cup Permutations({r1, r2})
=============================================================================
