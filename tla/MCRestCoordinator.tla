-------------------------- MODULE MCRestCoordinator --------------------------
(* The instance of RestCoordinator that TLC checks: one instrument of a      *)
(* closed and one of an open market.                                         *)
EXTENDS RestCoordinator

CONSTANTS shut, live
=============================================================================
