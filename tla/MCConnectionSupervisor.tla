----------------------- MODULE MCConnectionSupervisor -----------------------
(* The instance of ConnectionSupervisor that TLC checks. *)
EXTENDS ConnectionSupervisor

(* Two generations tell an old key from a new one. *)
MCGenerations == {0, 1}
=============================================================================
