---------------------- MODULE MCSubscriptionSupervisor ----------------------
(* The instances of SubscriptionSupervisor that TLC checks. *)
EXTENDS SubscriptionSupervisor

(* An overseas ticker in its day form and its night form, and a domestic     *)
(* key (home) that is never replaced.                                        *)
CONSTANTS home, day, night

MCDayToNight == {<<day, night>>}
MCNoSuccession == {}
=============================================================================
