------------------------- MODULE MCSettingsRepository -------------------------
(* The instance of SettingsRepository that TLC checks: two settings with two *)
(* writers, an updater that changes nothing and one that throws.             *)
EXTENDS SettingsRepository

MCSettings == [credentials : {"old", "new"}, preferences : {"old", "new"}]
MCDefault == [credentials |-> "old", preferences |-> "old"]
MCUpdates == {"save", "clear", "prefer", "refresh", "throw"}
MCEffect ==
  [u \in MCUpdates |-> [s \in MCSettings |->
    CASE u = "save"    -> [s EXCEPT !.credentials = "new"]
      [] u = "clear"   -> [s EXCEPT !.credentials = "old"]
      [] u = "prefer"  -> [s EXCEPT !.preferences = "new"]
      [] u = "refresh" -> s
      [] OTHER         -> Throws]]
=============================================================================
