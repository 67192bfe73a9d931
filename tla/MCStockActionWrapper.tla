------------------------- MODULE MCStockActionWrapper -------------------------
(* Two settings, each raw and migrated, and one that cannot be read. *)
EXTENDS StockActionWrapper

MCSettings == {"a", "A", "b", "B", "unreadable"}
MCMigrate ==
    [s \in MCSettings |->
        CASE s \in {"a", "A"} -> "A" [] s \in {"b", "B"} -> "B" [] OTHER -> None]

=============================================================================
