----------------------- MODULE MCStockActionController -----------------------
(* The instance of StockActionController that TLC checks. *)
EXTENDS StockActionController
=============================================================================
