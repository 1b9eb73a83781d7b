--------------------------- MODULE MCOrderPricing ---------------------------
(* A small catalog: prices whose tax needs rounding, a size, a free item.    *)
EXTENDS OrderPricing

MCPrice == <<1, 95, 0, 645>>
MCRate == <<1350, 1350, 1350, 2550>>
MCMoneyAdded == (0 :> 0) @@ (7 :> 3)
==============================================================================
