--------------------------- MODULE MCX402Payments ---------------------------
(* Small instances of X402Payments for TLC.                                *)
EXTENDS X402Payments, TLC

CONSTANTS free, cheap, dear

(* One free skill and two prices.                                          *)
Prices == (free :> 0) @@ (cheap :> 1) @@ (dear :> 2)
PaidPrices == (cheap :> 1) @@ (dear :> 2)
=============================================================================
