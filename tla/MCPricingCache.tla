--------------------------- MODULE MCPricingCache ---------------------------
(***************************************************************************)
(* PricingCache for TLC: processes and price lists are interchangeable.    *)
(***************************************************************************)
EXTENDS PricingCache, TLC

Symmetry == Permutations(Procs) \cup Permutations(Prices)
=============================================================================
