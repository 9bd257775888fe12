------------------------- MODULE MCRuntimePromotion -------------------------
(* Small instances of RuntimePromotion for TLC.                             *)
EXTENDS RuntimePromotion, TLC

CONSTANTS v0, v1

SamePromotions == Permutations(Promotions)
=============================================================================
