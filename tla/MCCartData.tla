----------------------------- MODULE MCCartData -----------------------------
(* Two carts that share a card of two slots, two bytes each.                 *)
EXTENDS CartData, TLC

AnyCart == Permutations(Carts)
=============================================================================
