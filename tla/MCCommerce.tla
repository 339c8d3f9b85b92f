----------------------------- MODULE MCCommerce -----------------------------
(* A small instance of Commerce for TLC: two sessions of one user. *)
EXTENDS Commerce, TLC

CONSTANTS s1, s2, u1

MCBuyer == s1 :> u1 @@ s2 :> u1
=============================================================================
