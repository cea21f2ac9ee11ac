------------------------- MODULE MCCallbackDelivery -------------------------
(* A session whose broker answers, and one whose broker need not.            *)
EXTENDS CallbackDelivery, TLC

CONSTANTS s1, s2

MCEvents == s1 :> 2 @@ s2 :> 1
=============================================================================
