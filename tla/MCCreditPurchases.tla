------------------------- MODULE MCCreditPurchases -------------------------
(* Small instances of CreditPurchases for TLC.                               *)
EXTENDS CreditPurchases, TLC

CONSTANTS p1, p2, t1, t2, w1, w2

(* Purchases of 2 and 1 from lines of 1 and 2 backed by a repository with 2: *)
(* the first wallet needs a top-up for p1, the second not, and both lines    *)
(* together exceed the repository.                                           *)
MCAmount  == [p \in Purchases |-> IF p = p1 THEN 2 ELSE 1]
MCGranted == [w \in Wallets |-> IF w = w1 THEN 1 ELSE 2]

(* Confirmation requests differ in nothing.                                  *)
SameRequests == Permutations(TopUps)
=============================================================================
