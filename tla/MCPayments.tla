----------------------------- MODULE MCPayments -----------------------------
(* Small instances of Payments for TLC: values of its constants.             *)
EXTENDS Payments, TLC

CONSTANTS p1, p2, d1, c1, c2, m1

(* Two purchases of 1 and 2 units and a deposit of 1: with openings of 1     *)
(* the wallet affords one purchase, or both after the deposit or a refund.   *)
MCAmount  == [t \in Txns |-> IF t = p2 THEN 2 ELSE 1]
MCOpening == [w \in Wallets |-> IF w \in Customers THEN 2 ELSE 0]
=============================================================================
