--------------------------- MODULE MCIdempotency ---------------------------
(* Three requests: two copies of one ask and a different ask, all with the   *)
(* same key, and a fourth request with a key of its own.                     *)
EXTENDS Idempotency

CONSTANTS r1, r2, r3, r4, k1, k2, pay, refund

MCKeyOf == [r \in Requests |-> IF r = r4 THEN k2 ELSE k1]
MCAskOf == [r \in Requests |-> IF r = r3 THEN refund ELSE pay]
=============================================================================
