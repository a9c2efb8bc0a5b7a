------------------------- MODULE MCSettlementSweep -------------------------
EXTENDS SettlementSweep
CONSTANTS p1, p2, p3
Percent(m) == [type |-> "PERCENT", milli |-> m]
Fixed(m) == [type |-> "FIXED", milli |-> m]
PriceValue == [p \in Purchases |-> IF p = p1 THEN 2 ELSE 3]
OverrideValue == [p \in Purchases |->
                    IF p = p3 THEN <<Fixed(1000), Fixed(2000)>> ELSE <<>>]
AccountsValue == <<Percent(33333), Percent(66667)>>
=============================================================================
