--------------------------- MODULE MCInstallments ---------------------------
EXTENDS Installments
CONSTANTS p1, i1, i2
PurchaseOfValue == [i \in {i1, i2} |-> p1]
PrincipalValue  == [i \in {i1, i2} |-> IF i = i1 THEN 1 ELSE 2]
FeeValue        == [i \in {i1, i2} |-> IF i = i1 THEN 0 ELSE 1]
DailyValue      == [i \in {i1, i2} |-> 1]
DueValue        == [i \in {i1, i2} |-> 1]
DeadlineValue   == [i \in {i1, i2} |-> IF i = i1 THEN 1 ELSE 2]
=============================================================================
