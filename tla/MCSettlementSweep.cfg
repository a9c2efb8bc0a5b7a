CONSTANTS
  p1 = p1  p2 = p2  p3 = p3
  Purchases = {p1, p3}
  Price <- PriceValue
  Override <- OverrideValue
  Accounts <- AccountsValue
  MilliPercent = 20000  FixedFee = 2
  Rails = {"none", "scheduled", "instant"}
  Sweeps = {s1, s2}  Adjustments = {1}
  MaxAdjust = 1  MaxDeaths = 1
SPECIFICATION FairSpec
INVARIANTS TypeOK PaidOnceInFull
PROPERTIES NoFeeToClosed EventuallyPaidOut
CHECK_DEADLOCK FALSE
