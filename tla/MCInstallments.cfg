CONSTANTS
  p1 = p1  i1 = i1  i2 = i2
  Purchases = {p1}  Installments = {i1, i2}
  PurchaseOf <- PurchaseOfValue
  Principal <- PrincipalValue
  Fee <- FeeValue
  Daily <- DailyValue
  DueDate <- DueValue
  Deadline <- DeadlineValue
  Threshold = 1  UnblockFee = 1  Routed = {"fee", "unblock"}
  Links = {l1}  All = All  Sweeps = {s1}  Admins = {a1}
  Granted = 3  Funds = 3  LastDay = 3  MaxDeaths = 1
SPECIFICATION FairSpec
INVARIANTS TypeOK PenaltyExact BooksAgree
PROPERTIES PrincipalRestoredOnce NoDebtVanishes PenaltyConverges LongOverdueIsBlocked
