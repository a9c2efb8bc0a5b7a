SPECIFICATION Spec
CONSTANTS
  p1 = p1
  p2 = p2
  t1 = t1
  t2 = t2
  w1 = w1
  w2 = w2
  Purchases = {p1, p2}
  TopUps = {t1, t2}
  Wallets = {w1, w2}
  Planned = {w1}
  NoWallet = NoWallet
  NoPurchase = NoPurchase
  Amount <- MCAmount
  Granted <- MCGranted
  Funds = 2
SYMMETRY SameRequests
INVARIANTS
  TypeOK
  NoOverdraft
  CashBacksWallets
  LineConserved
  LineExplained
  SupportExplained
  PaidInFull
CHECK_DEADLOCK FALSE
