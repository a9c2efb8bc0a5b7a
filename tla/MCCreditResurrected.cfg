SPECIFICATION Spec
CONSTANTS
  p1 = p1
  p2 = p2
  t1 = t1
  t2 = t2
  w1 = w1
  w2 = w2
  Purchases = {p1}
  TopUps = {t1}
  Wallets = {w1}
  Planned = {w1}
  NoWallet = NoWallet
  NoPurchase = NoPurchase
  Amount <- MCAmount
  Granted <- MCGranted
  Funds = 2
PROPERTIES
  ReversedStaysReversed
CHECK_DEADLOCK FALSE
