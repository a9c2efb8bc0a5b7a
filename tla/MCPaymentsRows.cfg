SPECIFICATION FairSpec
CONSTANTS
  p1 = p1
  p2 = p2
  d1 = d1
  c1 = c1
  c2 = c2
  m1 = m1
  Purchases = {p1}
  Deposits = {d1}
  Customers = {c1, c2}
  Merchants = {m1}
  NoWallet = NoWallet
  Amount <- MCAmount
  Opening <- MCOpening
INVARIANTS
  OnlyCapturedMoves
PROPERTIES
  CheckedRowIsSettled
  ImplementsMoneyMoves
  EventuallyResolved
