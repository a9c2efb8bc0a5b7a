SPECIFICATION KeyedFairSpec
CONSTANTS
  r1 = r1
  r2 = r2
  r3 = r3
  r4 = r4
  k1 = k1
  k2 = k2
  pay = pay
  refund = refund
  Requests = {r1, r2, r3, r4}
  Keys = {k1, k2}
  Asks = {pay, refund}
  KeyOf <- MCKeyOf
  AskOf <- MCAskOf
  Nobody = Nobody
INVARIANTS
  KeyedTypeOK
  AppliedOnce
  AnswersAreOfOneAsk
PROPERTIES
  EveryRequestEnds
