CONSTANTS
  Users = {u1, u2}  Tabs = {t1, t2}  Codes = {k1, k2}  Captchas = {c1, c2}
  NoUser = NoUser  NoCode = NoCode  MaxRestarts = 1
SPECIFICATION Spec
INVARIANTS TypeOK CodeUsedOnce ChargedWithConsent
SYMMETRY Symmetry
CHECK_DEADLOCK FALSE
