----------------------------- MODULE MCPayPage -----------------------------
EXTENDS PayPage, TLC
Symmetry == Permutations(Users) \cup Permutations(Tabs)
              \cup Permutations(Codes) \cup Permutations(Captchas)
=============================================================================
