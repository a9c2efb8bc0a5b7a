----------------------------- MODULE MCRowLocks -----------------------------
EXTENDS RowLocks
\* Only the places of three wallets matter: everyone takes the others last, or
\* holds them while waiting for no wallet.
Places == {f \in [{"credit", "merchant", "repository"} -> 1..3] :
             \A v, w \in DOMAIN f : f[v] = f[w] => v = w}
IdOrders == {[w \in Wallets |-> CASE w = "subRepository" -> 4 [] w = "railFee" -> 5
                                  [] w = "support" -> 6 [] OTHER -> f[w]] : f \in Places}
\* Processes are alike: one assignment of each multiset of operations.
KindList == <<"withdraw", "transferOut", "transferIn", "initiate", "verify", "topup",
              "topupAgain", "repay", "refund", "sweep", "collect", "reclaim", "grant">>
Multisets == {[p \in Procs |-> KindList[n[p]]] :
                n \in {m \in [Procs -> DOMAIN KindList] :
                         \A p, o \in Procs : p < o => m[p] <= m[o]}}
=============================================================================
