----------------------- MODULE CreditPurchases_proofs -----------------------
(***************************************************************************)
(* Proofs about CreditPurchases for any purchases, top-ups, lines and       *)
(* amounts.  The invariant is NoOverdraft, LineConserved and PaidInFull,    *)
(* which need one another: a top-up costs at most its purchase because      *)
(* neither the ceiling nor the repository is negative, a refund returns at  *)
(* most the price because the draw is bounded by it.  The books' equations, *)
(* sums over wallets, purchases and top-ups, are proved on top of it.       *)
(***************************************************************************)
EXTENDS CreditPurchases, SumTheorems

(* The rows credit-fund:<p> and support-fund:<p> never exceed the purchase,  *)
(* also when it was completed, refunded and completed again.                 *)
KeysBounded ==
  /\ draw \in [Purchases -> Nat] /\ funded \in [Purchases -> Nat]
  /\ \A p \in Purchases : draw[p] <= Amount[p] /\ funded[p] <= Amount[p]

PlanTypes ==
  /\ owed \in [Purchases -> Nat] /\ canceled \in [Purchases -> Nat]
  /\ repaid \in [Purchases -> Nat] /\ reowed \in [Purchases -> Nat]
  /\ restored \in [Purchases -> Nat] /\ undrawn \in [Purchases -> Nat]

(* TypeOK in three parts: of the requests, of the books, of the purchases.   *)
RequestTypes ==
  /\ stage \in [TopUps -> Stages]
  /\ topOf \in [TopUps -> Purchases \cup {NoPurchase}]
  /\ chosen \in [TopUps -> Wallets \cup {NoWallet}]
  /\ shortfall \in [TopUps -> Nat]
  /\ \A t \in TopUps : stage[t] # "idle" => /\ topOf[t] \in Purchases
                                           /\ shortfall[t] \in 1..Amount[topOf[t]]
  /\ \A t \in TopUps : stage[t] = "quoted" => chosen[t] \in Wallets
  /\ captured \subseteq TopUps

BookTypes ==
  /\ closed \subseteq Wallets
  /\ ceiling \in [Wallets -> Int] /\ receivable \in [Wallets -> Int] /\ own \in [Wallets -> Int]
  /\ returned \in [Wallets -> Int] /\ paidIn \in [Wallets -> Int]
  /\ repo \in Int /\ support \in Int /\ merchant \in Int /\ cash \in Int

PurchaseTypes ==
  /\ status \in [Purchases -> Statuses] /\ payer \in [Purchases -> Wallets \cup {NoWallet}]
  /\ \A p \in Purchases : status[p] = "none" => payer[p] = NoWallet

IInv == /\ PurchaseTypes /\ RequestTypes /\ BookTypes
        /\ KeysBounded /\ PlanTypes /\ PaidInFull /\ NoOverdraft /\ LineConserved

(* The parts make up the type invariant.                                    *)
LEMMA PartsType == IInv => TypeOK
<1> SUFFICES ASSUME IInv PROVE TypeOK
  OBVIOUS
<1>1. {draw, funded, undrawn, restored, owed, canceled, repaid, reowed} \subseteq [Purchases -> Int]
  BY DEF IInv, KeysBounded, PlanTypes
<1>2. {ceiling, receivable, own, returned, paidIn} \subseteq [Wallets -> Int]
  BY Zenon DEF IInv, BookTypes
<1>3. {repo, support, merchant, cash} \subseteq Int
  BY Zenon DEF IInv, BookTypes
<1> QED
  BY <1>1, <1>2, <1>3, Zenon DEF IInv, TypeOK, PurchaseTypes, RequestTypes, BookTypes

----------------------------------------------------------------------------
(* Min of two integers is one of them and not above the other.              *)
LEMMA MinOfTwo ==
  ASSUME NEW a \in Int, NEW b \in Int
  PROVE  Min({a, b}) \in {a, b} /\ Min({a, b}) <= a /\ Min({a, b}) <= b
<1>1. \E x \in {a, b} : \A y \in {a, b} : x <= y
  BY SMT
<1> QED
  BY <1>1, Zenon DEF Min

(* What a refund returns to the repository is at most what was drawn.       *)
LEMMA UnrepaidBounded ==
  ASSUME NEW p \in Purchases, draw[p] \in Nat, repaid[p] \in Nat
  PROVE  Unrepaid(p) \in 0..draw[p]
<1> DEFINE least == Min({repaid[p], draw[p]})
<1>1. repaid[p] \in Int /\ draw[p] \in Int
  OBVIOUS
<1>2. least \in {repaid[p], draw[p]} /\ least <= draw[p]
  BY <1>1, MinOfTwo, Zenon
<1>3. Unrepaid(p) = draw[p] - least
  BY DEF Unrepaid
<1> HIDE DEF least
<1> QED
  BY <1>2, <1>3

(* The shortfall of a quote is positive and at most the price.              *)
LEMMA ShortfallBounded ==
  ASSUME IInv, NEW p \in Purchases, NEW w \in Wallets, Amount[p] > Available(w)
  PROVE  Amount[p] - Available(w) \in 1..Amount[p]
<1> DEFINE least == Min({ceiling[w], repo})
<1>1. ceiling[w] \in Int /\ repo \in Int /\ ceiling[w] >= 0 /\ repo >= 0
  <2>1. BookTypes /\ NoOverdraft /\ LineConserved
    BY Zenon DEF IInv
  <2>2. ceiling[w] \in Int /\ repo \in Int /\ repo >= 0
    BY <2>1 DEF BookTypes, NoOverdraft
  <2>3. ceiling[w] >= 0
    BY <2>1, Zenon DEF LineConserved
  <2> QED
    BY <2>2, <2>3
<1>2. least \in {ceiling[w], repo}
  BY <1>1, MinOfTwo, Zenon
<1>3. Available(w) = least
  BY DEF Available
<1> HIDE DEF least
<1> QED
  BY <1>1, <1>2, <1>3, AmountAssumption

----------------------------------------------------------------------------
(* A settlement with f of support money pays the purchase in full, within   *)
(* the ceiling of its wallet and the repository's balance.                  *)
LEMMA SettlePays ==
  ASSUME IInv, NEW p \in Purchases, NEW f \in 0..Amount[p], payer[p] \in Wallets, Settle(p, f)
  PROVE  /\ PurchaseTypes' /\ KeysBounded' /\ PlanTypes' /\ PaidInFull' /\ LineConserved'
         /\ ceiling' \in [Wallets -> Int] /\ receivable' \in [Wallets -> Int]
         /\ repo' \in Int /\ repo' >= 0 /\ merchant' \in Int /\ merchant' >= 0
<1> DEFINE rest == Amount[p] - f
<1>1. Amount[p] \in Nat \ {0} /\ rest \in Nat /\ rest = Amount[p] - f
  BY AmountAssumption
<1>2. /\ status' = [status EXCEPT ![p] = "COMPLETED"] /\ payer' = payer
      /\ draw' = [draw EXCEPT ![p] = draw[p] + rest]
      /\ funded' = [funded EXCEPT ![p] = funded[p] + f]
      /\ ceiling' = [ceiling EXCEPT ![payer[p]] = ceiling[payer[p]] - rest]
      /\ receivable' = [receivable EXCEPT ![payer[p]] = receivable[payer[p]] + rest]
      /\ owed' = [owed EXCEPT ![p] = IF payer[p] \in Planned THEN owed[p] + rest ELSE owed[p]]
      /\ repo' = repo - rest /\ merchant' = merchant + Amount[p]
      /\ UNCHANGED <<undrawn, restored, canceled, repaid, reowed, returned>>
  BY DEF Settle
<1>3. /\ f > 0 => funded[p] = 0
      /\ rest > 0 => draw[p] = 0 /\ rest <= repo /\ rest <= ceiling[payer[p]]
  BY <1>1, AmountAssumption DEF Settle, CanSettle
<1>4. /\ PurchaseTypes /\ BookTypes /\ KeysBounded /\ PlanTypes /\ PaidInFull
      /\ NoOverdraft /\ LineConserved
  BY Zenon DEF IInv
<1> HIDE DEF rest
<1>5. draw[p] \in 0..Amount[p] /\ funded[p] \in 0..Amount[p]
  BY <1>1, <1>4 DEF KeysBounded
<1>6. PurchaseTypes'
  BY <1>2, <1>4 DEF PurchaseTypes, Statuses
<1>7. KeysBounded'
  <2>1. draw[p] + rest \in Nat /\ draw[p] + rest <= Amount[p]
    BY <1>1, <1>3, <1>5
  <2>2. funded[p] + f \in Nat /\ funded[p] + f <= Amount[p]
    BY <1>1, <1>3, <1>5
  <2> QED
    BY <1>2, <1>4, <2>1, <2>2 DEF KeysBounded
<1>8. PlanTypes'
  BY <1>1, <1>2, <1>4 DEF PlanTypes
<1>9. PaidInFull'
  <2>1. draw'[p] = draw[p] + rest /\ funded'[p] = funded[p] + f
    BY <1>2, <1>4 DEF KeysBounded
  <2>2. draw'[p] + funded'[p] >= Amount[p]
    BY <1>1, <1>5, <2>1
  <2>3. draw'[p] \in 0..Amount[p] /\ funded'[p] \in 0..Amount[p]
    BY <1>1, <1>7 DEF KeysBounded
  <2>4. \A q \in Purchases \ {p} : /\ status'[q] = status[q] /\ draw'[q] = draw[q]
                                  /\ funded'[q] = funded[q]
    BY <1>2, <1>4 DEF KeysBounded, PurchaseTypes
  <2> QED
    BY <1>2, <1>4, <2>2, <2>3, <2>4 DEF PaidInFull
<1>10. LineConserved'
  <2>1. ceiling[payer[p]] \in Int /\ receivable[payer[p]] \in Int /\ returned[payer[p]] \in Int
    BY <1>4 DEF BookTypes
  <2>2. ceiling[payer[p]] >= 0
    BY <1>4, Zenon DEF LineConserved
  <2>3. ceiling[payer[p]] - rest >= 0
    BY <1>1, <1>3, <2>1, <2>2
  <2> QED
    BY <1>1, <1>2, <1>4, <2>1, <2>3, AmountAssumption, WalletAssumption DEF BookTypes, LineConserved
<1>11. ceiling' \in [Wallets -> Int] /\ receivable' \in [Wallets -> Int]
  BY <1>1, <1>2, <1>4 DEF BookTypes
<1>12. repo' \in Int /\ repo' >= 0 /\ merchant' \in Int /\ merchant' >= 0
  BY <1>1, <1>2, <1>3, <1>4 DEF BookTypes, NoOverdraft
<1> QED
  BY <1>6, <1>7, <1>8, <1>9, <1>10, <1>11, <1>12

----------------------------------------------------------------------------
(* The initial state satisfies the invariant.                               *)
LEMMA InitIInv == Init => IInv
<1> SUFFICES ASSUME Init PROVE IInv
  OBVIOUS
<1>1. PurchaseTypes /\ RequestTypes /\ PaidInFull
  BY DEF Init, PurchaseTypes, Statuses, RequestTypes, Stages, PaidInFull
<1>2. BookTypes /\ NoOverdraft /\ LineConserved
  BY AmountAssumption, WalletAssumption DEF Init, BookTypes, NoOverdraft, LineConserved
<1>3. KeysBounded /\ PlanTypes
  BY AmountAssumption DEF Init, KeysBounded, PlanTypes
<1> QED
  BY <1>1, <1>2, <1>3, Zenon DEF IInv

----------------------------------------------------------------------------
(* A step that changes only what requests and top-ups say.                  *)
LEMMA RequestOnly ==
  ASSUME IInv, RequestTypes', PurchaseTypes',
         UNCHANGED <<status, keyVars, planVars, lineVars, moneyVars>>,
         \A p \in Purchases : payer[p] # NoWallet => payer'[p] = payer[p]
  PROVE  IInv'
<1>1. /\ PurchaseTypes /\ BookTypes /\ KeysBounded /\ PlanTypes /\ PaidInFull
      /\ NoOverdraft /\ LineConserved
  BY Zenon DEF IInv
<1>2. KeysBounded' /\ PlanTypes' /\ BookTypes' /\ NoOverdraft' /\ LineConserved'
  BY <1>1 DEF keyVars, planVars, lineVars, moneyVars, KeysBounded, PlanTypes, BookTypes,
              NoOverdraft, LineConserved
<1>3. PaidInFull'
  BY <1>1, WalletAssumption DEF keyVars, PaidInFull
<1> QED
  BY <1>2, <1>3, Zenon DEF IInv

(* A step that moves a top-up from one stage to another.                    *)
LEMMA StageTypes ==
  ASSUME IInv, NEW t \in TopUps, NEW from \in Stages \ {"idle"},
         NEW to \in Stages \ {"quoted"},
         Stage(t, from, to), captured' \subseteq TopUps
  PROVE  RequestTypes'
<1>1. RequestTypes
  BY Zenon DEF IInv
<1> QED
  BY <1>1 DEF Stage, RequestTypes

(* Such a step that changes nothing else.                                   *)
LEMMA StageKeeps ==
  ASSUME IInv, NEW t \in TopUps, NEW from \in Stages \ {"idle"},
         NEW to \in Stages \ {"quoted"},
         Stage(t, from, to), captured' \subseteq TopUps, UNCHANGED <<purchaseVars, moneyVars>>
  PROVE  IInv'
<1>1. UNCHANGED <<status, payer, keyVars, planVars, lineVars, moneyVars>>
  BY DEF Stage, purchaseVars
<1>2. RequestTypes'
  BY StageTypes
<1>3. PurchaseTypes
  BY Zenon DEF IInv
<1>4. PurchaseTypes'
  BY <1>1, <1>3 DEF PurchaseTypes
<1> QED
  BY <1>1, <1>2, <1>4, RequestOnly

(* Attaching keeps the payer of a purchase that has one.                    *)
LEMMA AttachedKeeps ==
  ASSUME IInv, NEW p \in Purchases, NEW w \in Wallets, payer' = Attached(p, w), UNCHANGED status
  PROVE  PurchaseTypes' /\ \A q \in Purchases : payer[q] # NoWallet => payer'[q] = payer[q]
<1>1. PurchaseTypes
  BY Zenon DEF IInv
<1> QED
  BY <1>1 DEF PurchaseTypes, Attached

(* The steps of a confirmation request.                                     *)
LEMMA RequestKeeps ==
  ASSUME IInv, NEW t \in TopUps, RequestStep(t)
  PROVE  IInv'
<1>1. PurchaseTypes /\ RequestTypes
  BY Zenon DEF IInv
<1>2. ASSUME NEW p \in Purchases, NEW w \in Wallets, Quote(t, p, w) PROVE IInv'
  <2>1. Amount[p] - Available(w) \in 1..Amount[p]
    BY <1>2, ShortfallBounded DEF Quote
  <2>2. RequestTypes'
    BY <1>1, <1>2, <2>1, AmountAssumption DEF Quote, RequestTypes, Stages
  <2>3. UNCHANGED <<status, payer, keyVars, planVars, lineVars, moneyVars>>
    BY <1>2 DEF Quote, purchaseVars
  <2>4. PurchaseTypes'
    BY <1>1, <2>3 DEF PurchaseTypes
  <2> QED
    BY <2>2, <2>3, <2>4, RequestOnly
<1>3. ASSUME Attach(t) PROVE IInv'
  <2>1. /\ stage[t] = "quoted" /\ payer' = Attached(topOf[t], chosen[t])
        /\ UNCHANGED <<status, keyVars, planVars, lineVars, moneyVars>>
    BY <1>3 DEF Attach
  <2>2. topOf[t] \in Purchases /\ chosen[t] \in Wallets
    BY <1>1, <2>1 DEF RequestTypes
  <2>3. PurchaseTypes' /\ \A q \in Purchases : payer[q] # NoWallet => payer'[q] = payer[q]
    BY <2>1, <2>2, AttachedKeeps
  <2>4. RequestTypes'
    BY <1>1, <1>3 DEF Attach, RequestTypes, Stages
  <2> QED
    BY <2>1, <2>3, <2>4, RequestOnly
<1>4. CASE Check(t)
  BY <1>1, <1>4, StageKeeps DEF Check, Stages, RequestTypes
<1>5. CASE TakeRow(t)
  BY <1>1, <1>5, StageKeeps DEF TakeRow, Stages, RequestTypes
<1>6. CASE Create(t)
  BY <1>1, <1>6, StageKeeps DEF Create, Stages, RequestTypes
<1>7. CASE GiveUp(t)
  <2>1. UNCHANGED <<status, payer, keyVars, planVars, lineVars, moneyVars>>
    BY <1>7 DEF GiveUp, purchaseVars
  <2>2. RequestTypes'
    BY <1>1, <1>7 DEF GiveUp, RequestTypes, Stages
  <2>3. PurchaseTypes'
    BY <1>1, <2>1 DEF PurchaseTypes
  <2> QED
    BY <2>1, <2>2, <2>3, RequestOnly
<1> QED
  BY <1>2, <1>3, <1>4, <1>5, <1>6, <1>7 DEF RequestStep

(* The steps of a top-up's own row.                                         *)
LEMMA TopUpKeeps ==
  ASSUME IInv, NEW t \in TopUps, TopUpStep(t)
  PROVE  IInv'
<1>1. /\ PurchaseTypes /\ RequestTypes /\ BookTypes /\ KeysBounded /\ PlanTypes
      /\ PaidInFull /\ NoOverdraft /\ LineConserved
  BY Zenon DEF IInv
<1>2. ASSUME CompleteTopUp(t) PROVE IInv'
  <2> DEFINE p == topOf[t]
             f == shortfall[t]
  <2>1. /\ stage[t] \in {"paid", "COMPLETED"} /\ TakesPart(t) /\ Settle(p, f)
        /\ CreditSupport(t) >= f /\ stage' = [stage EXCEPT ![t] = "COMPLETED"]
        /\ support' = CreditSupport(t) - f /\ cash' = cash + CreditSupport(t) - support
        /\ paidIn' = [paidIn EXCEPT ![payer[p]] = paidIn[payer[p]] + CreditSupport(t) - support]
        /\ UNCHANGED <<topOf, chosen, shortfall, captured>>
    BY <1>2 DEF CompleteTopUp
  <2>2. p \in Purchases /\ f \in 1..Amount[p]
    BY <1>1, <2>1 DEF RequestTypes
  <2>3. payer[p] \in Wallets /\ f \in 0..Amount[p]
    BY <1>1, <2>1, <2>2, AmountAssumption DEF PurchaseTypes, TakesPart
  <2>4. CreditSupport(t) \in Int
    BY <1>1, <2>2, AmountAssumption DEF BookTypes, CreditSupport
  <2>5. /\ PurchaseTypes' /\ KeysBounded' /\ PlanTypes' /\ PaidInFull' /\ LineConserved'
        /\ ceiling' \in [Wallets -> Int] /\ receivable' \in [Wallets -> Int]
        /\ repo' \in Int /\ repo' >= 0 /\ merchant' \in Int /\ merchant' >= 0
    BY <2>1, <2>2, <2>3, SettlePays
  <2>6. UNCHANGED <<returned, closed, own>>
    BY <2>1 DEF Settle
  <2>7. RequestTypes'
    BY <1>1, <2>1 DEF RequestTypes, Stages
  <2>8. f \in Int /\ support' \in Int /\ support' >= 0
    BY <2>1, <2>2, <2>4, AmountAssumption
  <2>9. BookTypes'
    <3>1. cash' \in Int
      BY <1>1, <2>1, <2>4 DEF BookTypes
    <3>2. paidIn' \in [Wallets -> Int]
      BY <1>1, <2>1, <2>3, <2>4 DEF BookTypes
    <3> QED
      BY <1>1, <2>5, <2>6, <2>8, <3>1, <3>2 DEF BookTypes
  <2>10. NoOverdraft'
    BY <1>1, <2>5, <2>6, <2>8 DEF NoOverdraft
  <2> QED
    BY <2>5, <2>7, <2>9, <2>10, Zenon DEF IInv
<1>3. ASSUME CompleteTopUpAlone(t) PROVE IInv'
  <2>1. /\ Stage(t, "paid", "COMPLETED") /\ TakesPart(t) /\ captured' = captured
        /\ support' = CreditSupport(t) /\ cash' = cash + CreditSupport(t) - support
        /\ paidIn' = [paidIn EXCEPT ![payer[topOf[t]]] = paidIn[payer[topOf[t]]]
                                                          + CreditSupport(t) - support]
        /\ UNCHANGED <<status, payer, own, repo, merchant>>
    BY <1>3 DEF CompleteTopUpAlone, purchaseVars
  <2>2. stage[t] = "paid" /\ UNCHANGED <<keyVars, planVars, lineVars>>
    BY <2>1 DEF Stage
  <2>3. CreditSupport(t) \in Int /\ CreditSupport(t) >= 0
    BY <1>1, <2>2, AmountAssumption DEF BookTypes, CreditSupport, RequestTypes, NoOverdraft
  <2>4. RequestTypes'
    BY <1>1, <2>1, StageTypes DEF RequestTypes, Stages
  <2>5. PurchaseTypes' /\ KeysBounded' /\ PlanTypes' /\ PaidInFull' /\ LineConserved'
    BY <1>1, <2>1, <2>2 DEF PurchaseTypes, KeysBounded, PlanTypes, PaidInFull, LineConserved,
                            keyVars, planVars, lineVars
  <2>6. payer[topOf[t]] \in Wallets
    BY <1>1, <2>1, <2>2 DEF PurchaseTypes, RequestTypes, TakesPart
  <2>7. BookTypes'
    <3>1. UNCHANGED <<closed, ceiling, receivable, own, returned, repo, merchant>>
      BY <2>1, <2>2 DEF keyVars, lineVars
    <3>2. support' \in Int /\ cash' \in Int
      BY <1>1, <2>1, <2>3 DEF BookTypes
    <3>3. paidIn' \in [Wallets -> Int]
      BY <1>1, <2>1, <2>3, <2>6 DEF BookTypes
    <3> QED
      BY <1>1, <3>1, <3>2, <3>3 DEF BookTypes
  <2>8. NoOverdraft'
    BY <1>1, <2>1, <2>3 DEF NoOverdraft
  <2> QED
    BY <2>4, <2>5, <2>7, <2>8, Zenon DEF IInv
<1>4. CASE Capture(t)
  BY <1>1, <1>4, StageKeeps DEF Capture, Stages, RequestTypes
<1>5. CASE RejectTopUp(t)
  BY <1>1, <1>5, StageKeeps DEF RejectTopUp, Stages, RequestTypes
<1>6. CASE AbortTopUp(t)
  BY <1>1, <1>6, StageKeeps DEF AbortTopUp, Stages, RequestTypes
<1>7. CASE CancelTopUp(t)
  BY <1>1, <1>7, StageKeeps DEF CancelTopUp, Stages, RequestTypes
<1> QED
  BY <1>2, <1>3, <1>4, <1>5, <1>6, <1>7 DEF TopUpStep

(* What a wallet owes in all is a natural number.                           *)
LEMMA DebtType ==
  ASSUME IInv, NEW w \in Wallets
  PROVE  SumFunctionOnSet(owed, Owes(w)) \in Nat
<1>1. PlanTypes /\ IsFiniteSet(Owes(w))
  BY FiniteAssumption, FS_Subset DEF IInv, Owes
<1>2. \A p \in Owes(w) : owed[p] \in Nat
  BY <1>1 DEF PlanTypes, Owes
<1> QED
  BY <1>1, <1>2, SumType

(* Adding to the entry of a wallet keeps a book's type, also for NoWallet.   *)
LEMMA AddAt ==
  ASSUME NEW book \in [Wallets -> Int], NEW w, NEW n \in Int
  PROVE  /\ [book EXCEPT ![w] = book[w] + n] \in [Wallets -> Int]
         /\ [book EXCEPT ![w] = book[w] - n] \in [Wallets -> Int]
<1>1. CASE w \in Wallets
  BY <1>1
<1>2. CASE w \notin Wallets
  BY <1>2
<1> QED
  BY <1>1, <1>2

(* Paying n moves n from one part of the plan to the PAID one.              *)
LEMMA MarkPaidTypes ==
  ASSUME PlanTypes, NEW p \in Purchases, NEW n \in Nat, MarkPaid(p, n)
  PROVE  /\ owed' \in [Purchases -> Nat] /\ canceled' \in [Purchases -> Nat]
         /\ repaid' \in [Purchases -> Nat] /\ reowed' \in [Purchases -> Nat]
BY DEF MarkPaid, PlanTypes

(* The steps of a purchase.                                                 *)
LEMMA PurchaseKeeps ==
  ASSUME IInv, NEW p \in Purchases, PurchaseStep(p)
  PROVE  IInv'
<1>1. /\ PurchaseTypes /\ RequestTypes /\ BookTypes /\ KeysBounded /\ PlanTypes
      /\ PaidInFull /\ NoOverdraft /\ LineConserved
  BY Zenon DEF IInv
<1>2. Amount[p] \in Nat \ {0}
  BY AmountAssumption
<1>3. ASSUME topUpVars' = topUpVars PROVE RequestTypes'
  BY <1>1, <1>3 DEF topUpVars, RequestTypes
<1>4. ASSUME UNCHANGED <<topUpVars, keyVars, planVars, lineVars, moneyVars>>,
             PurchaseTypes', PaidInFull'
      PROVE  IInv'
  <2>1. KeysBounded' /\ PlanTypes' /\ BookTypes' /\ NoOverdraft' /\ LineConserved'
    BY <1>1, <1>4 DEF keyVars, planVars, lineVars, moneyVars, KeysBounded, PlanTypes, BookTypes,
                      NoOverdraft, LineConserved
  <2> QED
    BY <1>3, <1>4, <2>1, Zenon DEF IInv
<1>5. ASSUME NEW w \in Wallets \cup {NoWallet}, Open(p, w) PROVE IInv'
  <2>1. PurchaseTypes' /\ PaidInFull'
    BY <1>1, <1>5 DEF Open, PurchaseTypes, PaidInFull, Statuses, keyVars
  <2> QED
    BY <1>4, <1>5, <2>1 DEF Open
<1>6. ASSUME NEW w \in Wallets, AttachWallet(p, w) PROVE IInv'
  <2>1. PurchaseTypes' /\ PaidInFull'
    BY <1>1, <1>6, AttachedKeeps, WalletAssumption DEF AttachWallet, PaidInFull, keyVars
  <2> QED
    BY <1>4, <1>6, <2>1 DEF AttachWallet
<1>7. ASSUME CancelPurchase(p) PROVE IInv'
  <2>1. PurchaseTypes' /\ PaidInFull'
    BY <1>1, <1>7 DEF CancelPurchase, PurchaseTypes, PaidInFull, Statuses, keyVars
  <2> QED
    BY <1>4, <1>7, <2>1 DEF CancelPurchase
<1>8. ASSUME VerifyPurchase(p) PROVE IInv'
  <2>1. payer[p] \in Wallets /\ 0 \in 0..Amount[p]
    BY <1>1, <1>2, <1>8 DEF VerifyPurchase, PurchaseTypes
  <2>2. Settle(p, 0) /\ UNCHANGED <<topUpVars, support, cash, paidIn>>
    BY <1>8 DEF VerifyPurchase
  <2>3. /\ PurchaseTypes' /\ KeysBounded' /\ PlanTypes' /\ PaidInFull' /\ LineConserved'
        /\ ceiling' \in [Wallets -> Int] /\ receivable' \in [Wallets -> Int]
        /\ repo' \in Int /\ repo' >= 0 /\ merchant' \in Int /\ merchant' >= 0
    BY <2>1, <2>2, SettlePays
  <2>4. UNCHANGED <<returned, closed, own, support, cash, paidIn>>
    BY <2>2 DEF Settle
  <2>5. BookTypes' /\ NoOverdraft'
    BY <1>1, <2>3, <2>4 DEF BookTypes, NoOverdraft
  <2> QED
    BY <1>3, <2>2, <2>3, <2>5, Zenon DEF IInv
<1>9. ASSUME NEW n \in 1..Amount[p], Repay(p, n) PROVE IInv'
  <2>1. n \in Nat
    BY <1>2
  <2>2. PurchaseTypes' /\ KeysBounded' /\ PaidInFull'
    BY <1>1, <1>9 DEF Repay, purchaseVars, PurchaseTypes, KeysBounded, PaidInFull
  <2>3. PlanTypes'
    BY <1>1, <1>9, <2>1, MarkPaidTypes DEF Repay, PlanTypes
  <2>4. BookTypes' /\ NoOverdraft'
    <3>1. /\ ceiling' = [ceiling EXCEPT ![payer[p]] = ceiling[payer[p]] + n]
          /\ receivable' = [receivable EXCEPT ![payer[p]] = receivable[payer[p]] - n]
          /\ paidIn' = [paidIn EXCEPT ![payer[p]] = paidIn[payer[p]] + n]
          /\ repo' = repo + n /\ cash' = cash + n
          /\ UNCHANGED <<returned, closed, own, support, merchant>>
      BY <1>9 DEF Repay
    <3>2. /\ ceiling \in [Wallets -> Int] /\ receivable \in [Wallets -> Int]
          /\ paidIn \in [Wallets -> Int] /\ n \in Int
      BY <1>1, <2>1 DEF BookTypes
    <3>3. /\ ceiling' \in [Wallets -> Int] /\ receivable' \in [Wallets -> Int]
          /\ paidIn' \in [Wallets -> Int]
      BY <3>1, <3>2, AddAt, Zenon
    <3>4. repo' \in Int /\ repo' >= 0 /\ cash' \in Int
      BY <1>1, <2>1, <3>1 DEF BookTypes, NoOverdraft
    <3> QED
      BY <1>1, <3>1, <3>3, <3>4 DEF BookTypes, NoOverdraft
  <2>5. LineConserved'
    BY <1>1, <1>9, <2>1, AmountAssumption, WalletAssumption DEF Repay, BookTypes, LineConserved
  <2>6. RequestTypes'
    BY <1>3, <1>9 DEF Repay
  <2> QED
    BY <2>2, <2>3, <2>4, <2>5, <2>6, Zenon DEF IInv
<1>10. ASSUME Refund(p) PROVE IInv'
  <2> DEFINE back == Unrepaid(p)
  <2>1. /\ status[p] = "COMPLETED" /\ merchant >= Amount[p]
        /\ undrawn' = [undrawn EXCEPT ![p] = undrawn[p] + back]
        /\ status' = [status EXCEPT ![p] = "REVERSED"] /\ merchant' = merchant - Amount[p]
        /\ own' = [own EXCEPT ![payer[p]] = own[payer[p]] + (Amount[p] - back)]
        /\ repo' = repo + back
        /\ ceiling' = [ceiling EXCEPT ![payer[p]] = ceiling[payer[p]] + back]
        /\ receivable' = [receivable EXCEPT ![payer[p]] = receivable[payer[p]] - Forgiven(p)]
        /\ owed' = [owed EXCEPT ![p] = 0] /\ reowed' = [reowed EXCEPT ![p] = 0]
        /\ canceled' = [canceled EXCEPT ![p] = canceled[p] + owed[p]]
        /\ UNCHANGED <<payer, topUpVars, draw, funded, restored, repaid, returned, closed,
                       support, cash, paidIn>>
    BY <1>10 DEF Refund, CustomerShare, CancelPlan
  <2>2. Unrepaid(p) \in 0..draw[p]
    BY <1>1, UnrepaidBounded DEF KeysBounded, PlanTypes
  <2>3. Forgiven(p) = IF payer[p] \in Planned THEN back ELSE 0
    BY DEF Forgiven
  <2> HIDE DEF back
  <2>4. back \in Nat /\ Amount[p] - back \in Nat
    BY <1>1, <1>2, <2>2 DEF KeysBounded, back
  <2>5. payer[p] \in Wallets
    BY <1>1, <2>1 DEF PaidInFull
  <2>6. PurchaseTypes' /\ KeysBounded' /\ PaidInFull'
    BY <1>1, <2>1 DEF PurchaseTypes, Statuses, KeysBounded, PaidInFull
  <2>7. PlanTypes'
    BY <1>1, <2>1, <2>4 DEF PlanTypes
  <2>8. BookTypes' /\ NoOverdraft'
    <3>1. Forgiven(p) \in Int
      BY <2>3, <2>4
    <3>2. own' \in [Wallets -> Int] /\ \A w \in Wallets : own'[w] >= 0
      BY <1>1, <2>1, <2>4, <2>5 DEF BookTypes, NoOverdraft
    <3>3. ceiling' \in [Wallets -> Int] /\ receivable' \in [Wallets -> Int]
      BY <1>1, <2>1, <2>4, <2>5, <3>1 DEF BookTypes
    <3>4. repo' \in Int /\ repo' >= 0 /\ merchant' \in Int /\ merchant' >= 0
      BY <1>1, <1>2, <2>1, <2>4 DEF BookTypes, NoOverdraft
    <3> QED
      BY <1>1, <2>1, <3>2, <3>3, <3>4 DEF BookTypes, NoOverdraft
  <2>9. LineConserved'
    BY <1>1, <2>1, <2>3, <2>4, <2>5, AmountAssumption, WalletAssumption DEF BookTypes, LineConserved
  <2>10. RequestTypes'
    BY <1>3, <2>1
  <2> QED
    BY <2>6, <2>7, <2>8, <2>9, <2>10, Zenon DEF IInv
<1>11. ASSUME NEW n \in 1..Amount[p], StaleSave(p, n) PROVE IInv'
  <2>1. n \in Nat
    BY <1>2
  <2>2. UNCHANGED <<purchaseVars, topUpVars, keyVars, lineVars, moneyVars>>
    BY <1>11 DEF StaleSave
  <2>3. PlanTypes'
    BY <1>1, <1>11, <2>1 DEF StaleSave, keyVars, PlanTypes
  <2>4. PurchaseTypes' /\ KeysBounded' /\ PaidInFull' /\ BookTypes' /\ NoOverdraft' /\ LineConserved'
    BY <1>1, <2>2 DEF purchaseVars, keyVars, lineVars, moneyVars, PurchaseTypes, KeysBounded,
                      PaidInFull, BookTypes, NoOverdraft, LineConserved
  <2> QED
    BY <1>3, <2>2, <2>3, <2>4, Zenon DEF IInv
<1> QED
  BY <1>5, <1>6, <1>7, <1>8, <1>9, <1>10, <1>11 DEF PurchaseStep

(* The steps of a wallet, and the payout.                                   *)
LEMMA WalletKeeps ==
  ASSUME IInv, \/ \E w \in Wallets : Absorb(w) \/ Reclaim(w)
               \/ PayOut
  PROVE  IInv'
<1>1. /\ PurchaseTypes /\ RequestTypes /\ BookTypes /\ KeysBounded /\ PlanTypes
      /\ PaidInFull /\ NoOverdraft /\ LineConserved
  BY Zenon DEF IInv
<1>2. ASSUME UNCHANGED <<purchaseVars, topUpVars, draw, funded>>
      PROVE  PurchaseTypes' /\ RequestTypes' /\ KeysBounded' /\ PaidInFull'
  BY <1>1, <1>2 DEF purchaseVars, topUpVars, PurchaseTypes, RequestTypes, KeysBounded, PaidInFull
<1>3. ASSUME NEW w \in Wallets, Absorb(w) PROVE IInv'
  <2>1. PICK n \in Nat :
          /\ ceiling' = [ceiling EXCEPT ![w] = ceiling[w] + n]
          /\ receivable' = [receivable EXCEPT ![w] = receivable[w] - n]
    BY <1>3, DebtType DEF Absorb
  <2>2. /\ repaid' = [p \in Purchases |-> IF p \in Owes(w) THEN repaid[p] + owed[p] ELSE repaid[p]]
        /\ restored' = [p \in Purchases |->
                          IF p \in Owes(w) THEN restored[p] + owed[p] ELSE restored[p]]
        /\ owed' = [p \in Purchases |-> IF p \in Owes(w) THEN 0 ELSE owed[p]]
        /\ UNCHANGED <<purchaseVars, topUpVars, draw, funded, undrawn, canceled, reowed,
                       returned, closed, moneyVars>>
    BY <1>3 DEF Absorb
  <2>3. PlanTypes'
    BY <1>1, <2>2 DEF PlanTypes
  <2>4. PurchaseTypes' /\ RequestTypes' /\ KeysBounded' /\ PaidInFull'
    BY <1>2, <2>2
  <2>5. BookTypes' /\ NoOverdraft'
    BY <1>1, <2>1, <2>2, <2>4 DEF moneyVars, BookTypes, NoOverdraft
  <2>6. LineConserved'
    BY <1>1, <2>1, <2>2, AmountAssumption, WalletAssumption DEF BookTypes, LineConserved
  <2> QED
    BY <2>3, <2>4, <2>5, <2>6, Zenon DEF IInv
<1>4. ASSUME NEW w \in Wallets, Reclaim(w) PROVE IInv'
  <2>1. /\ returned' = [returned EXCEPT ![w] = returned[w] + ceiling[w]]
        /\ ceiling' = [ceiling EXCEPT ![w] = 0] /\ closed' = closed \cup {w}
        /\ UNCHANGED <<purchaseVars, topUpVars, keyVars, planVars, receivable, moneyVars>>
    BY <1>4 DEF Reclaim
  <2>2. PurchaseTypes' /\ RequestTypes' /\ KeysBounded' /\ PaidInFull'
    BY <1>2, <2>1 DEF keyVars
  <2>3. PlanTypes'
    BY <1>1, <2>1 DEF keyVars, planVars, PlanTypes
  <2>4. BookTypes' /\ NoOverdraft'
    BY <1>1, <2>1, <2>2 DEF moneyVars, BookTypes, NoOverdraft
  <2>5. LineConserved'
    BY <1>1, <2>1, AmountAssumption, WalletAssumption DEF BookTypes, LineConserved
  <2> QED
    BY <2>2, <2>3, <2>4, <2>5, Zenon DEF IInv
<1>5. ASSUME PayOut PROVE IInv'
  <2>1. PurchaseTypes' /\ RequestTypes' /\ KeysBounded' /\ PaidInFull'
    BY <1>2, <1>5 DEF PayOut, keyVars
  <2>2. PlanTypes' /\ LineConserved'
    BY <1>1, <1>5 DEF PayOut, keyVars, planVars, lineVars, PlanTypes, LineConserved
  <2>3. BookTypes' /\ NoOverdraft'
    BY <1>1, <1>5, <2>1 DEF PayOut, lineVars, BookTypes, NoOverdraft
  <2> QED
    BY <2>1, <2>2, <2>3, Zenon DEF IInv
<1> QED
  BY <1>3, <1>4, <1>5

(* A stuttering step changes nothing.                                       *)
LEMMA StutterKeeps == IInv /\ UNCHANGED vars => IInv'
<1> SUFFICES ASSUME IInv, UNCHANGED vars PROVE IInv'
  OBVIOUS
<1>1. /\ PurchaseTypes /\ RequestTypes /\ BookTypes /\ KeysBounded /\ PlanTypes
      /\ PaidInFull /\ NoOverdraft /\ LineConserved
  BY Zenon DEF IInv
<1>2. PurchaseTypes' /\ RequestTypes' /\ BookTypes'
  BY <1>1 DEF vars, purchaseVars, topUpVars, keyVars, lineVars, moneyVars, PurchaseTypes,
              RequestTypes, BookTypes
<1>3. KeysBounded' /\ PlanTypes' /\ PaidInFull' /\ NoOverdraft' /\ LineConserved'
  BY <1>1 DEF vars, purchaseVars, keyVars, planVars, lineVars, moneyVars, KeysBounded, PlanTypes,
              PaidInFull, NoOverdraft, LineConserved
<1> QED
  BY <1>2, <1>3, Zenon DEF IInv

(* Every step keeps the invariant.                                          *)
LEMMA NextIInv == IInv /\ [Next]_vars => IInv'
<1> SUFFICES ASSUME IInv, [Next]_vars PROVE IInv'
  OBVIOUS
<1>1. CASE UNCHANGED vars
  BY <1>1, StutterKeeps
<1>2. ASSUME NEW t \in TopUps, RequestStep(t) \/ TopUpStep(t) PROVE IInv'
  BY <1>2, RequestKeeps, TopUpKeeps
<1>3. ASSUME NEW p \in Purchases, PurchaseStep(p) PROVE IInv'
  BY <1>3, PurchaseKeeps
<1>4. CASE (\E w \in Wallets : Absorb(w) \/ Reclaim(w)) \/ PayOut
  BY <1>4, WalletKeeps
<1> QED
  BY <1>1, <1>2, <1>3, <1>4 DEF Next

(* IInv is an invariant of the credit purchases.                            *)
LEMMA Invariance == Spec => []IInv
BY InitIInv, NextIInv, PTL DEF Spec

----------------------------------------------------------------------------
(* Every variable keeps its type, and no top-up is larger than its purchase. *)
THEOREM CreditTypeCorrect == Spec => []TypeOK
BY Invariance, PartsType, PTL

(* No order of draws, top-ups, refunds, repayments and payouts takes a       *)
(* balance below zero.                                                       *)
THEOREM CreditFloorKept == Spec => []NoOverdraft
<1>1. IInv => NoOverdraft
  BY Zenon DEF IInv
<1> QED
  BY <1>1, Invariance, PTL

(* A credit line is never overdrawn, inflated or lost.                       *)
THEOREM CreditLineConserved == Spec => []LineConserved
<1>1. IInv => LineConserved
  BY Zenon DEF IInv
<1> QED
  BY <1>1, Invariance, PTL

(* A settled purchase is paid in full by a wallet that was attached.         *)
THEOREM SettledIsPaid == Spec => []PaidInFull
<1>1. IInv => PaidInFull
  BY Zenon DEF IInv
<1> QED
  BY <1>1, Invariance, PTL

(* A payer is attached once and for all, whatever requests race to attach:   *)
(* attachPurchaseWallet's UPDATE finds only rows without one.                *)
THEOREM PayerStays == Spec => PayerKept
<1> DEFINE Kept == \A p \in Purchases : payer[p] # NoWallet => payer'[p] = payer[p]
<1>1. ASSUME IInv, [Next]_vars PROVE Kept
  <2>1. PurchaseTypes /\ RequestTypes
    BY <1>1, Zenon DEF IInv
  <2>2. ASSUME NEW p \in Purchases, NEW w \in Wallets \cup {NoWallet}, Open(p, w) PROVE Kept
    BY <2>1, <2>2 DEF Open, PurchaseTypes
  <2>3. ASSUME NEW p \in Purchases, NEW w \in Wallets, payer' = Attached(p, w) PROVE Kept
    BY <2>1, <2>3 DEF Attached, PurchaseTypes
  <2>4. ASSUME NEW t \in TopUps, Attach(t) PROVE Kept
    <3>1. topOf[t] \in Purchases /\ chosen[t] \in Wallets
      BY <2>1, <2>4 DEF Attach, Stage, RequestTypes
    <3> QED
      BY <2>3, <2>4, <3>1 DEF Attach
  <2>5. ASSUME NEW p \in Purchases, PurchaseStep(p) PROVE Kept
    BY <2>2, <2>3, <2>5 DEF PurchaseStep, AttachWallet, VerifyPurchase, Settle, CancelPurchase,
                            Refund, Repay, StaleSave, purchaseVars
  <2>6. ASSUME NEW t \in TopUps, RequestStep(t) PROVE Kept
    BY <2>4, <2>6 DEF RequestStep, Quote, Check, TakeRow, Create, GiveUp, purchaseVars
  <2>7. ASSUME NEW t \in TopUps, TopUpStep(t) PROVE Kept
    BY <2>7 DEF TopUpStep, Capture, CompleteTopUp, Settle, CompleteTopUpAlone, RejectTopUp,
                AbortTopUp, CancelTopUp, purchaseVars
  <2>8. CASE (\E w \in Wallets : Absorb(w) \/ Reclaim(w)) \/ PayOut
    BY <2>8 DEF Absorb, Reclaim, PayOut, purchaseVars
  <2>9. CASE UNCHANGED vars
    BY <2>9 DEF vars, purchaseVars
  <2> QED
    BY <1>1, <2>5, <2>6, <2>7, <2>8, <2>9 DEF Next
<1>2. IInv /\ [Next]_vars => [Kept]_vars
  BY <1>1
<1> QED
  BY <1>2, Invariance, PTL DEF Spec, PayerKept

----------------------------------------------------------------------------
(* The ledger balances.                                                     *)

LEMMA OwnType == ASSUME IInv PROVE SumFunctionOnSet(own, Wallets) \in Int
<1>1. IsFiniteSet(Wallets) /\ \A w \in Wallets : own[w] \in Int
  BY FiniteAssumption DEF IInv, BookTypes
<1> QED
  BY <1>1, SumType

(* A step that leaves the customer's own balances alone moves as much into   *)
(* the bank as into the other wallets.                                      *)
LEMMA QuietCash ==
  ASSUME IInv, CashBacksWallets, own' = own, IInv',
         cash' = cash + (repo' - repo) + (support' - support) + (merchant' - merchant)
  PROVE  CashBacksWallets'
<1> DEFINE total == SumFunctionOnSet(own, Wallets)
<1>1. total \in Int
  BY OwnType
<1>2. /\ repo \in Int /\ support \in Int /\ merchant \in Int /\ cash \in Int
      /\ repo' \in Int /\ support' \in Int /\ merchant' \in Int /\ cash' \in Int
  BY DEF IInv, BookTypes
<1>3. cash = repo + support + merchant + total
  BY DEF CashBacksWallets
<1>4. SumFunctionOnSet(own', Wallets) = total
  OBVIOUS
<1> HIDE DEF total
<1>5. cash' = repo' + support' + merchant' + total
  BY <1>1, <1>2, <1>3
<1> QED
  BY <1>4, <1>5 DEF CashBacksWallets

(* A refund hands its price out in two parts.                               *)
LEMMA RefundCash ==
  ASSUME IInv, IInv', CashBacksWallets, NEW p \in Purchases, Refund(p)
  PROVE  CashBacksWallets'
<1> DEFINE total == SumFunctionOnSet(own, Wallets)
           back  == Unrepaid(p)
<1>1. /\ status[p] = "COMPLETED" /\ merchant' = merchant - Amount[p] /\ repo' = repo + back
      /\ own' = [own EXCEPT ![payer[p]] = own[payer[p]] + (Amount[p] - back)]
      /\ UNCHANGED <<support, cash>>
  BY DEF Refund, CustomerShare
<1>2. payer[p] \in Wallets
  BY <1>1 DEF IInv, PaidInFull
<1>3. Unrepaid(p) \in 0..draw[p] /\ draw[p] \in Nat
  BY UnrepaidBounded DEF IInv, KeysBounded, PlanTypes
<1>4. total \in Int
  BY OwnType
<1>5. /\ repo \in Int /\ support \in Int /\ merchant \in Int /\ cash \in Int
      /\ own \in [Wallets -> Int] /\ own' \in [Wallets -> Int]
  BY DEF IInv, BookTypes
<1>6. cash = repo + support + merchant + total
  BY DEF CashBacksWallets
<1>7. back \in Int /\ Amount[p] \in Int
  BY <1>3, AmountAssumption
<1> HIDE DEF back
<1>8. own'[payer[p]] - own[payer[p]] = Amount[p] - back
  BY <1>1, <1>2, <1>5, <1>7
<1>9. /\ IsFiniteSet(Wallets) /\ \A w \in Wallets : own[w] \in Int /\ own'[w] \in Int
      /\ \A w \in Wallets \ {payer[p]} : own'[w] = own[w]
  BY <1>1, <1>5, FiniteAssumption
<1>10. SumFunctionOnSet(own', Wallets) = total + own'[payer[p]] - own[payer[p]]
  BY <1>2, <1>9, SumChange
<1> HIDE DEF total
<1>11. own'[payer[p]] \in Int /\ own[payer[p]] \in Int
  BY <1>2, <1>5
<1>12. cash' = repo' + support' + merchant' + (total + own'[payer[p]] - own[payer[p]])
  BY <1>1, <1>4, <1>5, <1>6, <1>7, <1>8, <1>11
<1> QED
  BY <1>10, <1>12, Zenon DEF CashBacksWallets

(* A settlement moves its price from the repository and f to the merchant.  *)
LEMMA SettleMoves ==
  ASSUME NEW p \in Purchases, NEW f \in Int, Settle(p, f)
  PROVE  /\ repo' = repo - (Amount[p] - f) /\ merchant' = merchant + Amount[p]
         /\ own' = own /\ Amount[p] \in Int
BY AmountAssumption DEF Settle

LEMMA NextCash ==
  ASSUME IInv, IInv', CashBacksWallets, [Next]_vars
  PROVE  CashBacksWallets'
<1>1. /\ repo \in Int /\ support \in Int /\ merchant \in Int /\ cash \in Int
      /\ PurchaseTypes /\ RequestTypes
  BY DEF IInv, BookTypes
<1>2. ASSUME UNCHANGED <<own, cash, repo, support, merchant>> PROVE CashBacksWallets'
  BY <1>2, Zenon DEF CashBacksWallets
<1>3. ASSUME NEW t \in TopUps, CompleteTopUp(t) PROVE CashBacksWallets'
  <2> DEFINE p == topOf[t]
  <2>1. /\ stage[t] # "idle" /\ Settle(p, shortfall[t])
        /\ support' = CreditSupport(t) - shortfall[t]
        /\ cash' = cash + CreditSupport(t) - support
    BY <1>3 DEF CompleteTopUp
  <2>2. p \in Purchases /\ shortfall[t] \in Int
    BY <1>1, <2>1 DEF RequestTypes
  <2>3. CreditSupport(t) \in Int
    BY <1>1, <2>2 DEF CreditSupport
  <2>4. /\ repo' = repo - (Amount[p] - shortfall[t]) /\ merchant' = merchant + Amount[p]
        /\ own' = own /\ Amount[p] \in Int
    BY <2>1, <2>2, SettleMoves
  <2>5. cash' = cash + (repo' - repo) + (support' - support) + (merchant' - merchant)
    BY <1>1, <2>1, <2>2, <2>3, <2>4
  <2> QED
    BY <2>4, <2>5, QuietCash
<1>4. ASSUME NEW t \in TopUps, CompleteTopUpAlone(t) PROVE CashBacksWallets'
  <2>1. /\ support' = CreditSupport(t) /\ cash' = cash + CreditSupport(t) - support
        /\ UNCHANGED <<own, repo, merchant>>
    BY <1>4 DEF CompleteTopUpAlone
  <2>2. support' \in Int
    BY DEF IInv, BookTypes
  <2>3. cash' = cash + (repo' - repo) + (support' - support) + (merchant' - merchant)
    BY <1>1, <2>1, <2>2
  <2> QED
    BY <2>1, <2>3, QuietCash
<1>5. ASSUME NEW t \in TopUps, RequestStep(t) \/ TopUpStep(t) PROVE CashBacksWallets'
  BY <1>2, <1>3, <1>4, <1>5 DEF RequestStep, Quote, Attach, Check, TakeRow, Create, GiveUp,
     TopUpStep, Capture, RejectTopUp, AbortTopUp, CancelTopUp, moneyVars
<1>6. ASSUME NEW p \in Purchases, VerifyPurchase(p) PROVE CashBacksWallets'
  <2>1. Settle(p, 0) /\ UNCHANGED <<support, cash>>
    BY <1>6 DEF VerifyPurchase
  <2>2. /\ repo' = repo - (Amount[p] - 0) /\ merchant' = merchant + Amount[p]
        /\ own' = own /\ Amount[p] \in Int
    BY <2>1, SettleMoves
  <2>3. cash' = cash + (repo' - repo) + (support' - support) + (merchant' - merchant)
    BY <1>1, <2>1, <2>2
  <2> QED
    BY <2>2, <2>3, QuietCash
<1>7. ASSUME NEW p \in Purchases, NEW n \in 1..Amount[p], Repay(p, n) PROVE CashBacksWallets'
  <2>1. n \in Int
    BY AmountAssumption
  <2>2. cash' = cash + (repo' - repo) + (support' - support) + (merchant' - merchant)
    BY <1>1, <1>7, <2>1 DEF Repay
  <2>3. own' = own
    BY <1>7 DEF Repay
  <2> QED
    BY <2>2, <2>3, QuietCash
<1>8. ASSUME NEW p \in Purchases, PurchaseStep(p) PROVE CashBacksWallets'
  BY <1>2, <1>6, <1>7, <1>8, RefundCash DEF PurchaseStep, Open, AttachWallet, CancelPurchase,
     StaleSave, moneyVars
<1>9. CASE PayOut
  <2>1. cash' = cash + (repo' - repo) + (support' - support) + (merchant' - merchant)
    BY <1>1, <1>9 DEF PayOut
  <2> QED
    BY <1>9, <2>1, QuietCash DEF PayOut
<1>10. CASE (\E w \in Wallets : Absorb(w) \/ Reclaim(w)) \/ UNCHANGED vars
  BY <1>2, <1>10 DEF Absorb, Reclaim, moneyVars, vars
<1> QED
  BY <1>5, <1>8, <1>9, <1>10 DEF Next

(* BANK_CASH is what the repository, the support wallet, the merchant and    *)
(* the customer's wallets hold together, for any number of wallets.         *)
THEOREM LedgerBalances == Spec => []CashBacksWallets
<1>1. Init => CashBacksWallets
  <2> SUFFICES ASSUME Init PROVE CashBacksWallets
    OBVIOUS
  <2>1. IsFiniteSet(Wallets) /\ \A w \in Wallets : own[w] = 0
    BY FiniteAssumption DEF Init
  <2>2. SumFunctionOnSet(own, Wallets) = 0
    BY <2>1, SumOfZeros
  <2> QED
    BY <2>2, AmountAssumption DEF Init, CashBacksWallets
<1>2. IInv /\ IInv' /\ CashBacksWallets /\ [Next]_vars => CashBacksWallets'
  BY NextCash
<1> QED
  BY <1>1, <1>2, Invariance, PTL DEF Spec

----------------------------------------------------------------------------
(* The support wallet.                                                      *)

(* What t has paid into the support wallet: its shortfall, once COMPLETED.   *)
PaidUp == [t \in TopUps |-> IF stage[t] = "COMPLETED" THEN shortfall[t] ELSE 0]

LEMMA PaidUpAddsUp ==
  ASSUME RequestTypes
  PROVE  SumFunctionOnSet(shortfall, {t \in TopUps : stage[t] = "COMPLETED"})
           = SumFunctionOnSet(PaidUp, TopUps)
<1> DEFINE done == {t \in TopUps : stage[t] = "COMPLETED"}
<1>1. \A t \in done : shortfall[t] \in Int /\ PaidUp[t] = shortfall[t]
  BY DEF RequestTypes, PaidUp
<1>2. \A t \in TopUps \ done : PaidUp[t] = 0
  BY DEF PaidUp
<1>3. IsFiniteSet(TopUps) /\ done \in SUBSET TopUps
  BY FiniteAssumption
<1> HIDE DEF done
<1>4. SumFunctionOnSet(shortfall, done) = SumFunctionOnSet(PaidUp, TopUps)
  BY <1>1, <1>2, <1>3, SumRestricted
<1> QED
  BY <1>4 DEF done

(* The equation in terms of sums over all top-ups and purchases.            *)
LEMMA SupportForm ==
  ASSUME RequestTypes
  PROVE  SupportExplained <=> support = SumFunctionOnSet(PaidUp, TopUps)
                                        - SumFunctionOnSet(funded, Purchases)
BY PaidUpAddsUp, Zenon DEF SupportExplained

LEMMA SupportSumsType ==
  ASSUME IInv
  PROVE  /\ SumFunctionOnSet(PaidUp, TopUps) \in Int /\ SumFunctionOnSet(funded, Purchases) \in Int
         /\ \A t \in TopUps : PaidUp[t] \in Int
         /\ \A p \in Purchases : funded[p] \in Int
<1>1. /\ IsFiniteSet(TopUps) /\ \A t \in TopUps : PaidUp[t] \in Int
      /\ IsFiniteSet(Purchases) /\ \A p \in Purchases : funded[p] \in Int
  BY FiniteAssumption DEF IInv, RequestTypes, KeysBounded, PaidUp
<1> QED
  BY <1>1, SumType

(* One top-up pays in c and one purchase is funded with f.                  *)
LEMMA SupportMoves ==
  ASSUME IInv, IInv', SupportExplained, NEW t \in TopUps, NEW p \in Purchases,
         NEW c \in Int, NEW f \in Int,
         \A u \in TopUps \ {t} : PaidUp'[u] = PaidUp[u],
         \A q \in Purchases \ {p} : funded'[q] = funded[q],
         PaidUp'[t] = PaidUp[t] + c, funded'[p] = funded[p] + f, support' = support + c - f
  PROVE  SupportExplained'
<1> DEFINE in  == SumFunctionOnSet(PaidUp, TopUps)
           out == SumFunctionOnSet(funded, Purchases)
<1>1. /\ in \in Int /\ out \in Int /\ PaidUp[t] \in Int /\ funded[p] \in Int
      /\ \A u \in TopUps : PaidUp[u] \in Int
      /\ \A q \in Purchases : funded[q] \in Int
  BY SupportSumsType
<1>2. (\A u \in TopUps : PaidUp[u] \in Int)' /\ (\A q \in Purchases : funded[q] \in Int)'
  BY DEF IInv, RequestTypes, KeysBounded, PaidUp
<1>3. IsFiniteSet(TopUps) /\ IsFiniteSet(Purchases)
  BY FiniteAssumption
<1>4. RequestTypes /\ RequestTypes' /\ support \in Int
  BY DEF IInv, BookTypes
<1>5. support = in - out
  BY <1>4, SupportForm
<1> HIDE DEF PaidUp
<1>6. SumFunctionOnSet(PaidUp', TopUps) = in + PaidUp'[t] - PaidUp[t]
  BY <1>1, <1>2, <1>3, SumChange
<1>7. SumFunctionOnSet(funded', Purchases) = out + funded'[p] - funded[p]
  BY <1>1, <1>2, <1>3, SumChange
<1> HIDE DEF in, out
<1>8. support' = (in + PaidUp'[t] - PaidUp[t]) - (out + funded'[p] - funded[p])
  BY <1>1, <1>4, <1>5
<1>9. support' = SumFunctionOnSet(PaidUp', TopUps) - SumFunctionOnSet(funded', Purchases)
  BY <1>6, <1>7, <1>8, Zenon
<1>10. (RequestTypes => (SupportExplained <=>
          support = SumFunctionOnSet(PaidUp, TopUps) - SumFunctionOnSet(funded, Purchases)))'
  BY SupportForm, PTL
<1> QED
  BY <1>4, <1>9, <1>10, Zenon

(* A step that completes no top-up and funds no purchase.                   *)
LEMMA QuietSupport ==
  ASSUME IInv, IInv', SupportExplained, UNCHANGED <<support, funded>>,
         \A t \in TopUps : PaidUp'[t] = PaidUp[t]
  PROVE  SupportExplained'
<1>1. RequestTypes /\ RequestTypes' /\ IsFiniteSet(TopUps)
  BY FiniteAssumption DEF IInv
<1>2. SumFunctionOnSet(PaidUp', TopUps) = SumFunctionOnSet(PaidUp, TopUps)
  BY <1>1, SumCongruence, Zenon
<1>3. support' = SumFunctionOnSet(PaidUp', TopUps) - SumFunctionOnSet(funded', Purchases)
  BY <1>1, <1>2, SupportForm, Zenon
<1>4. (RequestTypes => (SupportExplained <=>
          support = SumFunctionOnSet(PaidUp, TopUps) - SumFunctionOnSet(funded, Purchases)))'
  BY SupportForm, PTL
<1> QED
  BY <1>1, <1>3, <1>4, Zenon

LEMMA NextSupport ==
  ASSUME IInv, IInv', SupportExplained, [Next]_vars
  PROVE  SupportExplained'
<1>1. /\ support \in Int /\ PurchaseTypes /\ RequestTypes /\ KeysBounded
      /\ funded \in [Purchases -> Nat]
  BY DEF IInv, BookTypes, KeysBounded
<1>2. ASSUME NEW t \in TopUps, CompleteTopUp(t) PROVE SupportExplained'
  <2> DEFINE p == topOf[t]
             f == shortfall[t]
             c == IF stage[t] = "COMPLETED" THEN 0 ELSE f
  <2>1. /\ stage[t] \in {"paid", "COMPLETED"} /\ Settle(p, f)
        /\ stage' = [stage EXCEPT ![t] = "COMPLETED"] /\ shortfall' = shortfall
        /\ support' = CreditSupport(t) - f
    BY <1>2 DEF CompleteTopUp
  <2>2. p \in Purchases /\ f \in Int
    BY <1>1, <2>1 DEF RequestTypes
  <2>3. funded' = [funded EXCEPT ![p] = funded[p] + f]
    BY <2>1 DEF Settle
  <2>4. funded'[p] = funded[p] + f /\ \A q \in Purchases \ {p} : funded'[q] = funded[q]
    BY <1>1, <2>2, <2>3
  <2>5. c \in Int /\ support' = support + c - f
    BY <1>1, <2>1, <2>2 DEF CreditSupport
  <2>6. \A u \in TopUps \ {t} : PaidUp'[u] = PaidUp[u]
    BY <1>1, <2>1 DEF PaidUp, RequestTypes
  <2>7. PaidUp'[t] = PaidUp[t] + c
    BY <1>1, <2>1, <2>2 DEF PaidUp, RequestTypes
  <2> HIDE DEF p, f, c
  <2> QED
    BY <2>2, <2>4, <2>5, <2>6, <2>7, SupportMoves
<1>3. ASSUME NEW t \in TopUps, CompleteTopUpAlone(t) PROVE SupportExplained'
  <2> DEFINE p == topOf[t]
             c == shortfall[t]
  <2>1. /\ stage[t] = "paid" /\ stage' = [stage EXCEPT ![t] = "COMPLETED"]
        /\ shortfall' = shortfall /\ funded' = funded /\ support' = CreditSupport(t)
    BY <1>3 DEF CompleteTopUpAlone, Stage, keyVars
  <2>2. p \in Purchases /\ c \in Int
    BY <1>1, <2>1 DEF RequestTypes
  <2>3. funded'[p] = funded[p] + 0 /\ \A q \in Purchases \ {p} : funded'[q] = funded[q]
    BY <1>1, <2>1, <2>2
  <2>4. support' = support + c - 0
    BY <1>1, <2>1, <2>2 DEF CreditSupport
  <2>5. \A u \in TopUps \ {t} : PaidUp'[u] = PaidUp[u]
    BY <1>1, <2>1 DEF PaidUp, RequestTypes
  <2>6. PaidUp'[t] = PaidUp[t] + c
    BY <1>1, <2>1, <2>2 DEF PaidUp, RequestTypes
  <2> HIDE DEF p, c
  <2> QED
    BY <2>2, <2>3, <2>4, <2>5, <2>6, SupportMoves
<1>4. ASSUME NEW t \in TopUps, NEW from \in Stages \ {"COMPLETED"},
             NEW to \in Stages \ {"COMPLETED"}, Stage(t, from, to), support' = support
      PROVE  SupportExplained'
  <2>1. stage[t] = from /\ stage' = [stage EXCEPT ![t] = to] /\ UNCHANGED <<shortfall, funded>>
    BY <1>4 DEF Stage, keyVars
  <2>2. \A u \in TopUps : PaidUp'[u] = PaidUp[u]
    BY <1>1, <2>1 DEF PaidUp, RequestTypes
  <2> QED
    BY <1>4, <2>1, <2>2, QuietSupport
<1>5. ASSUME UNCHANGED <<topUpVars, support, funded>> PROVE SupportExplained'
  BY <1>5, QuietSupport DEF PaidUp, topUpVars
<1>6. ASSUME NEW t \in TopUps, NEW p \in Purchases, NEW w \in Wallets, Quote(t, p, w)
      PROVE  SupportExplained'
  <2>1. /\ stage[t] = "idle" /\ stage' = [stage EXCEPT ![t] = "quoted"]
        /\ \A u \in TopUps \ {t} : shortfall'[u] = shortfall[u]
        /\ UNCHANGED <<support, funded>>
    BY <1>1, <1>6 DEF Quote, RequestTypes, keyVars, moneyVars
  <2>2. \A u \in TopUps : PaidUp'[u] = PaidUp[u]
    BY <1>1, <2>1 DEF PaidUp, RequestTypes
  <2> QED
    BY <2>1, <2>2, QuietSupport
<1>7. ASSUME NEW t \in TopUps, RequestStep(t) PROVE SupportExplained'
  <2>1. CASE Attach(t) \/ GiveUp(t)
    <3>1. /\ UNCHANGED <<support, funded>>
          /\ stage[t] # "COMPLETED" /\ stage'[t] # "COMPLETED"
          /\ \A u \in TopUps \ {t} : stage'[u] = stage[u] /\ shortfall'[u] = shortfall[u]
      BY <1>1, <2>1 DEF Attach, GiveUp, RequestTypes, keyVars, moneyVars
    <3>2. \A u \in TopUps : PaidUp'[u] = PaidUp[u]
      BY <3>1 DEF PaidUp
    <3> QED
      BY <3>1, <3>2, QuietSupport
  <2> QED
    BY <1>4, <1>6, <1>7, <2>1 DEF RequestStep, Check, TakeRow, Create, Stages, moneyVars
<1>8. ASSUME NEW t \in TopUps, TopUpStep(t) PROVE SupportExplained'
  BY <1>2, <1>3, <1>4, <1>8 DEF TopUpStep, Capture, RejectTopUp, AbortTopUp, CancelTopUp, Stages,
                                moneyVars
<1>9. ASSUME NEW p \in Purchases, VerifyPurchase(p) PROVE SupportExplained'
  <2>1. funded' = [funded EXCEPT ![p] = funded[p] + 0] /\ UNCHANGED <<topUpVars, support>>
    BY <1>9 DEF VerifyPurchase, Settle
  <2>2. funded' = funded
    BY <1>1, <2>1
  <2> QED
    BY <1>5, <2>1, <2>2
<1>10. ASSUME NEW p \in Purchases, PurchaseStep(p) PROVE SupportExplained'
  BY <1>5, <1>9, <1>10 DEF PurchaseStep, Open, AttachWallet, CancelPurchase, Refund, Repay,
                           StaleSave, keyVars, moneyVars
<1>11. CASE (\E w \in Wallets : Absorb(w) \/ Reclaim(w)) \/ PayOut \/ UNCHANGED vars
  BY <1>5, <1>11 DEF Absorb, Reclaim, PayOut, keyVars, moneyVars, vars
<1> QED
  BY <1>7, <1>8, <1>10, <1>11 DEF Next

(* The support wallet holds what completed top-ups paid in less what they    *)
(* funded, whatever is completed twice, alone or after a reversal.          *)
THEOREM SupportAddsUp == Spec => []SupportExplained
<1>1. Init => SupportExplained
  <2> SUFFICES ASSUME Init PROVE SupportExplained
    OBVIOUS
  <2>1. /\ IsFiniteSet(TopUps) /\ \A t \in TopUps : PaidUp[t] = 0
        /\ IsFiniteSet(Purchases) /\ \A p \in Purchases : funded[p] = 0
    BY FiniteAssumption DEF Init, PaidUp
  <2>2. SumFunctionOnSet(PaidUp, TopUps) = 0 /\ SumFunctionOnSet(funded, Purchases) = 0
    BY <2>1, SumOfZeros
  <2>3. RequestTypes /\ support = 0 - 0
    BY InitIInv DEF Init, IInv
  <2> QED
    BY <2>2, <2>3, SupportForm, Zenon
<1>2. IInv /\ IInv' /\ SupportExplained /\ [Next]_vars => SupportExplained'
  BY NextSupport
<1> QED
  BY <1>1, <1>2, Invariance, PTL DEF Spec

----------------------------------------------------------------------------
(* The records of a line.                                                   *)

(* A purchase without a payer has no rows.                                  *)
Unattached ==
  \A p \in Purchases :
    payer[p] = NoWallet => draw[p] = 0 /\ restored[p] = 0 /\ undrawn[p] = 0
                           /\ owed[p] = 0 /\ canceled[p] = 0 /\ repaid[p] = 0

RowsBounded == \A p \in Purchases : restored[p] <= draw[p] /\ undrawn[p] <= draw[p]

(* What may still be restored for a purchase was drawn for it.              *)
PlanCovered ==
  \A p \in Purchases : owed[p] + canceled[p] + restored[p] <= draw[p] /\ undrawn[p] <= draw[p]

LEMMA CoveredBounds == ASSUME IInv, PlanCovered PROVE RowsBounded
BY DEF IInv, PlanTypes, KeysBounded, PlanCovered, RowsBounded

(* What each purchase has out on the line w.                                *)
OutOn(w) == [p \in Purchases |-> IF payer[p] = w THEN Out[p] ELSE 0]

Total(w) == SumFunctionOnSet(OutOn(w), Purchases)

Agrees(w) == /\ ceiling[w] = Granted[w] - Total(w) - returned[w]
             /\ w \in Planned => receivable[w] = Total(w)

LinesAgree == \A w \in Wallets : Agrees(w)

LEMMA OutType ==
  ASSUME IInv, NEW w
  PROVE  /\ \A p \in Purchases : Out[p] \in Int /\ OutOn(w)[p] \in Int
         /\ IsFiniteSet(Purchases) /\ Total(w) \in Int
<1>1. draw \in [Purchases -> Nat] /\ restored \in [Purchases -> Nat] /\ undrawn \in [Purchases -> Nat]
  BY DEF IInv, KeysBounded, PlanTypes
<1>2. \A p \in Purchases : Out[p] \in Int /\ OutOn(w)[p] \in Int
  BY <1>1 DEF Out, OutOn
<1>3. IsFiniteSet(Purchases)
  BY FiniteAssumption
<1> QED
  BY <1>2, <1>3, SumType DEF Total

LEMMA LineForm ==
  ASSUME IInv
  PROVE  LineExplained <=> LinesAgree /\ RowsBounded
<1>1. ASSUME NEW w \in Wallets
      PROVE  SumFunctionOnSet(Out, {p \in Purchases : payer[p] = w}) = Total(w)
  <2> DEFINE bought == {p \in Purchases : payer[p] = w}
  <2>1. /\ \A p \in bought : Out[p] \in Int /\ OutOn(w)[p] = Out[p]
        /\ \A p \in Purchases \ bought : OutOn(w)[p] = 0
    BY OutType DEF OutOn
  <2>2. IsFiniteSet(Purchases) /\ bought \in SUBSET Purchases
    BY FiniteAssumption
  <2> HIDE DEF bought
  <2>3. SumFunctionOnSet(Out, bought) = SumFunctionOnSet(OutOn(w), Purchases)
    BY <2>1, <2>2, SumRestricted
  <2> QED
    BY <2>3 DEF bought, Total
<1> QED
  BY <1>1, Zenon DEF LineExplained, LinesAgree, Agrees, RowsBounded

(* A step that leaves lines and rows alone, whoever it attaches.            *)
LEMMA QuietLines ==
  ASSUME LinesAgree, UNCHANGED <<ceiling, receivable, returned>>,
         \A w \in Wallets : \A p \in Purchases : OutOn(w)'[p] = OutOn(w)[p]
  PROVE  LinesAgree'
<1> SUFFICES ASSUME NEW w \in Wallets PROVE Agrees(w)'
  BY DEF LinesAgree
<1>1. Total(w)' = Total(w)
  BY FiniteAssumption, SumCongruence, Zenon DEF Total
<1>2. Agrees(w)
  BY Zenon DEF LinesAgree
<1> QED
  BY <1>1, <1>2, Zenon DEF Agrees

(* A step on the rows of one purchase that moves its line by as much.       *)
LEMMA OneLine ==
  ASSUME IInv, IInv', LinesAgree, NEW p \in Purchases, payer[p] \in Wallets, NEW n \in Int,
         UNCHANGED <<payer, returned>>,
         Out'[p] = Out[p] + n, \A q \in Purchases \ {p} : Out'[q] = Out[q],
         \A w \in Wallets : ceiling'[w] = ceiling[w] - (IF payer[p] = w THEN n ELSE 0),
         \A w \in Planned : receivable'[w] = receivable[w] + (IF payer[p] = w THEN n ELSE 0)
  PROVE  LinesAgree'
<1> SUFFICES ASSUME NEW w \in Wallets PROVE Agrees(w)'
  BY DEF LinesAgree
<1> DEFINE more == IF payer[p] = w THEN n ELSE 0
<1>1. /\ \A q \in Purchases : OutOn(w)[q] \in Int
      /\ IsFiniteSet(Purchases) /\ Total(w) \in Int /\ Out[p] \in Int
  BY OutType
<1>2. \A q \in Purchases \ {p} : OutOn(w)'[q] = OutOn(w)[q]
  BY DEF OutOn
<1>3. OutOn(w)'[p] = OutOn(w)[p] + more /\ more \in Int
  BY <1>1 DEF OutOn
<1>4. \A q \in Purchases : OutOn(w)'[q] \in Int
  BY <1>1, <1>2, <1>3
<1>5. Total(w)' = Total(w) + OutOn(w)'[p] - OutOn(w)[p]
  BY <1>1, <1>2, <1>4, SumChange DEF Total
<1>6. OutOn(w)[p] \in Int /\ OutOn(w)'[p] \in Int
  BY <1>1, <1>4
<1>7. BookTypes /\ Granted[w] \in Int
  BY AmountAssumption DEF IInv
<1>8. ceiling'[w] = ceiling[w] - more
  OBVIOUS
<1>9. w \in Planned => receivable'[w] = receivable[w] + more
  OBVIOUS
<1>10. Agrees(w)
  BY Zenon DEF LinesAgree
<1>11. Total(w)' = Total(w) + more
  BY <1>1, <1>3, <1>5, <1>6
<1>12. ceiling[w] \in Int /\ returned[w] \in Int /\ receivable[w] \in Int
  BY <1>7 DEF BookTypes
<1> HIDE DEF more
<1> QED
  BY <1>1, <1>3, <1>7, <1>8, <1>9, <1>10, <1>11, <1>12 DEF Agrees

(* A settlement draws what the support money does not pay.                  *)
LEMMA SettleLine ==
  ASSUME IInv, IInv', LinesAgree, NEW p \in Purchases, NEW f \in Int, payer[p] \in Wallets,
         Settle(p, f)
  PROVE  LinesAgree'
<1> DEFINE rest == Amount[p] - f
<1>1. /\ receivable' = [receivable EXCEPT ![payer[p]] = receivable[payer[p]] + rest]
      /\ ceiling' = [ceiling EXCEPT ![payer[p]] = ceiling[payer[p]] - rest]
      /\ draw' = [draw EXCEPT ![p] = draw[p] + rest]
      /\ UNCHANGED <<payer, returned, restored, undrawn>> /\ rest \in Int
  BY AmountAssumption DEF Settle
<1>2. /\ receivable \in [Wallets -> Int] /\ draw \in [Purchases -> Nat]
      /\ restored \in [Purchases -> Nat] /\ undrawn \in [Purchases -> Nat]
      /\ ceiling \in [Wallets -> Int]
  BY DEF IInv, BookTypes, KeysBounded, PlanTypes
<1> HIDE DEF rest
<1>3. Out'[p] = Out[p] + rest /\ \A q \in Purchases \ {p} : Out'[q] = Out[q]
  BY <1>1, <1>2 DEF Out
<1>4. /\ \A w \in Planned : receivable'[w] = receivable[w] + (IF payer[p] = w THEN rest ELSE 0)
      /\ \A w \in Wallets : ceiling'[w] = ceiling[w] - (IF payer[p] = w THEN rest ELSE 0)
  BY <1>1, <1>2, WalletAssumption
<1> QED
  BY <1>1, <1>3, <1>4, OneLine

(* Only a purchase with a payer has something to pay back.                  *)
LEMMA RepayLine ==
  ASSUME IInv, IInv', LinesAgree, Unattached, NEW p \in Purchases, NEW n \in 1..Amount[p],
         Repay(p, n)
  PROVE  LinesAgree'
<1>1. /\ receivable' = [receivable EXCEPT ![payer[p]] = receivable[payer[p]] - n]
      /\ ceiling' = [ceiling EXCEPT ![payer[p]] = ceiling[payer[p]] + n]
      /\ restored' = [restored EXCEPT ![p] = restored[p] + n]
      /\ UNCHANGED <<payer, returned, draw, undrawn>>
      /\ n <= owed[p] \/ n <= canceled[p]
  BY DEF Repay, MarkPaid, purchaseVars
<1>2. /\ receivable \in [Wallets -> Int] /\ draw \in [Purchases -> Nat]
      /\ restored \in [Purchases -> Nat] /\ undrawn \in [Purchases -> Nat]
      /\ payer[p] \in Wallets \cup {NoWallet} /\ ceiling \in [Wallets -> Int]
  BY DEF IInv, BookTypes, KeysBounded, PlanTypes, PurchaseTypes
<1>3. n \in Int /\ n > 0
  BY AmountAssumption
<1>4. payer[p] \in Wallets
  BY <1>1, <1>2, <1>3 DEF Unattached
<1>5. Out'[p] = Out[p] + (-n) /\ \A q \in Purchases \ {p} : Out'[q] = Out[q]
  BY <1>1, <1>2, <1>3 DEF Out
<1>6. \A w \in Planned : receivable'[w] = receivable[w] + (IF payer[p] = w THEN -n ELSE 0)
  BY <1>1, <1>2, <1>3, WalletAssumption
<1>7. /\ \A w \in Wallets : ceiling'[w] = ceiling[w] - (IF payer[p] = w THEN -n ELSE 0)
      /\ -n \in Int
  BY <1>1, <1>2, <1>3, <1>4
<1> QED
  BY <1>1, <1>4, <1>5, <1>6, <1>7, OneLine

(* A refund writes the row of what it gives back to the line.               *)
LEMMA RefundLine ==
  ASSUME IInv, IInv', LinesAgree, NEW p \in Purchases, Refund(p)
  PROVE  LinesAgree'
<1> DEFINE back == Unrepaid(p)
<1>1. /\ status[p] = "COMPLETED"
      /\ receivable' = [receivable EXCEPT ![payer[p]] = receivable[payer[p]] - Forgiven(p)]
      /\ ceiling' = [ceiling EXCEPT ![payer[p]] = ceiling[payer[p]] + back]
      /\ undrawn' = [undrawn EXCEPT ![p] = undrawn[p] + back]
      /\ UNCHANGED <<payer, returned, draw, restored>>
  BY DEF Refund
<1>2. /\ receivable \in [Wallets -> Int] /\ draw \in [Purchases -> Nat]
      /\ restored \in [Purchases -> Nat] /\ undrawn \in [Purchases -> Nat]
      /\ repaid \in [Purchases -> Nat] /\ ceiling \in [Wallets -> Int]
  BY DEF IInv, BookTypes, KeysBounded, PlanTypes
<1>3. payer[p] \in Wallets
  BY <1>1 DEF IInv, PaidInFull
<1>4. Unrepaid(p) \in 0..draw[p]
  BY <1>2, UnrepaidBounded
<1>5. Forgiven(p) = IF payer[p] \in Planned THEN back ELSE 0
  BY DEF Forgiven
<1>6. back \in Int
  BY <1>2, <1>4
<1> HIDE DEF back
<1>7. Out'[p] = Out[p] + (-back) /\ \A q \in Purchases \ {p} : Out'[q] = Out[q]
  BY <1>1, <1>2, <1>6 DEF Out
<1>8. \A w \in Planned : receivable'[w] = receivable[w] + (IF payer[p] = w THEN -back ELSE 0)
  BY <1>1, <1>2, <1>5, <1>6, WalletAssumption
<1>9. /\ \A w \in Wallets : ceiling'[w] = ceiling[w] - (IF payer[p] = w THEN -back ELSE 0)
      /\ -back \in Int
  BY <1>1, <1>2, <1>3, <1>6
<1> QED
  BY <1>1, <1>3, <1>7, <1>8, <1>9, OneLine

(* The repository absorbs what one wallet owes.                             *)
LEMMA AbsorbLine ==
  ASSUME IInv, IInv', LinesAgree, NEW v \in Wallets, Absorb(v)
  PROVE  LinesAgree'
<1> DEFINE n == SumFunctionOnSet(owed, Owes(v))
           gone == [p \in Purchases |-> IF p \in Owes(v) THEN owed[p] ELSE 0]
<1>1. /\ receivable' = [receivable EXCEPT ![v] = receivable[v] - n]
      /\ ceiling' = [ceiling EXCEPT ![v] = ceiling[v] + n]
      /\ restored' = [p \in Purchases |-> IF p \in Owes(v) THEN restored[p] + owed[p] ELSE restored[p]]
      /\ UNCHANGED <<payer, returned, draw, undrawn>>
  BY DEF Absorb, purchaseVars
<1>2. /\ receivable \in [Wallets -> Int] /\ ceiling \in [Wallets -> Int]
      /\ draw \in [Purchases -> Nat] /\ restored \in [Purchases -> Nat]
      /\ undrawn \in [Purchases -> Nat] /\ owed \in [Purchases -> Nat]
  BY DEF IInv, BookTypes, KeysBounded, PlanTypes
<1>3. IsFiniteSet(Purchases)
  BY FiniteAssumption
<1>4. n = SumFunctionOnSet(gone, Purchases)
  <2>1. /\ \A p \in Owes(v) : owed[p] \in Int /\ gone[p] = owed[p]
        /\ \A p \in Purchases \ Owes(v) : gone[p] = 0
        /\ Owes(v) \in SUBSET Purchases
    BY <1>2 DEF Owes
  <2> HIDE DEF gone
  <2> QED
    BY <1>3, <2>1, SumRestricted
<1>5. n \in Int
  BY DebtType
<1> SUFFICES ASSUME NEW w \in Wallets PROVE Agrees(w)'
  BY DEF LinesAgree
<1>6. /\ Agrees(w) /\ returned[w] \in Int /\ Granted[w] \in Int /\ Total(w) \in Int
  BY AmountAssumption, OutType DEF LinesAgree, IInv, BookTypes
<1>7. CASE w = v
  <2>1. \A p \in Purchases : /\ OutOn(v)'[p] \in Int /\ gone[p] \in Int
                             /\ OutOn(v)[p] = OutOn(v)'[p] + gone[p]
    BY <1>1, <1>2 DEF OutOn, Out, Owes
  <2>2. SumFunctionOnSet(OutOn(v)', Purchases) \in Int
    BY <1>3, <2>1, SumType
  <2> HIDE DEF gone
  <2>3. SumFunctionOnSet(OutOn(v), Purchases)
          = SumFunctionOnSet(OutOn(v)', Purchases) + SumFunctionOnSet(gone, Purchases)
    BY <1>3, <2>1, SumOfSums
  <2> HIDE DEF n
  <2>4. Total(v)' \in Int /\ Total(v) = Total(v)' + n
    BY <1>4, <2>2, <2>3 DEF Total
  <2>5. ceiling'[v] = ceiling[v] + n /\ receivable'[v] = receivable[v] - n
    BY <1>1, <1>2
  <2>6. ceiling[v] \in Int /\ receivable[v] \in Int
    BY <1>2
  <2> QED
    BY <1>1, <1>5, <1>6, <1>7, <2>4, <2>5, <2>6 DEF Agrees
<1>8. CASE w # v
  <2>1. \A p \in Purchases : OutOn(w)'[p] = OutOn(w)[p]
    BY <1>1, <1>2, <1>8 DEF OutOn, Out, Owes
  <2>2. Total(w)' = Total(w)
    BY <1>3, <2>1, SumCongruence, Zenon DEF Total
  <2> HIDE DEF n
  <2>3. ceiling'[w] = ceiling[w] /\ receivable'[w] = receivable[w] /\ returned' = returned
    BY <1>1, <1>2, <1>8
  <2> QED
    BY <1>6, <2>2, <2>3, Zenon DEF Agrees
<1> QED
  BY <1>7, <1>8

(* Closing hands the ceiling back.                                          *)
LEMMA ReclaimLine ==
  ASSUME IInv, IInv', LinesAgree, NEW v \in Wallets, Reclaim(v)
  PROVE  LinesAgree'
<1>1. /\ returned' = [returned EXCEPT ![v] = returned[v] + ceiling[v]]
      /\ ceiling' = [ceiling EXCEPT ![v] = 0]
      /\ UNCHANGED <<payer, draw, restored, undrawn, receivable>>
  BY DEF Reclaim, purchaseVars, keyVars
<1>2. ceiling \in [Wallets -> Int] /\ returned \in [Wallets -> Int]
  BY DEF IInv, BookTypes
<1> SUFFICES ASSUME NEW w \in Wallets PROVE Agrees(w)'
  BY DEF LinesAgree
<1>3. Total(w)' = Total(w)
  BY <1>1 DEF Total, OutOn, Out
<1>4. Agrees(w) /\ Total(w) \in Int /\ Granted[w] \in Int
  BY AmountAssumption, OutType DEF LinesAgree
<1>5. ceiling[w] \in Int /\ returned[w] \in Int
  BY <1>2
<1>6. \/ w # v /\ ceiling'[w] = ceiling[w] /\ returned'[w] = returned[w]
      \/ ceiling'[w] = 0 /\ returned'[w] = returned[w] + ceiling[w]
  BY <1>1, <1>2
<1> QED
  BY <1>1, <1>3, <1>4, <1>5, <1>6 DEF Agrees

LEMMA NextLines ==
  ASSUME IInv, IInv', Unattached, LinesAgree, [Next]_vars
  PROVE  LinesAgree'
<1>1. /\ PurchaseTypes /\ RequestTypes /\ payer \in [Purchases -> Wallets \cup {NoWallet}]
  BY DEF IInv, PurchaseTypes
<1>2. ASSUME UNCHANGED <<payer, keyVars, lineVars>> PROVE LinesAgree'
  BY <1>2, QuietLines DEF keyVars, lineVars, OutOn, Out
<1>3. ASSUME NEW p \in Purchases, NEW w \in Wallets \cup {NoWallet}, payer[p] = NoWallet,
             payer' = [payer EXCEPT ![p] = w], UNCHANGED <<keyVars, lineVars>>
      PROVE  LinesAgree'
  <2>1. draw[p] - restored[p] - undrawn[p] = 0
    BY <1>3 DEF Unattached
  <2>2. Out' = Out /\ Out[p] = 0
    BY <1>3, <2>1 DEF Out, keyVars
  <2>3. \A v \in Wallets : \A q \in Purchases : OutOn(v)'[q] = OutOn(v)[q]
    BY <1>1, <1>3, <2>2, WalletAssumption DEF OutOn
  <2> QED
    BY <1>3, <2>3, QuietLines DEF lineVars
<1>4. ASSUME NEW p \in Purchases, NEW w \in Wallets, payer' = Attached(p, w),
             UNCHANGED <<keyVars, lineVars>>
      PROVE  LinesAgree'
  BY <1>2, <1>3, <1>4 DEF Attached
<1>5. ASSUME NEW p \in Purchases, NEW w \in Wallets \cup {NoWallet}, Open(p, w) PROVE LinesAgree'
  <2>1. payer[p] = NoWallet /\ payer' = [payer EXCEPT ![p] = w] /\ UNCHANGED <<keyVars, lineVars>>
    BY <1>1, <1>5 DEF Open, PurchaseTypes
  <2> QED
    BY <1>3, <2>1
<1>6. ASSUME NEW t \in TopUps, CompleteTopUp(t) PROVE LinesAgree'
  <2>1. stage[t] # "idle" /\ TakesPart(t) /\ Settle(topOf[t], shortfall[t])
    BY <1>6 DEF CompleteTopUp
  <2>2. topOf[t] \in Purchases /\ shortfall[t] \in Int
    BY <1>1, <2>1 DEF RequestTypes
  <2>3. payer[topOf[t]] \in Wallets
    BY <1>1, <2>1, <2>2 DEF TakesPart
  <2> QED
    BY <2>1, <2>2, <2>3, SettleLine
<1>7. ASSUME NEW t \in TopUps, Attach(t) PROVE LinesAgree'
  <2>1. stage[t] = "quoted" /\ payer' = Attached(topOf[t], chosen[t]) /\ UNCHANGED <<keyVars, lineVars>>
    BY <1>7 DEF Attach
  <2>2. topOf[t] \in Purchases /\ chosen[t] \in Wallets
    BY <1>1, <2>1 DEF RequestTypes
  <2> QED
    BY <1>4, <2>1, <2>2
<1>8. ASSUME NEW t \in TopUps, RequestStep(t) PROVE LinesAgree'
  BY <1>2, <1>7, <1>8 DEF RequestStep, Quote, Check, TakeRow, Create, GiveUp, Stage, purchaseVars
<1>9. ASSUME NEW t \in TopUps, TopUpStep(t) PROVE LinesAgree'
  BY <1>2, <1>6, <1>9 DEF TopUpStep, Capture, CompleteTopUpAlone, RejectTopUp, AbortTopUp,
     CancelTopUp, Stage, purchaseVars
<1>10. ASSUME NEW p \in Purchases, VerifyPurchase(p) PROVE LinesAgree'
  <2>1. payer[p] \in Wallets /\ Settle(p, 0)
    BY <1>1, <1>10 DEF VerifyPurchase
  <2> QED
    BY <2>1, SettleLine
<1>11. ASSUME NEW p \in Purchases, NEW w \in Wallets, AttachWallet(p, w) PROVE LinesAgree'
  BY <1>4, <1>11 DEF AttachWallet
<1>12. ASSUME NEW p \in Purchases, PurchaseStep(p) PROVE LinesAgree'
  BY <1>2, <1>5, <1>10, <1>11, <1>12, RepayLine, RefundLine
  DEF PurchaseStep, CancelPurchase, StaleSave, purchaseVars
<1>13. CASE (\E w \in Wallets : Absorb(w) \/ Reclaim(w)) \/ PayOut \/ UNCHANGED vars
  BY <1>2, <1>13, AbsorbLine, ReclaimLine DEF PayOut, purchaseVars, vars
<1> QED
  BY <1>8, <1>9, <1>12, <1>13 DEF Next

(* Nothing is written for a purchase before a wallet is attached.           *)
LEMMA NextUnattached ==
  ASSUME IInv, Unattached, [Next]_vars
  PROVE  Unattached'
<1>1. /\ PurchaseTypes /\ RequestTypes /\ payer \in [Purchases -> Wallets \cup {NoWallet}]
      /\ draw \in [Purchases -> Nat] /\ PlanTypes /\ PaidInFull
  BY DEF IInv, PurchaseTypes, KeysBounded
<1>2. ASSUME UNCHANGED <<keyVars, planVars>>,
             \A p \in Purchases : payer'[p] = NoWallet => payer[p] = NoWallet
      PROVE  Unattached'
  BY <1>2 DEF keyVars, planVars, Unattached
<1>3. ASSUME NEW p \in Purchases, payer[p] \in Wallets, UNCHANGED payer,
             \A q \in Purchases \ {p} :
               /\ draw'[q] = draw[q] /\ restored'[q] = restored[q] /\ undrawn'[q] = undrawn[q]
               /\ owed'[q] = owed[q] /\ canceled'[q] = canceled[q] /\ repaid'[q] = repaid[q]
      PROVE  Unattached'
  BY <1>3, WalletAssumption DEF Unattached
<1>4. ASSUME NEW p \in Purchases, NEW f, payer[p] \in Wallets, Settle(p, f) PROVE Unattached'
  BY <1>1, <1>3, <1>4 DEF Settle, PlanTypes
<1>5. ASSUME NEW p \in Purchases, NEW w \in Wallets \cup {NoWallet}, Open(p, w) PROVE Unattached'
  BY <1>1, <1>2, <1>5 DEF Open, PurchaseTypes
<1>6. ASSUME NEW p \in Purchases, NEW w \in Wallets, payer' = Attached(p, w),
             UNCHANGED <<keyVars, planVars>>
      PROVE  Unattached'
  BY <1>1, <1>2, <1>6, WalletAssumption DEF Attached
<1>7. ASSUME NEW p \in Purchases, NEW n \in 1..Amount[p], Repay(p, n) \/ StaleSave(p, n)
      PROVE  Unattached'
  <2>1. /\ n \in Int /\ n > 0 /\ payer' = payer
        /\ n <= owed[p] \/ n <= canceled[p] \/ n <= repaid[p] \/ n <= restored[p] - repaid[p] - reowed[p]
    BY <1>7, AmountAssumption DEF Repay, MarkPaid, StaleSave, purchaseVars
  <2>2. /\ owed[p] \in Nat /\ canceled[p] \in Nat /\ repaid[p] \in Nat
        /\ restored[p] \in Nat /\ reowed[p] \in Nat /\ payer[p] \in Wallets \cup {NoWallet}
    BY <1>1 DEF PlanTypes
  <2>3. payer[p] # NoWallet
    BY <2>1, <2>2 DEF Unattached
  <2>4. \A q \in Purchases \ {p} :
          /\ draw'[q] = draw[q] /\ restored'[q] = restored[q] /\ undrawn'[q] = undrawn[q]
          /\ owed'[q] = owed[q] /\ canceled'[q] = canceled[q] /\ repaid'[q] = repaid[q]
    BY <1>1, <1>7 DEF Repay, MarkPaid, StaleSave, keyVars, PlanTypes
  <2> QED
    BY <1>3, <2>1, <2>2, <2>3, <2>4
<1>8. ASSUME NEW p \in Purchases, Refund(p) PROVE Unattached'
  <2>1. payer[p] \in Wallets
    BY <1>1, <1>8 DEF Refund, PaidInFull
  <2> QED
    BY <1>1, <1>3, <1>8, <2>1 DEF Refund, CancelPlan, PlanTypes
<1>9. ASSUME NEW w \in Wallets, Absorb(w) PROVE Unattached'
  <2>1. \A p \in Owes(w) : payer[p] = w
    BY DEF Owes
  <2> QED
    BY <1>9, <2>1, WalletAssumption DEF Absorb, purchaseVars, Unattached
<1>10. ASSUME NEW t \in TopUps, CompleteTopUp(t) PROVE Unattached'
  <2>1. stage[t] # "idle" /\ TakesPart(t) /\ Settle(topOf[t], shortfall[t])
    BY <1>10 DEF CompleteTopUp
  <2>2. topOf[t] \in Purchases
    BY <1>1, <2>1 DEF RequestTypes
  <2>3. payer[topOf[t]] \in Wallets
    BY <1>1, <2>1, <2>2 DEF TakesPart
  <2> QED
    BY <1>4, <2>1, <2>2, <2>3
<1>11. ASSUME NEW t \in TopUps, RequestStep(t) \/ TopUpStep(t) PROVE Unattached'
  <2>1. CASE Attach(t)
    <3>1. stage[t] = "quoted" /\ payer' = Attached(topOf[t], chosen[t]) /\ UNCHANGED <<keyVars, planVars>>
      BY <2>1 DEF Attach
    <3>2. topOf[t] \in Purchases /\ chosen[t] \in Wallets
      BY <1>1, <3>1 DEF RequestTypes
    <3> QED
      BY <1>6, <3>1, <3>2
  <2>2. CASE RequestStep(t)
    BY <1>2, <2>1, <2>2 DEF RequestStep, Quote, Check, TakeRow, Create, GiveUp, Stage, purchaseVars
  <2>3. CASE TopUpStep(t)
    BY <1>2, <1>10, <2>3 DEF TopUpStep, Capture, CompleteTopUpAlone, RejectTopUp, AbortTopUp,
       CancelTopUp, Stage, purchaseVars
  <2> QED
    BY <1>11, <2>2, <2>3
<1>12. ASSUME NEW p \in Purchases, PurchaseStep(p) PROVE Unattached'
  <2>1. CASE VerifyPurchase(p)
    BY <1>1, <1>4, <2>1 DEF VerifyPurchase
  <2>2. CASE CancelPurchase(p)
    BY <1>2, <2>2 DEF CancelPurchase
  <2> QED
    BY <1>5, <1>6, <1>7, <1>8, <1>12, <2>1, <2>2 DEF PurchaseStep, AttachWallet
<1>13. CASE (\E w \in Wallets : Absorb(w) \/ Reclaim(w)) \/ PayOut \/ UNCHANGED vars
  BY <1>2, <1>9, <1>13 DEF Reclaim, PayOut, purchaseVars, vars
<1> QED
  BY <1>11, <1>12, <1>13 DEF Next

(* No row restores what another one has: the keys are unique.               *)
LEMMA NextCovered ==
  ASSUME IInv, PlanCovered, [Next]_vars
  PROVE  PlanCovered'
<1>1. /\ PurchaseTypes /\ RequestTypes /\ draw \in [Purchases -> Nat]
      /\ owed \in [Purchases -> Nat] /\ canceled \in [Purchases -> Nat]
      /\ repaid \in [Purchases -> Nat] /\ reowed \in [Purchases -> Nat]
      /\ restored \in [Purchases -> Nat] /\ undrawn \in [Purchases -> Nat]
  BY DEF IInv, KeysBounded, PlanTypes
<1>2. ASSUME UNCHANGED <<keyVars, planVars>> PROVE PlanCovered'
  BY <1>2 DEF keyVars, planVars, PlanCovered
<1>3. ASSUME NEW p \in Purchases,
             owed'[p] + canceled'[p] + restored'[p] <= draw'[p] /\ undrawn'[p] <= draw'[p],
             \A q \in Purchases \ {p} :
               /\ draw'[q] = draw[q] /\ restored'[q] = restored[q] /\ undrawn'[q] = undrawn[q]
               /\ owed'[q] = owed[q] /\ canceled'[q] = canceled[q]
      PROVE  PlanCovered'
  BY <1>3 DEF PlanCovered
<1>4. ASSUME NEW p \in Purchases, NEW f \in 0..Amount[p], Settle(p, f) PROVE PlanCovered'
  <2> DEFINE rest == Amount[p] - f
  <2>1. /\ draw' = [draw EXCEPT ![p] = draw[p] + rest]
        /\ owed' = [owed EXCEPT ![p] = IF payer[p] \in Planned THEN owed[p] + rest ELSE owed[p]]
        /\ UNCHANGED <<canceled, restored, undrawn>> /\ rest \in Nat
    BY <1>4, AmountAssumption DEF Settle
  <2> HIDE DEF rest
  <2>2. owed[p] + canceled[p] + restored[p] <= draw[p] /\ undrawn[p] <= draw[p]
    BY DEF PlanCovered
  <2>3. draw'[p] = draw[p] + rest /\ owed'[p] <= owed[p] + rest /\ owed'[p] \in Int
    BY <1>1, <2>1
  <2>4. owed'[p] + canceled'[p] + restored'[p] <= draw'[p] /\ undrawn'[p] <= draw'[p]
    BY <1>1, <2>1, <2>2, <2>3
  <2> QED
    BY <1>1, <1>3, <2>1, <2>4
<1>5. ASSUME NEW p \in Purchases, NEW n \in 1..Amount[p], Repay(p, n) \/ StaleSave(p, n)
      PROVE  PlanCovered'
  <2>1. n \in Nat /\ draw' = draw /\ undrawn' = undrawn
    BY <1>5, AmountAssumption DEF Repay, StaleSave, keyVars
  <2>2. owed'[p] + canceled'[p] + restored'[p] = owed[p] + canceled[p] + restored[p]
    BY <1>1, <1>5, <2>1 DEF Repay, MarkPaid, StaleSave, keyVars
  <2>3. \A q \in Purchases \ {p} :
          restored'[q] = restored[q] /\ owed'[q] = owed[q] /\ canceled'[q] = canceled[q]
    BY <1>1, <1>5, <2>1 DEF Repay, MarkPaid, StaleSave, keyVars
  <2> QED
    BY <1>3, <2>1, <2>2, <2>3 DEF PlanCovered
<1>6. ASSUME NEW p \in Purchases, Refund(p) PROVE PlanCovered'
  <2>1. /\ undrawn' = [undrawn EXCEPT ![p] = undrawn[p] + Unrepaid(p)]
        /\ Unrepaid(p) > 0 => undrawn[p] = 0
        /\ owed' = [owed EXCEPT ![p] = 0] /\ canceled' = [canceled EXCEPT ![p] = canceled[p] + owed[p]]
        /\ UNCHANGED <<draw, restored>>
    BY <1>6 DEF Refund, CancelPlan
  <2>2. Unrepaid(p) \in 0..draw[p]
    BY <1>1, UnrepaidBounded
  <2>3. owed[p] + canceled[p] + restored[p] <= draw[p] /\ undrawn[p] <= draw[p]
    BY DEF PlanCovered
  <2>4. owed'[p] = 0 /\ canceled'[p] = canceled[p] + owed[p] /\ undrawn'[p] = undrawn[p] + Unrepaid(p)
    BY <1>1, <2>1
  <2>5. owed'[p] + canceled'[p] + restored'[p] <= draw'[p] /\ undrawn'[p] <= draw'[p]
    BY <1>1, <2>1, <2>2, <2>3, <2>4
  <2> QED
    BY <1>1, <1>3, <2>1, <2>5
<1>7. ASSUME NEW w \in Wallets, Absorb(w) PROVE PlanCovered'
  BY <1>1, <1>7 DEF Absorb, PlanCovered
<1>8. ASSUME NEW t \in TopUps, CompleteTopUp(t) PROVE PlanCovered'
  <2>1. stage[t] # "idle" /\ Settle(topOf[t], shortfall[t])
    BY <1>8 DEF CompleteTopUp
  <2>2. topOf[t] \in Purchases /\ shortfall[t] \in 0..Amount[topOf[t]]
    BY <1>1, <2>1, AmountAssumption DEF RequestTypes
  <2> QED
    BY <1>4, <2>1, <2>2
<1>9. ASSUME NEW p \in Purchases, VerifyPurchase(p) PROVE PlanCovered'
  BY <1>4, <1>9, AmountAssumption DEF VerifyPurchase
<1>10. ASSUME NEW t \in TopUps, RequestStep(t) \/ TopUpStep(t) PROVE PlanCovered'
  BY <1>2, <1>8, <1>10 DEF RequestStep, Quote, Attach, Check, TakeRow, Create, GiveUp, TopUpStep,
     Capture, CompleteTopUpAlone, RejectTopUp, AbortTopUp, CancelTopUp, Stage
<1>11. ASSUME NEW p \in Purchases, PurchaseStep(p) PROVE PlanCovered'
  BY <1>2, <1>5, <1>6, <1>9, <1>11 DEF PurchaseStep, Open, AttachWallet, CancelPurchase
<1>12. CASE (\E w \in Wallets : Absorb(w) \/ Reclaim(w)) \/ PayOut \/ UNCHANGED vars
  BY <1>2, <1>7, <1>12 DEF Reclaim, PayOut, vars
<1> QED
  BY <1>10, <1>11, <1>12 DEF Next

(* The virtualAmount of a line and its CREDIT_RECEIVABLE are what the rows   *)
(* of its purchases add up to: draws, less what settled installments         *)
(* restored, less what refunds gave back, neither more than was drawn,       *)
(* whatever installments are paid after they were canceled or saved over.   *)
THEOREM LineIsItsRows == Spec => []LineExplained
<1>1. Init => LinesAgree /\ Unattached /\ PlanCovered
  <2> SUFFICES ASSUME Init PROVE LinesAgree /\ Unattached /\ PlanCovered
    OBVIOUS
  <2>1. ASSUME NEW w \in Wallets PROVE Agrees(w)
    <3>1. IsFiniteSet(Purchases) /\ \A p \in Purchases : OutOn(w)[p] = 0
      BY FiniteAssumption DEF Init, OutOn, Out
    <3>2. Total(w) = 0
      BY <3>1, SumOfZeros DEF Total
    <3> QED
      BY <3>2, AmountAssumption DEF Init, Agrees
  <2>2. Unattached /\ PlanCovered
    BY DEF Init, Unattached, PlanCovered
  <2> QED
    BY <2>1, <2>2 DEF LinesAgree
<1>2. IInv /\ IInv' /\ Unattached /\ LinesAgree /\ PlanCovered /\ [Next]_vars
        => LinesAgree' /\ Unattached' /\ PlanCovered'
  BY NextLines, NextUnattached, NextCovered
<1>3. IInv /\ LinesAgree /\ PlanCovered => LineExplained
  BY LineForm, CoveredBounds
<1> QED
  BY <1>1, <1>2, <1>3, Invariance, PTL DEF Spec
=============================================================================
