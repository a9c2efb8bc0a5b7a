-------------------------- MODULE CreditPurchases --------------------------
(***************************************************************************)
(* Purchases from repository-backed CREDIT wallets of one customer.  The    *)
(* money comes out of the repository, up to the wallet's ceiling; what the *)
(* customer then owes is CREDIT_RECEIVABLE and an installment plan.  A      *)
(* shortfall is paid through a real gateway into the customer's SUPPORT     *)
(* wallet by a top-up, which also completes the purchase.                  *)
(*                                                                         *)
(* Row locks: a verification and a refund are single steps, they hold the   *)
(* purchase row and the wallets from first read to commit; a step that      *)
(* another one can come between is split.  One merchant wallet receives     *)
(* everything.  A plan is the principal of its installments by status; how   *)
(* one of them is paid, and when the sweep holds a stale copy of it, is the  *)
(* subject of Installments.                                                 *)
(***************************************************************************)
EXTENDS Integers, FiniteSetsExt, Functions

CONSTANTS
  Purchases,  \* transactions of type PURCHASE
  TopUps,     \* confirmSupportTopUp requests, each with the DEPOSIT row it may create
  Wallets,    \* the customer's CREDIT wallets, all backed by one repository
  Planned,    \* those whose wallet type has an installmentCount
  NoWallet,   \* fromWalletId = null
  NoPurchase, \* a request that has named no purchase yet
  Amount,     \* Amount[p]
  Granted,    \* Granted[w]: the virtualAmount the wallet was granted
  Funds       \* the repository's opening balance

ASSUME WalletAssumption   == Planned \subseteq Wallets /\ NoWallet \notin Wallets
ASSUME PurchaseAssumption == NoPurchase \notin Purchases
ASSUME AmountAssumption   == /\ Amount \in [Purchases -> Nat \ {0}]
                             /\ Granted \in [Wallets -> Nat] /\ Funds \in Nat
ASSUME FiniteAssumption   == \A rows \in {Purchases, TopUps, Wallets} : IsFiniteSet(rows)

Statuses == {"none", "PENDING", "COMPLETED", "REVERSED"}

(* A request quotes, attaches, looks for an earlier top-up and creates its   *)
(* own (holding the purchase row); then the DEPOSIT row's own life, "paid"   *)
(* being a verification that holds it after the gateway's capture.           *)
Stages == {"idle", "quoted", "attached", "checked", "creating",
           "PENDING", "paid", "COMPLETED", "REVERSED"}

VARIABLES
  status, payer,     \* of a purchase
  stage,             \* stage[t]
  topOf,             \* topOf[t]: the purchase t completes (completesPurchaseId)
  chosen, shortfall, \* the wallet t's request is to attach, and the amount of t
  captured,          \* top-ups whose money the gateway has taken
  draw, funded,      \* the credit-fund: and support-fund: rows of a purchase, 0 if none
  undrawn,           \* its credit-fund-reverse: row
  restored,          \* its installment-restore: rows together
  owed, canceled,    \* principal of its unpaid and CANCELED installments without such a row
  repaid, reowed,    \* of its PAID installments, and of the unpaid ones with such a row
  ceiling,           \* virtualAmount of a wallet
  receivable,        \* its CREDIT_RECEIVABLE
  own,               \* its own balance
  returned,          \* ceiling handed back to the repository's pool at closing
  repo, support, merchant, cash, \* balances; cash is BANK_CASH
  paidIn,            \* paidIn[w]: real money the customer paid for w's purchases
  closed             \* wallets with closedAt set

purchaseVars == <<status, payer>>
topUpVars    == <<stage, topOf, chosen, shortfall, captured>>
keyVars      == <<draw, funded, undrawn, restored>>
planVars     == <<owed, canceled, repaid, reowed>>
lineVars     == <<ceiling, receivable, returned, closed>>
moneyVars    == <<own, repo, support, merchant, cash, paidIn>>
vars == <<purchaseVars, topUpVars, keyVars, planVars, lineVars, moneyVars>>

Init ==
  /\ status = [p \in Purchases |-> "none"] /\ payer = [p \in Purchases |-> NoWallet]
  /\ stage = [t \in TopUps |-> "idle"] /\ topOf = [t \in TopUps |-> NoPurchase]
  /\ chosen = [t \in TopUps |-> NoWallet] /\ shortfall = [t \in TopUps |-> 0]
  /\ captured = {}
  /\ draw = [p \in Purchases |-> 0] /\ funded = [p \in Purchases |-> 0]
  /\ undrawn = [p \in Purchases |-> 0] /\ restored = [p \in Purchases |-> 0]
  /\ owed = [p \in Purchases |-> 0] /\ canceled = [p \in Purchases |-> 0]
  /\ repaid = [p \in Purchases |-> 0] /\ reowed = [p \in Purchases |-> 0]
  /\ ceiling = Granted /\ receivable = [w \in Wallets |-> 0]
  /\ own = [w \in Wallets |-> 0] /\ returned = [w \in Wallets |-> 0]
  /\ repo = Funds /\ support = 0 /\ merchant = 0 /\ cash = Funds
  /\ paidIn = [w \in Wallets |-> 0] /\ closed = {}

----------------------------------------------------------------------------
(* Initiation and attaching.                                                *)

RowFree(p) == \A t \in TopUps : ~(topOf[t] = p /\ stage[t] = "creating")

Open(p, w) ==    \* a charge (w = NoWallet) or a purchase from w
  /\ status[p] = "none" /\ w \notin closed
  /\ status' = [status EXCEPT ![p] = "PENDING"]
  /\ payer'  = [payer EXCEPT ![p] = w]
  /\ UNCHANGED <<topUpVars, keyVars, planVars, lineVars, moneyVars>>

(* getAvailableCredit, read without a lock.                                 *)
Available(w) == Min({ceiling[w], repo})

Attached(p, w) ==
  IF status[p] = "PENDING" /\ payer[p] = NoWallet THEN [payer EXCEPT ![p] = w] ELSE payer

(* attachWallet, for a wallet that covers the charge.                       *)
AttachWallet(p, w) ==
  /\ status[p] = "PENDING" /\ w \notin closed /\ RowFree(p)
  /\ Amount[p] <= Available(w)
  /\ payer' = Attached(p, w)
  /\ UNCHANGED <<status, topUpVars, keyVars, planVars, lineVars, moneyVars>>

QuoteUnneeded(t, p, w) ==    \* mutant: without the "top-up not needed" rejection
  /\ stage[t] = "idle" /\ status[p] = "PENDING" /\ w \notin closed
  /\ stage'     = [stage EXCEPT ![t] = "quoted"]
  /\ topOf'     = [topOf EXCEPT ![t] = p]
  /\ chosen'    = [chosen EXCEPT ![t] = w]
  /\ shortfall' = [shortfall EXCEPT ![t] = Amount[p] - Available(w)]
  /\ UNCHANGED <<captured, purchaseVars, keyVars, planVars, lineVars, moneyVars>>

(* confirmSupportTopUp derives the shortfall, attaches, then initiates.     *)
Quote(t, p, w) ==
  /\ stage[t] = "idle" /\ status[p] = "PENDING" /\ w \notin closed
  /\ Amount[p] > Available(w)
  /\ stage'     = [stage EXCEPT ![t] = "quoted"]
  /\ topOf'     = [topOf EXCEPT ![t] = p]
  /\ chosen'    = [chosen EXCEPT ![t] = w]
  /\ shortfall' = [shortfall EXCEPT ![t] = Amount[p] - Available(w)]
  /\ UNCHANGED <<captured, purchaseVars, keyVars, planVars, lineVars, moneyVars>>

Stage(t, from, to) ==
  /\ stage[t] = from /\ stage' = [stage EXCEPT ![t] = to]
  /\ UNCHANGED <<topOf, chosen, shortfall, keyVars, planVars, lineVars>>

Attach(t) ==
  /\ stage[t] = "quoted" /\ RowFree(topOf[t])
  /\ payer'  = Attached(topOf[t], chosen[t])
  /\ stage'  = [stage EXCEPT ![t] = "attached"]
  /\ chosen' = [chosen EXCEPT ![t] = NoWallet]
  /\ UNCHANGED <<topOf, shortfall, captured, status, keyVars, planVars, lineVars, moneyVars>>

(* initiateSupportTopUp: reads for an earlier PENDING top-up and of the      *)
(* purchase, without locks; the UPDATE of the purchase's expiresAt takes its *)
(* row until the commit, which is when the new DEPOSIT appears.              *)
HasPendingTopUp(p) == \E t \in TopUps : topOf[t] = p /\ stage[t] \in {"PENDING", "paid"}

Check(t) ==
  /\ Stage(t, "attached", "checked")
  /\ ~HasPendingTopUp(topOf[t])
  /\ status[topOf[t]] = "PENDING" /\ payer[topOf[t]] # NoWallet
  /\ UNCHANGED <<captured, purchaseVars, moneyVars>>

TakeRow(t) ==
  /\ Stage(t, "checked", "creating") /\ RowFree(topOf[t])
  /\ UNCHANGED <<captured, purchaseVars, moneyVars>>

Create(t) == Stage(t, "creating", "PENDING") /\ UNCHANGED <<captured, purchaseVars, moneyVars>>

(* The earlier redirect is handed back, the purchase is gone, or the gateway *)
(* fails: the request ends without a top-up.                                 *)
GiveUp(t) ==
  /\ stage[t] \in {"quoted", "attached", "checked", "creating"}
  /\ stage'     = [stage EXCEPT ![t] = "idle"]
  /\ topOf'     = [topOf EXCEPT ![t] = NoPurchase]
  /\ chosen'    = [chosen EXCEPT ![t] = NoWallet]
  /\ shortfall' = [shortfall EXCEPT ![t] = 0]
  /\ UNCHANGED <<captured, purchaseVars, keyVars, planVars, lineVars, moneyVars>>

----------------------------------------------------------------------------
(* settleCreditFundedPurchase with f of support money.                      *)

CanSettleUnfunded(p, f) ==    \* mutant: without the repository's balance check
  /\ payer[p] \notin closed
  /\ f > 0 => funded[p] = 0
  /\ Amount[p] > f => draw[p] = 0 /\ Amount[p] - f <= ceiling[payer[p]]

CanSettleRepeatable(p, f) ==    \* mutant: without the unique keys
  /\ payer[p] \notin closed
  /\ Amount[p] > f => Amount[p] - f <= ceiling[payer[p]] /\ Amount[p] - f <= repo

(* The keys support-fund:<p> and credit-fund:<p> are unique.                *)
CanSettle(p, f) ==
  /\ payer[p] \notin closed
  /\ f > 0 => funded[p] = 0
  /\ Amount[p] > f => /\ draw[p] = 0
                      /\ Amount[p] - f <= ceiling[payer[p]]
                      /\ Amount[p] - f <= repo

Settle(p, f) ==
  LET rest == Amount[p] - f
  IN  /\ CanSettle(p, f)
      /\ status'     = [status EXCEPT ![p] = "COMPLETED"]
      /\ draw'       = [draw EXCEPT ![p] = @ + rest]
      /\ funded'     = [funded EXCEPT ![p] = @ + f]
      /\ ceiling'    = [ceiling EXCEPT ![payer[p]] = @ - rest]
      /\ receivable' = [receivable EXCEPT ![payer[p]] = @ + rest]
      /\ owed'       = [owed EXCEPT ![p] = IF payer[p] \in Planned THEN @ + rest ELSE @]
      /\ repo'       = repo - rest
      /\ merchant'   = merchant + Amount[p]
      /\ UNCHANGED <<payer, undrawn, restored, canceled, repaid, reowed, returned, closed, own>>

(* verifyPurchase of the purchase itself, paid at the sandbox gateway.       *)
VerifyPurchase(p) ==
  /\ status[p] = "PENDING" /\ payer[p] # NoWallet /\ RowFree(p)
  /\ Settle(p, 0)
  /\ UNCHANGED <<topUpVars, support, cash, paidIn>>

(* cancel, timeout, or a merchant's reversal of the PENDING purchase.        *)
CancelPurchase(p) ==
  /\ status[p] = "PENDING" /\ RowFree(p)
  /\ status' = [status EXCEPT ![p] = "REVERSED"]
  /\ UNCHANGED <<payer, topUpVars, keyVars, planVars, lineVars, moneyVars>>

CancelTopUp(t) == Stage(t, "PENDING", "REVERSED") /\ UNCHANGED <<captured, purchaseVars, moneyVars>>

(* verifyPurchase of a top-up: the gateway takes the money, then             *)
(* completeSupportTopUp runs in the same DB transaction.                     *)
Capture(t) ==
  /\ Stage(t, "PENDING", "paid") /\ captured' = captured \cup {t}
  /\ UNCHANGED <<purchaseVars, moneyVars>>

TakesPart(t) == payer[topOf[t]] # NoWallet /\ RowFree(topOf[t])

RecreditSupport(t) == support + shortfall[t]    \* mutant: on every completion

CreditSupport(t) == IF stage[t] = "COMPLETED" THEN support ELSE support + shortfall[t]

CompleteTopUp(t) ==
  LET p == topOf[t]
  IN  /\ stage[t] \in {"paid", "COMPLETED"} /\ TakesPart(t) /\ status[p] # "COMPLETED"
      /\ CreditSupport(t) >= shortfall[t]
      /\ Settle(p, shortfall[t])
      /\ stage' = [stage EXCEPT ![t] = "COMPLETED"]
      /\ support' = CreditSupport(t) - shortfall[t]
      /\ cash' = cash + CreditSupport(t) - support
      /\ paidIn' = [paidIn EXCEPT ![payer[p]] = @ + CreditSupport(t) - support]
      /\ UNCHANGED <<topOf, chosen, shortfall, captured>>

(* The purchase is already COMPLETED: the money stays in the support wallet. *)
CompleteTopUpAlone(t) ==
  /\ Stage(t, "paid", "COMPLETED") /\ TakesPart(t) /\ status[topOf[t]] = "COMPLETED"
  /\ support' = CreditSupport(t)
  /\ cash' = cash + CreditSupport(t) - support
  /\ paidIn' = [paidIn EXCEPT ![payer[topOf[t]]] = @ + CreditSupport(t) - support]
  /\ UNCHANGED <<captured, purchaseVars, own, repo, merchant>>

(* The settlement throws, and everything but the capture is rolled back.     *)
RejectTopUp(t) ==
  /\ Stage(t, "paid", "PENDING") /\ status[topOf[t]] # "COMPLETED"
  /\ ~CanSettle(topOf[t], shortfall[t])
  /\ UNCHANGED <<captured, purchaseVars, moneyVars>>

AbortTopUp(t) ==    \* the process dies after the capture
  Stage(t, "paid", "PENDING") /\ UNCHANGED <<captured, purchaseVars, moneyVars>>

----------------------------------------------------------------------------
(* Repayment, refund, payout, closing.                                      *)

(* n of p's principal comes back through the gateway: settleOneInstallment   *)
(* and the cash into the repository.  Only a PAID installment is turned      *)
(* away, so one that a refund has CANCELED is paid like any other; one that  *)
(* is owed again has its installment-restore: row and fails.                 *)
RepayTwice(p, n) ==    \* mutant: the key installment-restore:<i> is not unique
  /\ repaid' = [repaid EXCEPT ![p] = @ + n]
  /\ \/ n <= owed[p] /\ owed' = [owed EXCEPT ![p] = @ - n] /\ UNCHANGED <<canceled, reowed>>
     \/ n <= canceled[p] /\ canceled' = [canceled EXCEPT ![p] = @ - n] /\ UNCHANGED <<owed, reowed>>
     \/ n <= reowed[p] /\ reowed' = [reowed EXCEPT ![p] = @ - n] /\ UNCHANGED <<owed, canceled>>

MarkPaid(p, n) ==
  /\ repaid' = [repaid EXCEPT ![p] = @ + n]
  /\ \/ n <= owed[p] /\ owed' = [owed EXCEPT ![p] = @ - n] /\ UNCHANGED <<canceled, reowed>>
     \/ n <= canceled[p] /\ canceled' = [canceled EXCEPT ![p] = @ - n] /\ UNCHANGED <<owed, reowed>>

Repay(p, n) ==
  /\ MarkPaid(p, n)
  /\ restored'   = [restored EXCEPT ![p] = @ + n]
  /\ ceiling'    = [ceiling EXCEPT ![payer[p]] = @ + n]
  /\ receivable' = [receivable EXCEPT ![payer[p]] = @ - n]
  /\ repo' = repo + n /\ cash' = cash + n
  /\ paidIn' = [paidIn EXCEPT ![payer[p]] = @ + n]
  /\ UNCHANGED <<purchaseVars, topUpVars, draw, funded, undrawn, returned, closed,
                 own, support, merchant>>

(* A save of the sweep brings back what it read: an installment that has     *)
(* been settled, or CANCELED, since is unpaid again.                        *)
StaleSave(p, n) ==
  /\ \/ /\ n <= repaid[p]
        /\ repaid' = [repaid EXCEPT ![p] = @ - n] /\ reowed' = [reowed EXCEPT ![p] = @ + n]
        /\ UNCHANGED <<owed, canceled>>
     \/ /\ n <= canceled[p]
        /\ canceled' = [canceled EXCEPT ![p] = @ - n] /\ owed' = [owed EXCEPT ![p] = @ + n]
        /\ UNCHANGED <<repaid, reowed>>
     \/ /\ n <= restored[p] - repaid[p] - reowed[p]
        /\ reowed' = [reowed EXCEPT ![p] = @ + n] /\ UNCHANGED <<owed, canceled, repaid>>
  /\ UNCHANGED <<purchaseVars, topUpVars, keyVars, lineVars, moneyVars>>

Owes(w) == {p \in Purchases : payer[p] = w /\ owed[p] + reowed[p] > 0}

(* collectQuitDebtFromRepository: every unpaid installment of the wallet is  *)
(* settled, no money comes from the customer (fees are left out here); one   *)
(* that has its installment-restore: row makes it fail.                     *)
Absorb(w) ==
  LET n == SumFunctionOnSet(owed, Owes(w))
  IN  /\ Owes(w) # {} /\ \A p \in Owes(w) : reowed[p] = 0
      /\ repaid'   = [p \in Purchases |-> IF p \in Owes(w) THEN repaid[p] + owed[p] ELSE repaid[p]]
      /\ restored' = [p \in Purchases |-> IF p \in Owes(w) THEN restored[p] + owed[p] ELSE restored[p]]
      /\ owed'     = [p \in Purchases |-> IF p \in Owes(w) THEN 0 ELSE owed[p]]
      /\ ceiling'    = [ceiling EXCEPT ![w] = @ + n]
      /\ receivable' = [receivable EXCEPT ![w] = @ - n]
      /\ UNCHANGED <<purchaseVars, topUpVars, draw, funded, undrawn, canceled, reowed,
                     returned, closed, moneyVars>>

(* reverseTransaction of a COMPLETED purchase.  What was drawn and is not    *)
(* repaid goes back to the repository and the ceiling, the rest to the       *)
(* customer; the plan, if there is one, is canceled.                         *)
Unrepaid(p) == draw[p] - Min({repaid[p], draw[p]})

CustomerShareWhole(p) == Amount[p]    \* mutant: the repository's slice is paid twice

CustomerShare(p) == Amount[p] - Unrepaid(p)

ForgivenNothing(p) == 0    \* mutant: the receivable is not reduced

Forgiven(p) == IF payer[p] \in Planned THEN Unrepaid(p) ELSE 0

(* cancelForPurchase: PENDING and OVERDUE installments.                      *)
CancelPlan(p) ==
  /\ owed'     = [owed EXCEPT ![p] = 0]
  /\ canceled' = [canceled EXCEPT ![p] = @ + owed[p]]
  /\ reowed'   = [reowed EXCEPT ![p] = 0]

Refund(p) ==
  /\ status[p] = "COMPLETED" /\ RowFree(p) /\ merchant >= Amount[p]
  /\ Unrepaid(p) > 0 => undrawn[p] = 0      \* the key credit-fund-reverse:<p>
  /\ undrawn' = [undrawn EXCEPT ![p] = @ + Unrepaid(p)]
  /\ status'  = [status EXCEPT ![p] = "REVERSED"]
  /\ merchant' = merchant - Amount[p]
  /\ own'  = [own EXCEPT ![payer[p]] = @ + CustomerShare(p)]
  /\ repo' = repo + Unrepaid(p)
  /\ ceiling'    = [ceiling EXCEPT ![payer[p]] = @ + Unrepaid(p)]
  /\ receivable' = [receivable EXCEPT ![payer[p]] = @ - Forgiven(p)]
  /\ CancelPlan(p)
  /\ UNCHANGED <<payer, topUpVars, draw, funded, restored, repaid, returned, closed,
                 support, cash, paidIn>>

PayOut ==    \* the merchant's auto-withdraw
  /\ merchant > 0
  /\ merchant' = 0 /\ cash' = cash - merchant
  /\ UNCHANGED <<purchaseVars, topUpVars, keyVars, planVars, lineVars, own, repo, support, paidIn>>

(* closeCreditWalletAndReclaim, under the wallet's lock.                     *)
Reclaim(w) ==
  /\ w \notin closed /\ own[w] = 0 /\ Owes(w) = {}
  /\ returned' = [returned EXCEPT ![w] = @ + ceiling[w]]
  /\ ceiling'  = [ceiling EXCEPT ![w] = 0]
  /\ closed'   = closed \cup {w}
  /\ UNCHANGED <<purchaseVars, topUpVars, keyVars, planVars, receivable, moneyVars>>

----------------------------------------------------------------------------
RequestStep(t) == \/ \E p \in Purchases, w \in Wallets : Quote(t, p, w)
                  \/ Attach(t) \/ Check(t) \/ TakeRow(t) \/ Create(t) \/ GiveUp(t)

TopUpStep(t) == \/ Capture(t) \/ CompleteTopUp(t) \/ CompleteTopUpAlone(t)
                \/ RejectTopUp(t) \/ AbortTopUp(t) \/ CancelTopUp(t)

PurchaseStep(p) == \/ \E w \in Wallets \cup {NoWallet} : Open(p, w)
                   \/ \E w \in Wallets : AttachWallet(p, w)
                   \/ VerifyPurchase(p) \/ CancelPurchase(p) \/ Refund(p)
                   \/ \E n \in 1..Amount[p] : Repay(p, n) \/ StaleSave(p, n)

Next == \/ \E t \in TopUps : RequestStep(t) \/ TopUpStep(t)
        \/ \E p \in Purchases : PurchaseStep(p)
        \/ \E w \in Wallets : Absorb(w) \/ Reclaim(w)
        \/ PayOut

Spec == Init /\ [][Next]_vars

----------------------------------------------------------------------------
(* Properties.                                                              *)

(* Every variable has its type; a shortfall is at most what t completes      *)
(* costs.  Balances are integers here, see NoOverdraft.                      *)
TypeOK ==
  /\ status \in [Purchases -> Statuses]
  /\ payer \in [Purchases -> Wallets \cup {NoWallet}]
  /\ stage \in [TopUps -> Stages]
  /\ topOf \in [TopUps -> Purchases \cup {NoPurchase}]
  /\ chosen \in [TopUps -> Wallets \cup {NoWallet}]
  /\ shortfall \in [TopUps -> Nat]
  /\ \A t \in TopUps : stage[t] # "idle" => /\ topOf[t] \in Purchases
                                           /\ shortfall[t] \in 1..Amount[topOf[t]]
  /\ \A t \in TopUps : stage[t] = "quoted" => chosen[t] \in Wallets
  /\ captured \subseteq TopUps /\ closed \subseteq Wallets
  /\ {draw, funded, undrawn, restored, owed, canceled, repaid, reowed} \subseteq [Purchases -> Int]
  /\ {ceiling, receivable, own, returned, paidIn} \subseteq [Wallets -> Int]
  /\ {repo, support, merchant, cash} \subseteq Int

(* No order of draws, top-ups, refunds, repayments and payouts takes the     *)
(* repository, the support wallet, the merchant or a credit wallet below     *)
(* zero, although the credit a request sees is read without a lock.          *)
NoOverdraft == /\ repo >= 0 /\ support >= 0 /\ merchant >= 0
               /\ \A w \in Wallets : own[w] >= 0

(* The ledger balances: BANK_CASH equals what the wallets hold together.     *)
CashBacksWallets == cash = repo + support + merchant + SumFunctionOnSet(own, Wallets)

(* A credit line is never overdrawn, inflated or lost: what can still be     *)
(* drawn, what is owed and what was handed back at closing is what was       *)
(* granted, through draws, repayments, write-offs, refunds and a reversed    *)
(* purchase that a late top-up completes.                                    *)
LineConserved ==
  \A w \in Wallets : /\ ceiling[w] >= 0
                     /\ w \in Planned => ceiling[w] + receivable[w] + returned[w] = Granted[w]

(* What is out on a line, by the rows of its purchases: drawn, not restored  *)
(* by a settled installment and not given back by a refund.                 *)
Out == [p \in Purchases |-> draw[p] - restored[p] - undrawn[p]]

(* Both records of a line say what the transaction rows of its purchases     *)
(* say, virtualAmount and CREDIT_RECEIVABLE alike, whatever the installments *)
(* themselves say: also after a payment of one that a refund has CANCELED    *)
(* (the receivable is negative then) and while a stale save has one owed     *)
(* again.  Neither kind of row gives back more than was drawn.              *)
LineExplained ==
  /\ \A p \in Purchases : restored[p] <= draw[p] /\ undrawn[p] <= draw[p]
  /\ \A w \in Wallets :
       LET out == SumFunctionOnSet(Out, {p \in Purchases : payer[p] = w})
       IN  /\ ceiling[w] = Granted[w] - out - returned[w]
           /\ w \in Planned => receivable[w] = out

(* The support wallet holds what completed top-ups paid in less what they    *)
(* funded: a repeated completion neither credits nor spends twice.           *)
SupportExplained ==
  support = SumFunctionOnSet(shortfall, {t \in TopUps : stage[t] = "COMPLETED"})
            - SumFunctionOnSet(funded, Purchases)

(* A purchase that is settled is paid in full, from the repository, the      *)
(* support wallet or both, and only a wallet that was attached pays.         *)
PaidInFull ==
  \A p \in Purchases :
    status[p] = "COMPLETED" => /\ payer[p] \in Wallets
                               /\ draw[p] + funded[p] >= Amount[p]
                               /\ draw[p] \in 0..Amount[p] /\ funded[p] \in 0..Amount[p]

(* A payer is attached once and for all, whatever requests race to attach.   *)
PayerKept ==
  [][\A p \in Purchases : payer[p] # NoWallet => payer'[p] = payer[p]]_vars

----------------------------------------------------------------------------
(* What the comments claim and the code does not do.                        *)

(* verifyPurchase: "This transaction was reversed and can no longer be       *)
(* verified".                                                                *)
ReversedStaysReversed ==
  [][\A p \in Purchases : status[p] = "REVERSED" => status'[p] = "REVERSED"]_vars

(* reverseTransaction: "Whatever principal [...] the customer has already    *)
(* repaid (real money, into the repository ...) goes back to the customer's  *)
(* own real balance": what a customer gets back, the customer has paid.      *)
RefundsRealMoney == \A w \in Wallets : own[w] <= paidIn[w]
============================================================================
