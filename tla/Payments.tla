------------------------------ MODULE Payments ------------------------------
(***************************************************************************)
(* The life of a gateway payment in TransactionsService: a PURCHASE (or a  *)
(* merchant's charge, which starts with no payer) settled from a wallet,   *)
(* and a DEPOSIT funded through a real gateway.  Requests run              *)
(* concurrently; a verification holds the transaction's row lock (SELECT   *)
(* ... FOR UPDATE) from its checks, through the gateway call, to its       *)
(* commit or rollback.  Every other write of that row waits for the lock.  *)
(*                                                                         *)
(* Wallets here are plain (no credit line, no repository): credit-funded   *)
(* purchases are the subject of SupportTopUp and CreditLine.               *)
(***************************************************************************)
EXTENDS Integers, FiniteSets, Functions

CONSTANTS
  Purchases,   \* transactions of type PURCHASE
  Deposits,    \* transactions of type DEPOSIT
  Customers,   \* wallets that pay purchases and receive deposits
  Merchants,   \* wallets that receive purchases and are paid out by the sweep
  NoWallet,    \* fromWalletId = null
  Amount,      \* Amount[t]: the fixed amount of transaction t, in minor units
  Opening      \* Opening[w]: wallet w's balance when the model starts

Txns    == Purchases \cup Deposits
Wallets == Customers \cup Merchants

ASSUME TxnAssumption     == Purchases \cap Deposits = {}
ASSUME FiniteAssumption  == IsFiniteSet(Purchases) /\ IsFiniteSet(Deposits)
ASSUME WalletAssumption  == Customers \cap Merchants = {} /\ NoWallet \notin Wallets
ASSUME AmountAssumption  == Amount \in [Txns -> Nat \ {0}]
ASSUME OpeningAssumption == Opening \in [Wallets -> Nat]

Statuses == {"none", "PENDING", "COMPLETED", "REVERSED"}   \* "none": no row yet
Intents  == {"none", "INITIATED", "AUTHORIZED", "VERIFIED", "CANCELED", "EXPIRED"}
Phases   == {"idle", "locked", "paid"}

VARIABLES
  status,    \* transactions.status
  payer,     \* transactions.fromWalletId
  payee,     \* transactions.toWalletId
  overdue,   \* expiresAt has passed
  intent,    \* the payment at the gateway that issued ipgAuthority
  phase,     \* the verification that holds the row lock, if any
  sweep,     \* ids the running timeout sweep read and has not updated yet
  entries,   \* number of journal entries posted for the transaction's money
  reversals, \* number of reversal rows (with their entry) linked to it
  balance,   \* wallet balance: credits minus debits of its postings
  paidOut,   \* total of the merchant wallet's WITHDRAW rows
  closed,    \* wallets with closedAt set
  closing,   \* wallets a close request has read as empty, update not yet run
  told       \* purchases whose merchant webhook was called with COMPLETED

rows  == <<status, payer, payee, overdue>>
books == <<entries, reversals, balance, paidOut>>
walletVars == <<closed, closing>>
vars == <<rows, intent, phase, sweep, books, walletVars, told>>

Init ==
  /\ status    = [t \in Txns |-> "none"]
  /\ payer     = [t \in Txns |-> NoWallet]
  /\ payee     = [t \in Txns |-> NoWallet]
  /\ overdue   = [t \in Txns |-> FALSE]
  /\ intent    = [t \in Txns |-> "none"]
  /\ phase     = [t \in Txns |-> "idle"]
  /\ sweep     = {}
  /\ entries   = [t \in Txns |-> 0]
  /\ reversals = [t \in Txns |-> 0]
  /\ balance   = Opening
  /\ paidOut   = [w \in Wallets |-> 0]
  /\ closed    = {}
  /\ closing   = {}
  /\ told      = {}

----------------------------------------------------------------------------
(* Initiation: one committed DB transaction inserts the PENDING row and     *)
(* stores the gateway's authority.  The closedAt checks read the wallet     *)
(* without a lock; a close that slips in between is the same as one right   *)
(* after the insert, because the insert and the close touch different rows. *)

Insert(t, from, to) ==
  /\ status[t] = "none"
  /\ status' = [status EXCEPT ![t] = "PENDING"]
  /\ payer'  = [payer EXCEPT ![t] = from]
  /\ payee'  = [payee EXCEPT ![t] = to]
  /\ intent' = [intent EXCEPT ![t] = "INITIATED"]
  /\ UNCHANGED <<overdue, phase, sweep, books, walletVars, told>>

InitiatePurchase(p, c, m) == c \notin closed /\ m \notin closed /\ Insert(p, c, m)

InitiateCharge(p, m) == m \notin closed /\ Insert(p, NoWallet, m)

Deposit(d, c) == c \notin closed /\ Insert(d, NoWallet, c)

AttachOverwriting(p, c) ==    \* mutant: without "fromWalletId" IS NULL
  /\ phase[p] = "idle" /\ status[p] = "PENDING"
  /\ payer' = [payer EXCEPT ![p] = c]
  /\ UNCHANGED <<status, payee, overdue, intent, phase, sweep, books, walletVars, told>>

(* The purchase gateway's validateWalletChoice, on unlocked reads.          *)
WalletChoiceValid(p, c) == c \notin closed /\ payee[p] \notin closed

(* attachPurchaseWallet: UPDATE ... WHERE status = PENDING AND fromWalletId *)
(* IS NULL.  It waits for the row lock and re-evaluates its WHERE clause.   *)
AttachWallet(p, c) ==
  /\ phase[p] = "idle" /\ status[p] = "PENDING" /\ payer[p] = NoWallet
  /\ WalletChoiceValid(p, c)
  /\ payer' = [payer EXCEPT ![p] = c]
  /\ UNCHANGED <<status, payee, overdue, intent, phase, sweep, books, walletVars, told>>

----------------------------------------------------------------------------
(* The customer at the gateway's own page, and the clock.                   *)

GatewayStep(t, from, to) ==
  /\ intent[t] = from
  /\ intent' = [intent EXCEPT ![t] = to]
  /\ UNCHANGED <<rows, phase, sweep, books, walletVars, told>>

Confirm(t)         == GatewayStep(t, "INITIATED", "AUTHORIZED")
CancelAtGateway(t) == GatewayStep(t, "INITIATED", "CANCELED")
IntentExpires(t)   == overdue[t] /\ GatewayStep(t, "INITIATED", "EXPIRED")

PassExpiry(t) ==
  /\ status[t] # "none" /\ ~overdue[t]
  /\ overdue' = [overdue EXCEPT ![t] = TRUE]
  /\ UNCHANGED <<status, payer, payee, intent, phase, sweep, books, walletVars, told>>

----------------------------------------------------------------------------
(* verifyPurchase.  Public, so any number of calls may arrive; the ones     *)
(* that find no payer, a resolved row or a passed expiry change nothing     *)
(* (the expiry branch saves REVERSED and then throws, which rolls the save  *)
(* back), and are stuttering steps here.                                    *)

VerifyTrusting(t) ==    \* mutant: no call to the gateway
  /\ phase[t] = "idle" /\ status[t] = "PENDING" /\ ~overdue[t]
  /\ t \in Deposits \/ payer[t] # NoWallet
  /\ phase' = [phase EXCEPT ![t] = "paid"]
  /\ UNCHANGED <<rows, intent, sweep, books, walletVars, told>>

VerifyBegin(t) ==
  /\ phase[t] = "idle" /\ status[t] = "PENDING"
  /\ t \in Deposits \/ payer[t] # NoWallet
  /\ ~overdue[t]
  /\ phase' = [phase EXCEPT ![t] = "locked"]
  /\ UNCHANGED <<rows, intent, sweep, books, walletVars, told>>

(* A sandbox-IPG intent verifies once; the real gateway of a deposit        *)
(* answers "already verified" (code 101) with success.                      *)
CanCapture(t) == intent[t] = "AUTHORIZED" \/ (t \in Deposits /\ intent[t] = "VERIFIED")

VerifyAtGateway(t) ==
  /\ phase[t] = "locked" /\ CanCapture(t)
  /\ phase'  = [phase EXCEPT ![t] = "paid"]
  /\ intent' = [intent EXCEPT ![t] = "VERIFIED"]
  /\ UNCHANGED <<rows, sweep, books, walletVars, told>>

(* Rolls back, or commits having changed nothing: the row lock is released. *)
Release(t) ==
  /\ phase' = [phase EXCEPT ![t] = "idle"]
  /\ UNCHANGED <<rows, intent, sweep, books, walletVars>>

VerifyRefused(t) == phase[t] = "locked" /\ ~CanCapture(t) /\ Release(t) /\ UNCHANGED told

SomeWalletClosed(t) == payee[t] \in closed \/ payer[t] \in closed

AffordableOffByOne(t) ==    \* mutant
  t \in Purchases => balance[payer[t]] - Amount[t] + 1 >= 0

Affordable(t) == t \in Purchases => balance[payer[t]] - Amount[t] >= 0

PostCreditOnly(t) ==    \* mutant: the debit leg is forgotten
  balance' = [w \in Wallets |-> balance[w] + (IF w = payee[t] THEN Amount[t] ELSE 0)]

(* The journal entry of t: a purchase debits the payer and credits the      *)
(* payee; a deposit's debit side is BANK_CASH, not a wallet.                *)
Post(t) ==
  balance' = [w \in Wallets |-> balance[w] + (IF w = payee[t] THEN Amount[t] ELSE 0)
                                           - (IF w = payer[t] THEN Amount[t] ELSE 0)]

NotifiedAlways(t) == told \cup {t}    \* mutant: the deposit branch notifies too

Notified(t) == told \cup ({t} \cap Purchases)

VerifySettle(t) ==
  /\ phase[t] = "paid" /\ ~SomeWalletClosed(t) /\ Affordable(t)
  /\ Post(t)
  /\ entries' = [entries EXCEPT ![t] = @ + 1]
  /\ status'  = [status EXCEPT ![t] = "COMPLETED"]
  /\ phase'   = [phase EXCEPT ![t] = "idle"]
  /\ told'    = Notified(t)
  /\ UNCHANGED <<payer, payee, overdue, intent, sweep, reversals, paidOut, walletVars>>

(* A closed wallet or an insufficient balance: the branch assigns REVERSED, *)
(* saves and throws inside the same DB transaction, so nothing is kept.     *)
VerifyReject(t) ==
  phase[t] = "paid" /\ (SomeWalletClosed(t) \/ ~Affordable(t)) /\ Release(t) /\ UNCHANGED told

(* The process dies, or the gateway call or a query throws.                 *)
VerifyAbort(t) == phase[t] # "idle" /\ Release(t) /\ UNCHANGED told

(* The same after notifyMerchantCallback and before COMMIT.                 *)
VerifyLoseCommit(t) ==
  /\ phase[t] = "paid" /\ ~SomeWalletClosed(t) /\ Affordable(t) /\ t \in Purchases
  /\ told' = told \cup {t}
  /\ Release(t)

----------------------------------------------------------------------------
(* Ways a row becomes REVERSED.                                             *)

Kill(t) ==
  /\ phase[t] = "idle" /\ status[t] = "PENDING"
  /\ status' = [status EXCEPT ![t] = "REVERSED"]
  /\ UNCHANGED <<payer, payee, overdue, intent, phase, books, walletVars, told>>

CancelPending(t) == Kill(t) /\ UNCHANGED sweep

SweepFindPurchases ==    \* mutant: the sweep's filter forgets deposits
  /\ sweep = {}
  /\ sweep' = {t \in Purchases : status[t] = "PENDING" /\ overdue[t]}
  /\ UNCHANGED <<rows, intent, phase, books, walletVars, told>>

SweepFind ==
  /\ sweep = {}
  /\ sweep' = {t \in Txns : status[t] = "PENDING" /\ overdue[t]}
  /\ UNCHANGED <<rows, intent, phase, books, walletVars, told>>

SweepExpire(t) == t \in sweep /\ Kill(t) /\ sweep' = sweep \ {t}

SweepSkip(t) ==    \* the conditional UPDATE affected no row
  /\ t \in sweep /\ phase[t] = "idle" /\ status[t] # "PENDING"
  /\ sweep' = sweep \ {t}
  /\ UNCHANGED <<rows, intent, phase, books, walletVars, told>>

(* reverseTransaction on a PENDING row is Kill again, for a purchase whose  *)
(* payer or payee asks; on a COMPLETED one it moves the money back.  It     *)
(* reads no closedAt.                                                       *)
ReversePending(p) == Kill(p) /\ UNCHANGED sweep

MoveBack(p) ==
  /\ status'    = [status EXCEPT ![p] = "REVERSED"]
  /\ reversals' = [reversals EXCEPT ![p] = @ + 1]
  /\ balance'   = [w \in Wallets |-> balance[w] + (IF w = payer[p] THEN Amount[p] ELSE 0)
                                                - (IF w = payee[p] THEN Amount[p] ELSE 0)]
  /\ UNCHANGED <<payer, payee, overdue, intent, phase, sweep, entries, paidOut, walletVars, told>>

RefundTwice(p) ==    \* mutant: without the "already reversed" conflict
  /\ phase[p] = "idle" /\ entries[p] > 0 /\ reversals[p] < 2
  /\ balance[payee[p]] - Amount[p] >= 0
  /\ MoveBack(p)

RefundUnfunded(p) ==    \* mutant: without the merchant's floor check
  phase[p] = "idle" /\ status[p] = "COMPLETED" /\ MoveBack(p)

Refund(p) ==
  /\ phase[p] = "idle" /\ status[p] = "COMPLETED"
  /\ balance[payee[p]] - Amount[p] >= 0
  /\ MoveBack(p)

----------------------------------------------------------------------------
(* Wallets.  closeForUser and closeAsAdmin read the balance and then update *)
(* closedAt, with no lock in between.  sweepAutoWithdraw (a wallet without  *)
(* splits) pays the merchant's whole balance out under the wallet's lock.   *)

CloseCheck(w) ==
  /\ w \notin closed /\ balance[w] = 0
  /\ closing' = closing \cup {w}
  /\ UNCHANGED <<rows, intent, phase, sweep, books, closed, told>>

CloseCommit(w) ==
  /\ w \in closing
  /\ closing' = closing \ {w}
  /\ closed'  = closed \cup {w}
  /\ UNCHANGED <<rows, intent, phase, sweep, books, told>>

Reopen(w) ==
  /\ w \in closed
  /\ closed' = closed \ {w}
  /\ UNCHANGED <<rows, intent, phase, sweep, books, closing, told>>

PayOut(m) ==
  /\ balance[m] > 0
  /\ paidOut' = [paidOut EXCEPT ![m] = @ + balance[m]]
  /\ balance' = [balance EXCEPT ![m] = 0]
  /\ UNCHANGED <<rows, intent, phase, sweep, entries, reversals, walletVars, told>>

----------------------------------------------------------------------------
VerifyEnd(t) == \/ VerifyAtGateway(t) \/ VerifyRefused(t) \/ VerifySettle(t)
                \/ VerifyReject(t) \/ VerifyAbort(t) \/ VerifyLoseCommit(t)

TxnStep(t) == \/ Confirm(t) \/ CancelAtGateway(t) \/ IntentExpires(t) \/ PassExpiry(t)
              \/ VerifyBegin(t) \/ VerifyEnd(t)
              \/ CancelPending(t) \/ SweepExpire(t) \/ SweepSkip(t)

PurchaseStep(p) == \/ \E c \in Customers, m \in Merchants : InitiatePurchase(p, c, m)
                   \/ \E m \in Merchants : InitiateCharge(p, m)
                   \/ \E c \in Customers : AttachWallet(p, c)
                   \/ ReversePending(p) \/ Refund(p)

WalletStep(w) == CloseCheck(w) \/ CloseCommit(w) \/ Reopen(w)

Next == \/ \E t \in Txns : TxnStep(t)
        \/ \E p \in Purchases : PurchaseStep(p)
        \/ \E d \in Deposits, c \in Customers : Deposit(d, c)
        \/ \E w \in Wallets : WalletStep(w)
        \/ \E m \in Merchants : PayOut(m)
        \/ SweepFind

Spec == Init /\ [][Next]_vars

(* Time passes; the 30-second interval keeps running the sweep and its      *)
(* updates; a verification request does not hang for ever, it ends one way  *)
(* or another.  Customers and merchants owe nothing.                        *)
Fairness ==
  /\ \A t \in Txns : WF_vars(PassExpiry(t)) /\ WF_vars(VerifyEnd(t))
                     /\ WF_vars(SweepExpire(t)) /\ WF_vars(SweepSkip(t))
  /\ WF_vars(SweepFind)

FairSpec == Spec /\ Fairness

----------------------------------------------------------------------------
(* Properties.                                                              *)

(* Every variable has its type; a wallet balance is any integer here, that  *)
(* it is never negative is NoOverdraft.                                     *)
TypeOK ==
  /\ status \in [Txns -> Statuses]
  /\ payer \in [Txns -> Customers \cup {NoWallet}]
  /\ payee \in [Txns -> Wallets \cup {NoWallet}]
  /\ overdue \in [Txns -> BOOLEAN]
  /\ intent \in [Txns -> Intents]
  /\ phase \in [Txns -> Phases]
  /\ sweep \subseteq Txns
  /\ entries \in [Txns -> Nat]
  /\ reversals \in [Txns -> Nat]
  /\ balance \in [Wallets -> Int]
  /\ paidOut \in [Wallets -> Int]
  /\ closed \subseteq Wallets
  /\ closing \subseteq Wallets
  /\ told \subseteq Purchases

(* verifyPurchase, reverseTransaction and the sweep race on one row; however *)
(* they interleave and fail, a transaction's money is posted exactly when    *)
(* its status says so: once if it ever completed, taken back once if it was  *)
(* refunded, never otherwise.                                                *)
MoneyMatchesStatus ==
  \A t \in Txns :
    /\ status[t] \in {"none", "PENDING"} => entries[t] = 0 /\ reversals[t] = 0
    /\ status[t] = "COMPLETED" => entries[t] = 1 /\ reversals[t] = 0
    /\ status[t] = "REVERSED"  => entries[t] = reversals[t] /\ entries[t] \in {0, 1}

(* No order of purchases, refunds and payouts takes a wallet below the floor *)
(* of 0 that each of them checks after locking the wallet.                   *)
NoOverdraft == \A w \in Wallets : balance[w] >= 0

(* Money moves on the ledger, and a merchant is told of a completed purchase, *)
(* only once the gateway has captured the payment, and a payer is attached.  *)
OnlyCapturedMoves ==
  \A t \in Txns :
    entries[t] > 0 \/ t \in told =>
      /\ intent[t] = "VERIFIED"
      /\ t \in Purchases => payer[t] \in Customers

(* A verification in flight holds a PENDING row that has its payer, and has  *)
(* captured the payment before it settles; a row has its payee from the      *)
(* start, a merchant for a purchase and the depositor for a deposit, which   *)
(* never gets a payer.  With the three above, this is inductive.             *)
VerifiedRowIsPending ==
  \A t \in Txns :
    /\ phase[t] # "idle" => status[t] = "PENDING" /\ (t \in Deposits \/ payer[t] \in Customers)
    /\ phase[t] = "paid" => intent[t] = "VERIFIED"
    /\ status[t] = "none" => payer[t] = NoWallet
    /\ status[t] # "none" => payee[t] \in (IF t \in Purchases THEN Merchants ELSE Customers)
    /\ t \in Deposits => payer[t] = NoWallet

(* A wallet's balance is its opening balance plus the effect of its          *)
(* COMPLETED transactions less its payouts: replaying the transactions table *)
(* gives the balance the ledger derives from postings.                       *)
LedgerExplained ==
  LET done(S) == SumFunctionOnSet(Amount, {t \in S : status[t] = "COMPLETED"})
  IN  \A w \in Wallets :
        balance[w] + paidOut[w]
          = Opening[w] + done({t \in Txns : payee[t] = w}) - done({t \in Txns : payer[t] = w})

(* The status of a row only moves forward; a COMPLETED one leaves that       *)
(* status only together with its reversal, a REVERSED one never.             *)
StatusOrder ==
  [][\A t \in Txns :
       \/ status'[t] = status[t]
       \/ status[t] = "none" /\ status'[t] = "PENDING"
       \/ status[t] = "PENDING" /\ status'[t] \in {"COMPLETED", "REVERSED"}
       \/ status[t] = "COMPLETED" /\ status'[t] = "REVERSED"
          /\ reversals'[t] = reversals[t] + 1]_vars

(* A verification settles the row it checked: while it holds the row nobody  *)
(* else changes its status or its payer, and a payer once attached is kept.  *)
CheckedRowIsSettled ==
  [][\A t \in Txns :
       /\ payer[t] # NoWallet => payer'[t] = payer[t]
       /\ phase[t] # "idle" => payer'[t] = payer[t]
       /\ phase[t] # "idle" /\ status'[t] # status[t] =>
            phase[t] = "paid" /\ phase'[t] = "idle" /\ status'[t] = "COMPLETED"]_vars

(* Every payment is resolved in the end: verified, canceled, or reversed by  *)
(* the timeout sweep ("the purchase stays PENDING and the timeout sweep will *)
(* eventually reverse it").                                                  *)
EventuallyResolved ==
  \A t \in Txns : status[t] = "PENDING" ~> status[t] \in {"COMPLETED", "REVERSED"}

(* However verifications, cancels, sweeps, refunds and crashes interleave,   *)
(* the detailed payments implement MoneyMoves.  A payment is done when its    *)
(* entry is posted and undone when its reversal is.                           *)
Life(t) == CASE status[t] = "none"      -> "unborn"
             [] status[t] = "PENDING"   -> "waiting"
             [] status[t] = "COMPLETED" -> "done"
             [] status[t] = "REVERSED"  -> IF reversals[t] > 0 THEN "undone" ELSE "dead"

Legs(t) == [from |-> IF entries[t] > 0 THEN payer[t] ELSE NoWallet,
            to   |-> IF entries[t] > 0 THEN payee[t] ELSE NoWallet]

Moves == INSTANCE MoneyMoves WITH life <- [t \in Txns |-> Life(t)],
                                  legs <- [t \in Txns |-> Legs(t)]

ImplementsMoneyMoves == Moves!Spec

============================================================================
