-------------------------- MODULE Payments_proofs --------------------------
(***************************************************************************)
(* Proofs about Payments, for any purchases, deposits, wallets and amounts.*)
(* IInv is the inductive invariant: the money, overdraft and capture       *)
(* invariants hold because a verification in flight holds a PENDING row    *)
(* with its payer fixed and its payment captured (VerifiedRowIsPending).   *)
(***************************************************************************)
EXTENDS Payments, SumTheorems, TLAPS

IInv == TypeOK /\ MoneyMatchesStatus /\ NoOverdraft /\ OnlyCapturedMoves /\ VerifiedRowIsPending

USE TxnAssumption, WalletAssumption, AmountAssumption, OpeningAssumption

(* The initial state satisfies the inductive invariant.                     *)
LEMMA InitInv == Init => IInv
BY DEF Init, IInv, TypeOK, MoneyMatchesStatus, NoOverdraft, OnlyCapturedMoves,
       VerifiedRowIsPending, Txns, Wallets, Statuses, Intents, Phases

(* Inserting the PENDING row, with the payer and payee the three initiating *)
(* operations give it.                                                      *)
LEMMA InsertInv ==
  ASSUME IInv, NEW t \in Txns, NEW from \in Customers \cup {NoWallet}, NEW to \in Wallets,
         t \in Deposits => from = NoWallet /\ to \in Customers,
         t \in Purchases => to \in Merchants,
         Insert(t, from, to)
  PROVE  IInv'
BY DEF Insert, IInv, TypeOK, MoneyMatchesStatus, NoOverdraft, OnlyCapturedMoves,
       VerifiedRowIsPending, Txns, Wallets, Statuses, Intents, Phases, books, walletVars

(* A payer is attached to a row nobody holds. *)
LEMMA AttachInv ==
  ASSUME IInv, NEW p \in Purchases, NEW c \in Customers, AttachWallet(p, c)
  PROVE  IInv'
BY DEF AttachWallet,
       IInv, TypeOK, MoneyMatchesStatus, NoOverdraft, OnlyCapturedMoves,
       VerifiedRowIsPending, Txns, Wallets, Statuses, Intents, Phases, rows, books, walletVars

(* The customer's steps at the gateway leave VERIFIED intents alone.        *)
LEMMA GatewayInv ==
  ASSUME IInv, NEW t \in Txns, Confirm(t) \/ CancelAtGateway(t) \/ IntentExpires(t)
  PROVE  IInv'
BY DEF Confirm, CancelAtGateway, IntentExpires, GatewayStep,
       IInv, TypeOK, MoneyMatchesStatus, NoOverdraft, OnlyCapturedMoves,
       VerifiedRowIsPending, Txns, Wallets, Statuses, Intents, Phases, rows, books, walletVars

(* The passing of expiresAt changes the overdue flag alone.                 *)
LEMMA PassExpiryInv ==
  ASSUME IInv, NEW t \in Txns, PassExpiry(t)
  PROVE  IInv'
<1>1. overdue' \in [Txns -> BOOLEAN]
  BY Zenon DEF PassExpiry, IInv, TypeOK
<1>2. UNCHANGED <<status, payer, payee, intent, phase, sweep, books, walletVars, told>>
  BY DEF PassExpiry
<1> QED
  BY <1>1, <1>2 DEF IInv, TypeOK, MoneyMatchesStatus, NoOverdraft, OnlyCapturedMoves,
       VerifiedRowIsPending, books, walletVars

(* A verification takes a PENDING row that has its payer. *)
LEMMA VerifyBeginInv ==
  ASSUME IInv, NEW t \in Txns, VerifyBegin(t)
  PROVE  IInv'
BY DEF VerifyBegin,
       IInv, TypeOK, MoneyMatchesStatus, NoOverdraft, OnlyCapturedMoves,
       VerifiedRowIsPending, Txns, Wallets, Statuses, Intents, Phases, rows, books, walletVars

(* It captures the payment, or gives the row back unchanged. *)
LEMMA VerifyReleaseInv ==
  ASSUME IInv, NEW t \in Txns, VerifyAtGateway(t) \/ VerifyRefused(t) \/ VerifyReject(t) \/ VerifyAbort(t) \/ VerifyLoseCommit(t)
  PROVE  IInv'
BY DEF VerifyAtGateway, CanCapture, VerifyRefused, VerifyReject, VerifyAbort, VerifyLoseCommit, Release,
       IInv, TypeOK, MoneyMatchesStatus, NoOverdraft, OnlyCapturedMoves,
       VerifiedRowIsPending, Txns, Wallets, Statuses, Intents, Phases, rows, books, walletVars

(* It settles: one entry, and the payer keeps the floor. *)
LEMMA VerifySettleInv ==
  ASSUME IInv, NEW t \in Txns, VerifySettle(t)
  PROVE  IInv'
BY DEF VerifySettle, Affordable, Post, Notified,
       IInv, TypeOK, MoneyMatchesStatus, NoOverdraft, OnlyCapturedMoves,
       VerifiedRowIsPending, Txns, Wallets, Statuses, Intents, Phases, rows, books, walletVars

(* A PENDING row nobody holds is reversed with nothing to unwind. *)
LEMMA KillInv ==
  ASSUME IInv, NEW t \in Txns, CancelPending(t) \/ SweepExpire(t) \/ ReversePending(t)
  PROVE  IInv'
BY DEF CancelPending, SweepExpire, ReversePending, Kill,
       IInv, TypeOK, MoneyMatchesStatus, NoOverdraft, OnlyCapturedMoves,
       VerifiedRowIsPending, Txns, Wallets, Statuses, Intents, Phases, rows, books, walletVars

(* The sweep's own bookkeeping. *)
LEMMA SweepInv ==
  ASSUME IInv, SweepFind \/ \E t \in Txns : SweepSkip(t)
  PROVE  IInv'
BY DEF SweepFind, SweepSkip,
       IInv, TypeOK, MoneyMatchesStatus, NoOverdraft, OnlyCapturedMoves,
       VerifiedRowIsPending, Txns, Wallets, Statuses, Intents, Phases, rows, books, walletVars

(* A refund takes the amount back once, and the merchant keeps the floor. *)
LEMMA RefundInv ==
  ASSUME IInv, NEW p \in Purchases, Refund(p)
  PROVE  IInv'
BY DEF Refund, MoveBack,
       IInv, TypeOK, MoneyMatchesStatus, NoOverdraft, OnlyCapturedMoves,
       VerifiedRowIsPending, Txns, Wallets, Statuses, Intents, Phases, rows, books, walletVars

(* Closing and reopening wallets move no money. *)
LEMMA WalletInv ==
  ASSUME IInv, NEW w \in Wallets, WalletStep(w)
  PROVE  IInv'
BY DEF WalletStep, CloseCheck, CloseCommit, Reopen,
       IInv, TypeOK, MoneyMatchesStatus, NoOverdraft, OnlyCapturedMoves,
       VerifiedRowIsPending, Txns, Wallets, Statuses, Intents, Phases, rows, books, walletVars

(* A payout empties the merchant's wallet. *)
LEMMA PayOutInv ==
  ASSUME IInv, NEW m \in Merchants, PayOut(m)
  PROVE  IInv'
BY DEF PayOut,
       IInv, TypeOK, MoneyMatchesStatus, NoOverdraft, OnlyCapturedMoves,
       VerifiedRowIsPending, Txns, Wallets, Statuses, Intents, Phases, rows, books, walletVars


(* A step that changes no variable keeps the invariant.                     *)
LEMMA StutterInv == IInv /\ UNCHANGED vars => IInv'
BY DEF vars, IInv, TypeOK, MoneyMatchesStatus, NoOverdraft, OnlyCapturedMoves,
       VerifiedRowIsPending, rows, books, walletVars

(* Every step keeps the inductive invariant: one step per operation.        *)
LEMMA NextInv == IInv /\ [Next]_vars => IInv'
<1> SUFFICES ASSUME IInv, [Next]_vars
             PROVE  IInv'
  OBVIOUS
<1>1. ASSUME NEW t \in Txns, TxnStep(t)
      PROVE  IInv'
  BY <1>1, GatewayInv, PassExpiryInv, VerifyBeginInv, VerifyReleaseInv, VerifySettleInv,
     KillInv, SweepInv DEF TxnStep, VerifyEnd
<1>2. ASSUME NEW p \in Purchases, PurchaseStep(p)
      PROVE  IInv'
  <2>1. ASSUME NEW c \in Customers, NEW m \in Merchants, InitiatePurchase(p, c, m)
        PROVE  IInv'
    BY <2>1, InsertInv DEF InitiatePurchase, Txns, Wallets
  <2>2. ASSUME NEW m \in Merchants, InitiateCharge(p, m)
        PROVE  IInv'
    BY <2>2, InsertInv DEF InitiateCharge, Txns, Wallets
  <2>3. ASSUME NEW c \in Customers, AttachWallet(p, c)
        PROVE  IInv'
    BY <2>3, AttachInv
  <2>4. CASE ReversePending(p)
    BY <2>4, KillInv DEF Txns
  <2>5. CASE Refund(p)
    BY <2>5, RefundInv
  <2> QED
    BY <1>2, <2>1, <2>2, <2>3, <2>4, <2>5 DEF PurchaseStep
<1>3. ASSUME NEW d \in Deposits, NEW c \in Customers, Deposit(d, c)
      PROVE  IInv'
  BY <1>3, InsertInv DEF Deposit, Txns, Wallets
<1>4. ASSUME NEW w \in Wallets, WalletStep(w)
      PROVE  IInv'
  BY <1>4, WalletInv
<1>5. ASSUME NEW m \in Merchants, PayOut(m)
      PROVE  IInv'
  BY <1>5, PayOutInv
<1>6. CASE SweepFind
  BY <1>6, SweepInv
<1>7. CASE UNCHANGED vars
  BY <1>7, StutterInv
<1> QED
  BY <1>1, <1>2, <1>3, <1>4, <1>5, <1>6, <1>7 DEF Next

LEMMA Invariance == Spec => []IInv
BY InitInv, NextInv, PTL DEF Spec

(* Every variable of the payment state machine keeps its type.              *)
THEOREM TypeCorrect == Spec => []TypeOK
<1>1. IInv => TypeOK
  BY DEF IInv
<1> QED
  BY <1>1, Invariance, PTL

(* However verifications, cancels, refunds, sweeps and crashes interleave,  *)
(* each transaction's money is posted once if it completed, taken back once *)
(* if it was refunded, and never otherwise.                                 *)
THEOREM MoneyMovesOnce == Spec => []MoneyMatchesStatus
<1>1. IInv => MoneyMatchesStatus
  BY DEF IInv
<1> QED
  BY <1>1, Invariance, PTL

(* No wallet goes below 0.                                                  *)
THEOREM FloorKept == Spec => []NoOverdraft
<1>1. IInv => NoOverdraft
  BY DEF IInv
<1> QED
  BY <1>1, Invariance, PTL

(* Money moves only for a captured payment with an attached payer.          *)
THEOREM CaptureFirst == Spec => []OnlyCapturedMoves
<1>1. IInv => OnlyCapturedMoves
  BY DEF IInv
<1> QED
  BY <1>1, Invariance, PTL

(* A verification in flight holds a PENDING row with its payer.             *)
THEOREM VerificationHoldsRow == Spec => []VerifiedRowIsPending
<1>1. IInv => VerifiedRowIsPending
  BY DEF IInv
<1> QED
  BY <1>1, Invariance, PTL

----------------------------------------------------------------------------
(* Action properties, from the invariant and from what each operation       *)
(* assigns.                                                                 *)

(* One row's step as StatusOrder and CheckedRowIsSettled see it.            *)
StatusStep(t) ==
  \/ status'[t] = status[t]
  \/ status[t] = "none" /\ status'[t] = "PENDING"
  \/ status[t] = "PENDING" /\ status'[t] \in {"COMPLETED", "REVERSED"}
  \/ status[t] = "COMPLETED" /\ status'[t] = "REVERSED" /\ reversals'[t] = reversals[t] + 1

CheckedStep(t) ==
  /\ payer[t] # NoWallet => payer'[t] = payer[t]
  /\ phase[t] # "idle" => payer'[t] = payer[t]
  /\ phase[t] # "idle" /\ status'[t] # status[t] =>
       phase[t] = "paid" /\ phase'[t] = "idle" /\ status'[t] = "COMPLETED"

LEMMA InsertStep ==
  ASSUME IInv, NEW u \in Txns, NEW from, NEW to, Insert(u, from, to), NEW t \in Txns
  PROVE  StatusStep(t) /\ CheckedStep(t)
BY DEF Insert, IInv, TypeOK, VerifiedRowIsPending, StatusStep, CheckedStep

LEMMA RowStep ==
  ASSUME IInv, [Next]_vars, NEW t \in Txns
  PROVE  StatusStep(t) /\ CheckedStep(t)
<1> USE DEF IInv, TypeOK, VerifiedRowIsPending, StatusStep, CheckedStep
<1>1. ASSUME NEW u \in Txns,
             \/ Confirm(u) \/ CancelAtGateway(u) \/ IntentExpires(u) \/ PassExpiry(u)
             \/ VerifyBegin(u) \/ VerifyAtGateway(u) \/ VerifyRefused(u)
             \/ VerifyReject(u) \/ VerifyAbort(u) \/ VerifyLoseCommit(u) \/ SweepSkip(u)
      PROVE  StatusStep(t) /\ CheckedStep(t)
  <2>1. UNCHANGED <<status, payer>>
    BY <1>1 DEF Confirm, CancelAtGateway, IntentExpires, GatewayStep, PassExpiry, VerifyBegin,
       VerifyAtGateway, VerifyRefused, VerifyReject, VerifyAbort, VerifyLoseCommit, Release,
       SweepSkip, rows
  <2> QED  BY <2>1
<1>2. ASSUME NEW u \in Txns, VerifySettle(u)
      PROVE  StatusStep(t) /\ CheckedStep(t)
  BY <1>2 DEF VerifySettle
<1>3. ASSUME NEW u \in Txns, CancelPending(u) \/ SweepExpire(u) \/ ReversePending(u)
      PROVE  StatusStep(t) /\ CheckedStep(t)
  BY <1>3 DEF CancelPending, SweepExpire, ReversePending, Kill
<1>4. ASSUME NEW p \in Purchases, PurchaseStep(p)
      PROVE  StatusStep(t) /\ CheckedStep(t)
  <2>1. ASSUME NEW c \in Customers, AttachWallet(p, c)
        PROVE  StatusStep(t) /\ CheckedStep(t)
    BY <2>1 DEF AttachWallet, Txns
  <2>2. CASE Refund(p)
    BY <2>2 DEF Refund, MoveBack, Txns
  <2> QED
    BY <1>3, <1>4, <2>1, <2>2, InsertStep
    DEF PurchaseStep, InitiatePurchase, InitiateCharge, Txns
<1>5. ASSUME NEW d \in Deposits, NEW c \in Customers, Deposit(d, c)
      PROVE  StatusStep(t) /\ CheckedStep(t)
  BY <1>5, InsertStep DEF Deposit, Txns
<1>6. CASE \/ \E w \in Wallets : WalletStep(w)
           \/ \E m \in Merchants : PayOut(m)
           \/ SweepFind \/ UNCHANGED vars
  <2>1. UNCHANGED <<status, payer>>
    BY <1>6 DEF WalletStep, CloseCheck, CloseCommit, Reopen, PayOut, SweepFind, vars, rows
  <2> QED  BY <2>1
<1> QED
  BY <1>1, <1>2, <1>3, <1>4, <1>5, <1>6 DEF Next, TxnStep, VerifyEnd

(* A row's status only moves forward, and a completed one is reversed only  *)
(* together with its reversal entry.                                        *)
THEOREM StatusMovesForward == Spec => StatusOrder
<1>1. IInv /\ [Next]_vars => [\A t \in Txns : StatusStep(t)]_vars
  BY RowStep
<1> QED
  BY <1>1, Invariance, PTL DEF Spec, StatusOrder, StatusStep

(* A verification settles the row it checked: the row lock keeps the        *)
(* payer and the status until the verification itself settles or lets go.   *)
THEOREM RowSettledAsChecked == Spec => CheckedRowIsSettled
<1>1. IInv /\ [Next]_vars => [\A t \in Txns : CheckedStep(t)]_vars
  BY RowStep
<1> QED
  BY <1>1, Invariance, PTL DEF Spec, CheckedRowIsSettled, CheckedStep

----------------------------------------------------------------------------
(* The detailed payments implement MoneyMoves: every operation maps to one  *)
(* abstract step or to none.                                                *)

(* Steps that touch neither status nor money are abstract stuttering.       *)
LEMMA QuietStep ==
  ASSUME IInv,
         \A t \in Txns : status'[t] = status[t] /\ reversals'[t] = reversals[t]
                         /\ entries'[t] = entries[t]
                         /\ (entries[t] > 0 => payer'[t] = payer[t] /\ payee'[t] = payee[t]),
         balance' = balance
  PROVE  UNCHANGED Moves!vars
<1>1. \A t \in Txns : Life(t)' = Life(t) /\ Legs(t)' = Legs(t)
  BY DEF Life, Legs
<1>2. [t \in Txns |-> Life(t)]' = [t \in Txns |-> Life(t)]
  BY <1>1
<1>3. [t \in Txns |-> Legs(t)]' = [t \in Txns |-> Legs(t)]
  BY <1>1
<1> QED
  BY <1>2, <1>3 DEF Moves!vars

(* One row's life changes from what Advance expects to what it assigns.     *)
LEMMA AdvanceStep ==
  ASSUME NEW t \in Txns, NEW from, NEW to, Life(t) = from, Life(t)' = to,
         \A u \in Txns \ {t} : Life(u)' = Life(u)
  PROVE  Moves!Advance(t, from, to)
<1>1. [u \in Txns |-> Life(u)]' = [[u \in Txns |-> Life(u)] EXCEPT ![t] = to]
  OBVIOUS
<1> QED
  BY <1>1 DEF Moves!Advance

LEMMA SameLegs ==
  ASSUME \A u \in Txns : Legs(u)' = Legs(u)
  PROVE  [u \in Txns |-> Legs(u)]' = [u \in Txns |-> Legs(u)]
OBVIOUS

LEMMA InsertRefines ==
  ASSUME IInv, NEW t \in Txns, NEW from, NEW to, Insert(t, from, to)
  PROVE  Moves!Next
<1> USE DEF IInv, TypeOK, MoneyMatchesStatus, Insert, books
<1>1. Life(t) = "unborn" /\ Life(t)' = "waiting"
  BY DEF Life
<1>2. \A u \in Txns \ {t} : Life(u)' = Life(u)
  BY DEF Life
<1>3. \A u \in Txns : Legs(u)' = Legs(u)
  BY DEF Legs
<1>4. Moves!Open(t)
  BY <1>1, <1>2, <1>3, AdvanceStep, SameLegs DEF Moves!Open
<1> QED
  BY <1>4 DEF Moves!Next, Moves!Txns, Txns

LEMMA KillRefines ==
  ASSUME IInv, NEW t \in Txns, Kill(t)
  PROVE  Moves!Next
<1> USE DEF IInv, TypeOK, MoneyMatchesStatus, Kill, books
<1>1. Life(t) = "waiting" /\ Life(t)' = "dead"
  BY DEF Life
<1>2. \A u \in Txns \ {t} : Life(u)' = Life(u)
  BY DEF Life
<1>3. \A u \in Txns : Legs(u)' = Legs(u)
  BY DEF Legs
<1>4. Moves!Kill(t)
  BY <1>1, <1>2, <1>3, AdvanceStep, SameLegs DEF Moves!Kill
<1> QED
  BY <1>4 DEF Moves!Next, Moves!Txns, Txns

LEMMA SettleRefines ==
  ASSUME IInv, NEW t \in Txns, VerifySettle(t)
  PROVE  Moves!Next
<1> USE DEF IInv, TypeOK, MoneyMatchesStatus, VerifiedRowIsPending, VerifySettle
<1>1. Life(t) = "waiting" /\ Life(t)' = "done"
  BY DEF Life
<1>2. \A u \in Txns \ {t} : Life(u)' = Life(u)
  BY DEF Life
<1>3. Legs(t)' = [from |-> payer[t], to |-> payee[t]] /\ \A u \in Txns \ {t} : Legs(u)' = Legs(u)
  BY DEF Legs
<1>4. [u \in Txns |-> Legs(u)]'
        = [[u \in Txns |-> Legs(u)] EXCEPT ![t] = [from |-> payer[t], to |-> payee[t]]]
  BY <1>3
<1>5. payer[t] \in Customers \cup {NoWallet} /\ payee[t] \in Wallets
      /\ (payer[t] = NoWallet <=> t \in Deposits)
  BY DEF Txns, Wallets
<1>6. Moves!Transfer(payer[t], payee[t], Amount[t])
  BY <1>5 DEF Moves!Transfer, Affordable, Post, Moves!Wallets, Wallets, Txns
<1>7. Moves!Move(t)
  BY <1>1, <1>2, <1>4, <1>5, <1>6, AdvanceStep DEF Moves!Move, Moves!Wallets, Wallets
<1> QED
  BY <1>7 DEF Moves!Next, Moves!Txns, Txns

LEMMA RefundRefines ==
  ASSUME IInv, NEW p \in Purchases, Refund(p)
  PROVE  Moves!Next
<1> USE DEF IInv, TypeOK, MoneyMatchesStatus, OnlyCapturedMoves, VerifiedRowIsPending,
            Refund, MoveBack, Txns
<1>1. Life(p) = "done" /\ Life(p)' = "undone"
  BY DEF Life
<1>2. \A u \in Txns \ {p} : Life(u)' = Life(u)
  BY DEF Life
<1>3. \A u \in Txns : Legs(u)' = Legs(u)
  BY DEF Legs
<1>4. [u \in Txns |-> Legs(u)][p] = [from |-> payer[p], to |-> payee[p]]
  BY DEF Legs
<1>5. Moves!Transfer(payee[p], payer[p], Amount[p])
  BY DEF Moves!Transfer, Moves!Wallets, Wallets
<1>6. Moves!Undo(p)
  BY <1>1, <1>2, <1>3, <1>4, <1>5, AdvanceStep, SameLegs DEF Moves!Undo
<1> QED
  BY <1>6 DEF Moves!Next

LEMMA PayOutRefines ==
  ASSUME IInv, NEW m \in Merchants, PayOut(m)
  PROVE  Moves!Next
<1>1. [u \in Txns |-> Life(u)]' = [u \in Txns |-> Life(u)]
  BY DEF PayOut, Life, rows
<1>2. [u \in Txns |-> Legs(u)]' = [u \in Txns |-> Legs(u)]
  BY DEF PayOut, Legs, rows
<1>3. Moves!PayOut(m)
  BY <1>1, <1>2 DEF Moves!PayOut, PayOut
<1> QED
  BY <1>3 DEF Moves!Next

LEMMA StepRefines == IInv /\ [Next]_vars => [Moves!Next]_(Moves!vars)
<1> SUFFICES ASSUME IInv, [Next]_vars
             PROVE  [Moves!Next]_(Moves!vars)
  OBVIOUS
<1> USE DEF IInv, TypeOK
<1>1. ASSUME NEW u \in Txns,
             \/ Confirm(u) \/ CancelAtGateway(u) \/ IntentExpires(u) \/ PassExpiry(u)
             \/ VerifyBegin(u) \/ VerifyAtGateway(u) \/ VerifyRefused(u)
             \/ VerifyReject(u) \/ VerifyAbort(u) \/ VerifyLoseCommit(u) \/ SweepSkip(u)
      PROVE  UNCHANGED Moves!vars
  <2>1. UNCHANGED <<status, payer, payee, books>>
    BY <1>1 DEF Confirm, CancelAtGateway, IntentExpires, GatewayStep, PassExpiry, VerifyBegin,
       VerifyAtGateway, VerifyRefused, VerifyReject, VerifyAbort, VerifyLoseCommit, Release,
       SweepSkip, rows
  <2> QED  BY <2>1, QuietStep DEF books
<1>2. ASSUME NEW p \in Purchases, NEW c \in Customers, AttachWallet(p, c)
      PROVE  UNCHANGED Moves!vars
  BY <1>2, QuietStep DEF AttachWallet, MoneyMatchesStatus, Txns, books
<1>3. CASE (\E w \in Wallets : WalletStep(w)) \/ SweepFind \/ UNCHANGED vars
  <2>1. UNCHANGED <<status, payer, payee, books>>
    BY <1>3 DEF WalletStep, CloseCheck, CloseCommit, Reopen, SweepFind, vars, rows
  <2> QED  BY <2>1, QuietStep DEF books
<1>4. ASSUME NEW t \in Txns, CancelPending(t) \/ SweepExpire(t) \/ ReversePending(t)
      PROVE  Moves!Next
  BY <1>4, KillRefines DEF CancelPending, SweepExpire, ReversePending
<1>5. ASSUME NEW p \in Purchases, PurchaseStep(p)
      PROVE  [Moves!Next]_(Moves!vars)
  BY <1>2, <1>4, <1>5, InsertRefines, RefundRefines
  DEF PurchaseStep, InitiatePurchase, InitiateCharge, Txns
<1>6. ASSUME NEW d \in Deposits, NEW c \in Customers, Deposit(d, c)
      PROVE  Moves!Next
  BY <1>6, InsertRefines DEF Deposit, Txns
<1> QED
  BY <1>1, <1>3, <1>4, <1>5, <1>6, SettleRefines, PayOutRefines DEF Next, TxnStep, VerifyEnd

(* Payments, with everything that can interleave and fail in it, implements *)
(* the abstract promise: each payment moves its money at most once, in one  *)
(* step, and is undone at most once.                                        *)
THEOREM PaymentsImplementMoneyMoves == Spec => ImplementsMoneyMoves
<1>1. Init => Moves!Init
  BY DEF Init, Moves!Init, Moves!Txns, Moves!NoLegs, Txns, Life, Legs
<1> QED
  BY <1>1, StepRefines, Invariance, PTL DEF Spec, ImplementsMoneyMoves, Moves!Spec

----------------------------------------------------------------------------
(* The wallets' balances are explained by the transactions table.  Only a    *)
(* settlement and a refund change which transactions count, each by one;     *)
(* everything else leaves both sides as they are.                            *)

Incoming(w) == {t \in Txns : payee[t] = w /\ status[t] = "COMPLETED"}
Outgoing(w) == {t \in Txns : payer[t] = w /\ status[t] = "COMPLETED"}
Worth(S) == SumFunctionOnSet(Amount, S)

Explained(w) == balance[w] + paidOut[w] = Opening[w] + Worth(Incoming(w)) - Worth(Outgoing(w))

LEMMA LedgerIsExplained == LedgerExplained <=> \A w \in Wallets : Explained(w)
<1>1. \A w \in Wallets : /\ Incoming(w) = {t \in {u \in Txns : payee[u] = w} : status[t] = "COMPLETED"}
                         /\ Outgoing(w) = {t \in {u \in Txns : payer[u] = w} : status[t] = "COMPLETED"}
  BY DEF Incoming, Outgoing
<1> QED
  BY <1>1, Zenon DEF LedgerExplained, Explained, Worth

(* Sums of amounts are integers, and grow by the amount of a new member.    *)
LEMMA WorthFacts ==
  ASSUME NEW S \in SUBSET Txns
  PROVE  /\ Worth(S) \in Int
         /\ \A t \in Txns \ S : Worth(S \cup {t}) = Amount[t] + Worth(S)
<1>1. IsFiniteSet(Txns)
  BY FiniteAssumption, FS_Union, Zenon DEF Txns
<1>2. IsFiniteSet(S) /\ \A t \in Txns : Amount[t] \in Int
  BY <1>1, FS_Subset
<1> QED
  BY <1>2, SumType, SumAdd DEF Worth

(* A step that changes no completed transaction and no balance.             *)
LEMMA QuietLedger ==
  ASSUME LedgerExplained,
         \A t \in Txns : status'[t] = "COMPLETED" <=> status[t] = "COMPLETED",
         \A t \in Txns : status[t] = "COMPLETED" => payer'[t] = payer[t] /\ payee'[t] = payee[t],
         \A w \in Wallets : balance'[w] + paidOut'[w] = balance[w] + paidOut[w]
  PROVE  LedgerExplained'
<1>1. \A w \in Wallets : Incoming(w)' = Incoming(w) /\ Outgoing(w)' = Outgoing(w)
  BY DEF Incoming, Outgoing
<1>2. \A w \in Wallets : Explained(w)
  BY LedgerIsExplained
<1>3. \A w \in Wallets : Explained(w)'
  BY <1>1, <1>2, Zenon DEF Explained, Worth
<1>4. (\A w \in Wallets : Explained(w))'
  BY <1>3
<1> QED
  BY <1>4, LedgerIsExplained, PTL

(* A settlement: the transaction comes in at its payee and goes out at its  *)
(* payer.                                                                   *)
LEMMA SettleLedger ==
  ASSUME IInv, LedgerExplained, NEW t \in Txns, VerifySettle(t)
  PROVE  LedgerExplained'
<1>1. /\ status[t] = "PENDING" /\ status' = [status EXCEPT ![t] = "COMPLETED"]
      /\ UNCHANGED <<payer, payee, paidOut>>
      /\ status \in [Txns -> Statuses] /\ Amount[t] \in Int
  BY DEF VerifySettle, IInv, TypeOK, VerifiedRowIsPending
<1>2. ASSUME NEW w \in Wallets
      PROVE  Explained(w)'
  <2>1. t \notin Incoming(w) /\ t \notin Outgoing(w)
    BY <1>1 DEF Incoming, Outgoing
  <2>2. /\ Incoming(w)' = IF w = payee[t] THEN Incoming(w) \cup {t} ELSE Incoming(w)
        /\ Outgoing(w)' = IF w = payer[t] THEN Outgoing(w) \cup {t} ELSE Outgoing(w)
    BY <1>1 DEF Incoming, Outgoing
  <2>3. Incoming(w) \in SUBSET Txns /\ Outgoing(w) \in SUBSET Txns
    BY DEF Incoming, Outgoing
  <2>4. /\ Worth(Incoming(w)') = Worth(Incoming(w)) + (IF w = payee[t] THEN Amount[t] ELSE 0)
        /\ Worth(Outgoing(w)') = Worth(Outgoing(w)) + (IF w = payer[t] THEN Amount[t] ELSE 0)
        /\ Worth(Incoming(w)) \in Int /\ Worth(Outgoing(w)) \in Int
    <3>1. Worth(Incoming(w)) \in Int /\ Worth(Outgoing(w)) \in Int
      BY <2>3, WorthFacts
    <3>2. Worth(Incoming(w) \cup {t}) = Amount[t] + Worth(Incoming(w))
      BY <2>1, <2>3, WorthFacts
    <3>3. Worth(Outgoing(w) \cup {t}) = Amount[t] + Worth(Outgoing(w))
      BY <2>1, <2>3, WorthFacts
    <3> QED
      BY <1>1, <2>2, <3>1, <3>2, <3>3
  <2>5. balance'[w] = balance[w] + (IF w = payee[t] THEN Amount[t] ELSE 0)
                                 - (IF w = payer[t] THEN Amount[t] ELSE 0)
    BY DEF VerifySettle, Post
  <2>6. balance[w] \in Int /\ paidOut[w] \in Int /\ Opening[w] \in Int
    BY DEF IInv, TypeOK
  <2>7. balance[w] + paidOut[w] = Opening[w] + Worth(Incoming(w)) - Worth(Outgoing(w))
    BY LedgerIsExplained DEF Explained
  <2> HIDE DEF Worth
  <2>8. balance'[w] + paidOut'[w] = Opening[w] + Worth(Incoming(w)') - Worth(Outgoing(w)')
    BY <1>1, <2>4, <2>5, <2>6, <2>7
  <2> QED
    BY <2>8 DEF Explained, Worth
<1>3. (\A w \in Wallets : Explained(w))'
  BY <1>2
<1> QED
  BY <1>3, LedgerIsExplained, PTL

(* A refund: the transaction counts no more, and its amount moves back.     *)
LEMMA RefundLedger ==
  ASSUME IInv, LedgerExplained, NEW p \in Purchases, Refund(p)
  PROVE  LedgerExplained'
<1>1. /\ status[p] = "COMPLETED" /\ status' = [status EXCEPT ![p] = "REVERSED"]
      /\ UNCHANGED <<payer, payee, paidOut>>
      /\ status \in [Txns -> Statuses] /\ p \in Txns /\ Amount[p] \in Int
  BY DEF Refund, MoveBack, IInv, TypeOK, Txns
<1>2. ASSUME NEW w \in Wallets
      PROVE  Explained(w)'
  <2>1. p \notin Incoming(w)' /\ p \notin Outgoing(w)'
    BY <1>1 DEF Incoming, Outgoing
  <2>2. /\ Incoming(w) = IF w = payee[p] THEN Incoming(w)' \cup {p} ELSE Incoming(w)'
        /\ Outgoing(w) = IF w = payer[p] THEN Outgoing(w)' \cup {p} ELSE Outgoing(w)'
    BY <1>1 DEF Incoming, Outgoing
  <2>3. Incoming(w)' \in SUBSET Txns /\ Outgoing(w)' \in SUBSET Txns
    BY DEF Incoming, Outgoing
  <2>4. /\ Worth(Incoming(w)) = Worth(Incoming(w)') + (IF w = payee[p] THEN Amount[p] ELSE 0)
        /\ Worth(Outgoing(w)) = Worth(Outgoing(w)') + (IF w = payer[p] THEN Amount[p] ELSE 0)
        /\ Worth(Incoming(w)') \in Int /\ Worth(Outgoing(w)') \in Int
    <3>1. Worth(Incoming(w)') \in Int /\ Worth(Outgoing(w)') \in Int
      BY <2>3, WorthFacts
    <3>2. Worth(Incoming(w)' \cup {p}) = Amount[p] + Worth(Incoming(w)')
      BY <1>1, <2>1, <2>3, WorthFacts
    <3>3. Worth(Outgoing(w)' \cup {p}) = Amount[p] + Worth(Outgoing(w)')
      BY <1>1, <2>1, <2>3, WorthFacts
    <3> QED
      BY <1>1, <2>2, <3>1, <3>2, <3>3
  <2>5. balance'[w] = balance[w] + (IF w = payer[p] THEN Amount[p] ELSE 0)
                                 - (IF w = payee[p] THEN Amount[p] ELSE 0)
    BY DEF Refund, MoveBack
  <2>6. balance[w] \in Int /\ paidOut[w] \in Int /\ Opening[w] \in Int
    BY DEF IInv, TypeOK
  <2>7. balance[w] + paidOut[w] = Opening[w] + Worth(Incoming(w)) - Worth(Outgoing(w))
    BY LedgerIsExplained DEF Explained
  <2> HIDE DEF Worth
  <2>8. balance'[w] + paidOut'[w] = Opening[w] + Worth(Incoming(w)') - Worth(Outgoing(w)')
    BY <1>1, <2>4, <2>5, <2>6, <2>7
  <2> QED
    BY <2>8 DEF Explained, Worth
<1>3. (\A w \in Wallets : Explained(w))'
  BY <1>2
<1> QED
  BY <1>3, LedgerIsExplained, PTL

(* Inserting, attaching and killing touch rows that are not completed.      *)
LEMMA RowLedger ==
  ASSUME IInv, LedgerExplained, NEW t \in Txns,
         \/ \E from, to : Insert(t, from, to)
         \/ Kill(t)
         \/ \E c \in Customers : AttachWallet(t, c)
  PROVE  LedgerExplained'
<1>1. /\ status[t] \in {"none", "PENDING"} /\ status'[t] \in {"none", "PENDING", "REVERSED"}
      /\ UNCHANGED <<balance, paidOut>>
      /\ \A u \in Txns \ {t} : /\ status'[u] = status[u]
                               /\ payer'[u] = payer[u] /\ payee'[u] = payee[u]
  BY DEF Insert, Kill, AttachWallet, IInv, TypeOK, books
<1> QED
  BY <1>1, QuietLedger

(* A payout moves money from the balance to what is paid out.               *)
LEMMA PayOutLedger ==
  ASSUME IInv, LedgerExplained, NEW m \in Merchants, PayOut(m)
  PROVE  LedgerExplained'
<1>1. UNCHANGED <<status, payer, payee>>
  BY DEF PayOut, rows
<1>2. \A w \in Wallets : balance'[w] + paidOut'[w] = balance[w] + paidOut[w]
  BY DEF PayOut, IInv, TypeOK, Wallets
<1> QED
  BY <1>1, <1>2, QuietLedger

LEMMA NextLedger == IInv /\ LedgerExplained /\ [Next]_vars => LedgerExplained'
<1> SUFFICES ASSUME IInv, LedgerExplained, [Next]_vars
             PROVE  LedgerExplained'
  OBVIOUS
<1>1. ASSUME UNCHANGED <<status, payer, payee, balance, paidOut>>
      PROVE  LedgerExplained'
  BY <1>1, QuietLedger
<1>2. ASSUME NEW t \in Txns, TxnStep(t)
      PROVE  LedgerExplained'
  <2>1. CASE CancelPending(t) \/ SweepExpire(t)
    BY <2>1, RowLedger DEF CancelPending, SweepExpire
  <2>2. CASE VerifySettle(t)
    BY <2>2, SettleLedger
  <2>3. CASE \/ Confirm(t) \/ CancelAtGateway(t) \/ IntentExpires(t) \/ PassExpiry(t)
             \/ VerifyBegin(t) \/ VerifyAtGateway(t) \/ VerifyRefused(t)
             \/ VerifyReject(t) \/ VerifyAbort(t) \/ VerifyLoseCommit(t) \/ SweepSkip(t)
    BY <1>1, <2>3 DEF Confirm, CancelAtGateway, IntentExpires, GatewayStep, PassExpiry,
       VerifyBegin, VerifyAtGateway, VerifyRefused, VerifyReject, VerifyAbort,
       VerifyLoseCommit, Release, SweepSkip, rows, books
  <2> QED
    BY <1>2, <2>1, <2>2, <2>3 DEF TxnStep, VerifyEnd
<1>3. ASSUME NEW p \in Purchases, PurchaseStep(p)
      PROVE  LedgerExplained'
  BY <1>3, RowLedger, RefundLedger DEF PurchaseStep, InitiatePurchase, InitiateCharge,
     ReversePending, Txns
<1>4. ASSUME NEW d \in Deposits, NEW c \in Customers, Deposit(d, c)
      PROVE  LedgerExplained'
  BY <1>4, RowLedger DEF Deposit, Txns
<1>5. CASE \E m \in Merchants : PayOut(m)
  BY <1>5, PayOutLedger
<1>6. CASE (\E w \in Wallets : WalletStep(w)) \/ SweepFind \/ UNCHANGED vars
  BY <1>1, <1>6 DEF WalletStep, CloseCheck, CloseCommit, Reopen, SweepFind, vars, rows, books
<1> QED
  BY <1>2, <1>3, <1>4, <1>5, <1>6 DEF Next

(* Replaying the completed transactions and the payouts gives the balance   *)
(* the ledger derives from postings, for every wallet, at any time.         *)
THEOREM BalancesExplained == Spec => []LedgerExplained
<1>1. Init => LedgerExplained
  <2> SUFFICES ASSUME Init
               PROVE  \A w \in Wallets : Explained(w)
    BY LedgerIsExplained
  <2> TAKE w \in Wallets
  <2>1. Incoming(w) = {} /\ Outgoing(w) = {}
    BY DEF Init, Incoming, Outgoing
  <2>2. balance[w] = Opening[w] /\ paidOut[w] = 0 /\ Opening[w] \in Int
    BY DEF Init
  <2> QED
    BY <2>1, <2>2, SumEmpty DEF Explained, Worth
<1> QED
  BY <1>1, NextLedger, Invariance, PTL DEF Spec
=============================================================================
