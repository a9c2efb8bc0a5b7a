-------------------------- MODULE SettlementSweep --------------------------
(***************************************************************************)
(* How a merchant's wallet is paid out: sweepAutoWithdraw, called by the   *)
(* schedulers or, on an instant rail, after each purchase; the split of a  *)
(* purchase over bank accounts; the withdrawal fee and its repository.     *)
(*                                                                         *)
(* A sweep is three steps: it locks the wallet and reads its balance; it   *)
(* locks the fee repository; it pays and commits.  Everything else that    *)
(* moves the wallet's money, or inserts a row that refers to it, waits for *)
(* the lock.                                                               *)
(***************************************************************************)
EXTENDS Integers, Sequences, FiniteSets, Functions

CONSTANTS
  Purchases, Price,
  Override,      \* Override[p]: the charge's own split rows, <<>> without
  Accounts,      \* the wallet's default rows, once they are set
  MilliPercent, FixedFee, \* of the rail's withdrawal method
  Rails,         \* initial choices of railType: "none", "scheduled", "instant"
  Sweeps,        \* calls of sweepAutoWithdraw that may overlap
  Adjustments,   \* the amounts an administrator may adjust the balance by
  MaxAdjust,     \* bound on what adjustments add up to
  MaxDeaths      \* bound on the sweeps that die or are a deadlock's victim

\* A row: PERCENT in thousandths of a percent, FIXED in thousandths of a unit.
SplitRows == Seq([type : {"PERCENT", "FIXED"}, milli : Nat \ {0}])

ASSUME PriceAssumption == /\ Price \in [Purchases -> Nat \ {0}]
                          /\ MilliPercent \in Nat /\ FixedFee \in Nat
                          /\ MaxAdjust \in Nat /\ MaxDeaths \in Nat
                          /\ Adjustments \subseteq Int \ {0}
ASSUME SplitAssumption == /\ Override \in [Purchases -> SplitRows]
                          /\ Accounts \in SplitRows
                          /\ Accounts # <<>>
ASSUME FiniteAssumption == IsFiniteSet(Purchases)
ASSUME RailAssumption  == Rails \subseteq {"none", "scheduled", "instant"}

VARIABLES
  status,    \* of a purchase
  settled,   \* purchases with a settledAt
  defaults,  \* the wallet has settlement accounts
  rail,      \* its railType
  balance,   \* the ledger's balance of the wallet
  feeRepo,   \* the fee repository: balance, closed, closing
  bank, clearing, \* BANK_CASH and SETTLEMENT_CLEARING: what has gone out
  adjusted,  \* sum of the adjustments
  keyed,     \* which of this minute's whole-balance keys exist: a payout's, a fee's
  sweep,     \* sweep[s]: how far a sweep is and what it has read
  deaths,
  paidFor    \* history: what went out for a purchase by name

outVars   == <<balance, bank, clearing, paidFor>>
sweepVars == <<sweep, deaths, keyed>>
vars == <<status, settled, defaults, rail, feeRepo, adjusted, outVars, sweepVars>>

AtRest == [stage |-> "idle", balance |-> 0, taken |-> {}, current |-> FALSE, fee |-> FALSE]

Init ==
  /\ status = [p \in Purchases |-> "PENDING"] /\ settled = {} /\ defaults = FALSE
  /\ rail \in Rails
  /\ balance = 0 /\ bank = 0 /\ clearing = 0 /\ adjusted = 0
  /\ feeRepo = [balance |-> 0, closed |-> FALSE, closing |-> FALSE]
  /\ keyed = {} /\ deaths = 0
  /\ sweep = [s \in Sweeps |-> AtRest]
  /\ paidFor = [p \in Purchases |-> 0]

WalletLocked == \E s \in Sweeps : sweep[s].stage # "idle"
\* Mutant: the fee repository is read without its lock.
FeeRepoUnlocked == FALSE
FeeRepoLocked == \E s \in Sweeps : sweep[s].stage = "ready" /\ sweep[s].fee

----------------------------------------------------------------------------
(* The arithmetic of fees and shares.                                       *)

\* floor(amount * feePercent / 100) + fixedFee, never more than the amount.
ComputeWithdrawalFee(amount) ==
  LET fee == (amount * MilliPercent) \div 100000 + FixedFee
  IN  IF amount <= 0 THEN 0 ELSE IF fee > amount THEN amount ELSE fee

HasAnyFee == MilliPercent > 0 \/ FixedFee > 0

Total(f) == SumFunctionOnSet(f, DOMAIN f)
Rounded(milli) == (milli + 500) \div 1000    \* Math.round

\* Mutant: the last share is floored as well.
AmountsFloored(rows, total) ==
  [k \in 1..Len(rows) |-> IF rows[1].type = "FIXED" THEN Rounded(rows[k].milli)
                          ELSE (total * rows[k].milli) \div 100000]

\* Every percentage is floored but the last, which takes what is left.
ComputeAmounts(rows, total) ==
  LET last == Len(rows)
      part == [k \in 1..(last - 1) |-> (total * rows[k].milli) \div 100000]
  IN  IF rows[1].type = "FIXED"
      THEN [k \in 1..last |-> Rounded(rows[k].milli)]
      ELSE [k \in 1..last |-> IF k < last THEN part[k] ELSE total - Total(part)]

Slices(p) ==
  LET rows == IF Override[p] # <<>> THEN Override[p]
              ELSE IF defaults THEN Accounts ELSE <<>>
  IN  IF rows = <<>> THEN <<Price[p]>> ELSE ComputeAmounts(rows, Price[p])

SlicesTotal(p) == Total(Slices(p))

\* What payOut moves for a slice: the fee, and the net if there is any.
FeeOf(amount, charged) == IF charged THEN ComputeWithdrawalFee(amount) ELSE 0
NetOf(amount, charged) == LET net == amount - FeeOf(amount, charged)
                          IN  IF net <= 0 THEN 0 ELSE net

Fees(p, charged) == LET slices == Slices(p)
                    IN  Total([k \in DOMAIN slices |-> FeeOf(slices[k], charged)])
Nets(p, charged) == LET slices == Slices(p)
                    IN  Total([k \in DOMAIN slices |-> NetOf(slices[k], charged)])

----------------------------------------------------------------------------
(* The wallet's other operations.                                           *)

CompletePurchase(p) ==
  /\ status[p] = "PENDING" /\ ~WalletLocked
  /\ status' = [status EXCEPT ![p] = "COMPLETED"]
  /\ balance' = balance + Price[p]
  /\ UNCHANGED <<settled, defaults, rail, feeRepo, adjusted, bank, clearing, paidFor, sweepVars>>

Refund(p) ==
  /\ status[p] = "COMPLETED" /\ ~WalletLocked
  /\ Price[p] <= balance
  /\ status' = [status EXCEPT ![p] = "REVERSED"]
  /\ balance' = balance - Price[p]
  /\ UNCHANGED <<settled, defaults, rail, feeRepo, adjusted, bank, clearing, paidFor, sweepVars>>

Adjust(d) ==
  /\ ~WalletLocked
  /\ balance + d >= 0 /\ adjusted + d \in -MaxAdjust..MaxAdjust
  /\ balance' = balance + d /\ adjusted' = adjusted + d
  /\ UNCHANGED <<status, settled, defaults, rail, feeRepo, bank, clearing, paidFor, sweepVars>>

\* The new rows refer to the wallet, so inserting them waits for its lock.
ReplaceForWallet ==
  /\ ~WalletLocked /\ ~defaults /\ defaults' = TRUE
  /\ UNCHANGED <<status, settled, rail, feeRepo, adjusted, outVars, sweepVars>>

CloseCheck ==
  /\ ~feeRepo.closed /\ feeRepo.balance = 0
  /\ feeRepo' = [feeRepo EXCEPT !.closing = TRUE]
  /\ UNCHANGED <<status, settled, defaults, rail, adjusted, outVars, sweepVars>>

CloseCommit ==
  /\ feeRepo.closing /\ ~FeeRepoLocked
  /\ feeRepo' = [feeRepo EXCEPT !.closing = FALSE, !.closed = TRUE]
  /\ UNCHANGED <<status, settled, defaults, rail, adjusted, outVars, sweepVars>>

Reopen ==
  /\ feeRepo.closed /\ ~FeeRepoLocked
  /\ feeRepo' = [feeRepo EXCEPT !.closed = FALSE]
  /\ UNCHANGED <<status, settled, defaults, rail, adjusted, outVars, sweepVars>>

\* A sweep computes its minute after it has the lock, and keeps it.
NextMinute ==
  /\ keyed # {} \/ \E s \in Sweeps : sweep[s].current
  /\ keyed' = {}
  /\ sweep' = [s \in Sweeps |-> [sweep[s] EXCEPT !.current = FALSE]]
  /\ UNCHANGED <<status, settled, defaults, rail, feeRepo, adjusted, outVars, deaths>>

----------------------------------------------------------------------------
(* The sweep.                                                               *)

\* Mutant: the wallet is read without its lock.
MaySweepAnyway == TRUE
MaySweep == ~WalletLocked

TakeWallet(s) ==
  /\ MaySweep /\ sweep[s].stage = "idle"
  /\ sweep' = [sweep EXCEPT ![s] = IF balance <= 0 THEN AtRest
                 ELSE [stage |-> "locked", balance |-> balance, taken |-> keyed,
                       current |-> TRUE, fee |-> FALSE]]

SweepBegin(s) ==
  /\ rail # "instant" /\ balance # 0    \* WALLET_NONZERO_BALANCE_SQL
  /\ TakeWallet(s)
  /\ UNCHANGED <<status, settled, defaults, rail, feeRepo, adjusted, outVars, deaths, keyed>>

\* settleInstantRailIfConfigured, after any verification of a COMPLETED purchase.
\* It looks at settledAt before waiting for the lock: the purchase may have been
\* settled or refunded since.
SweepBeginInstant(s, p) ==
  /\ rail = "instant" /\ status[p] # "PENDING"
  /\ TakeWallet(s)
  /\ UNCHANGED <<status, settled, defaults, rail, feeRepo, adjusted, outVars, deaths, keyed>>

FeeCharged == rail # "none" /\ HasAnyFee /\ ~feeRepo.closed

SweepFee(s) ==
  /\ sweep[s].stage = "locked" /\ ~FeeRepoLocked
  /\ sweep' = [sweep EXCEPT ![s].stage = "ready", ![s].fee = FeeCharged]
  /\ UNCHANGED <<status, settled, defaults, rail, feeRepo, adjusted, outVars, deaths, keyed>>

Unsettled == {p \in Purchases : status[p] = "COMPLETED" /\ p \notin settled}
SplitModeActive == defaults \/ \E p \in Unsettled : Override[p] # <<>>

\* Fees go to the fee repository; the net goes to the bank, or to
\* SETTLEMENT_CLEARING where the rail's provider fails.
PaidOut(s, fees, nets, failed) ==
  /\ failed \in 0..nets /\ (rail = "none" => failed = 0)
  /\ balance' = balance - fees - nets
  /\ feeRepo' = [feeRepo EXCEPT !.balance = @ + fees]
  /\ bank' = bank + (nets - failed) /\ clearing' = clearing + failed

\* The rows a whole payout inserts, each with a key of its own: no row of nothing.
Keys(s) ==
  {k \in {"fee", "net"} : (IF k = "fee" THEN FeeOf(sweep[s].balance, sweep[s].fee)
                           ELSE NetOf(sweep[s].balance, sweep[s].fee)) > 0}

SweepWhole(s) ==
  LET amount == sweep[s].balance
      net == NetOf(amount, sweep[s].fee)
  IN  /\ sweep[s].stage = "ready" /\ ~SplitModeActive /\ sweep[s].taken \cap Keys(s) = {}
      /\ \E failed \in {0, net} : PaidOut(s, FeeOf(amount, sweep[s].fee), net, failed)
      /\ keyed' = IF sweep[s].current THEN keyed \cup Keys(s) ELSE keyed
      /\ sweep' = [sweep EXCEPT ![s] = AtRest]
      /\ UNCHANGED <<status, settled, defaults, rail, adjusted, paidFor, deaths>>

\* A key of the minute exists: its insert throws and the sweep is rolled back.
SweepRejected(s) ==
  /\ sweep[s].stage = "ready" /\ ~SplitModeActive /\ sweep[s].taken \cap Keys(s) # {}
  /\ sweep' = [sweep EXCEPT ![s] = AtRest]
  /\ UNCHANGED <<status, settled, defaults, rail, feeRepo, adjusted, outVars, deaths, keyed>>

\* Over a set of purchases.
Sum(f, paid) == SumFunctionOnSet(f, paid)
Cost(paid) == Sum([p \in Purchases |-> SlicesTotal(p)], paid)

\* Mutant: a purchase that takes the last of the balance is skipped too.
PayableStrictly(left) ==
  {paid \in SUBSET Unsettled :
     LET rest == left - Cost(paid)
     IN  (rest > 0 \/ paid = {}) /\ \A p \in Unsettled \ paid : SlicesTotal(p) >= rest}

\* The loop skips a purchase that what is left does not cover.  Rows come in no
\* order, so any set it cannot extend is an outcome.
Payable(left) ==
  {paid \in SUBSET Unsettled :
     LET rest == left - Cost(paid)
     IN  rest >= 0 /\ \A p \in Unsettled \ paid : SlicesTotal(p) > rest}

Settle(paid) == settled \cup paid

SweepSplit(s) ==
  LET fees == [p \in Purchases |-> Fees(p, sweep[s].fee)]
      nets == [p \in Purchases |-> Nets(p, sweep[s].fee)]
  IN  /\ sweep[s].stage = "ready" /\ SplitModeActive
      /\ \E paid \in Payable(sweep[s].balance) :
           /\ \E failing \in SUBSET paid :
                PaidOut(s, Sum(fees, paid), Sum(nets, paid), Sum(nets, failing))
           /\ settled' = Settle(paid)
           /\ paidFor' = [p \in Purchases |->
                            paidFor[p] + IF p \in paid THEN fees[p] + nets[p] ELSE 0]
      /\ sweep' = [sweep EXCEPT ![s] = AtRest]
      /\ UNCHANGED <<status, defaults, rail, adjusted, deaths, keyed>>

SweepDies(s) ==
  /\ sweep[s].stage # "idle" /\ deaths < MaxDeaths /\ deaths' = deaths + 1
  /\ sweep' = [sweep EXCEPT ![s] = AtRest]
  /\ UNCHANGED <<status, settled, defaults, rail, feeRepo, adjusted, outVars, keyed>>

SweepEnd(s) == SweepWhole(s) \/ SweepRejected(s) \/ SweepSplit(s)

Next ==
  \/ \E p \in Purchases : CompletePurchase(p) \/ Refund(p)
  \/ \E d \in Adjustments : Adjust(d)
  \/ ReplaceForWallet \/ CloseCheck \/ CloseCommit \/ Reopen \/ NextMinute
  \/ \E s \in Sweeps : \/ SweepBegin(s) \/ SweepFee(s) \/ SweepEnd(s) \/ SweepDies(s)
                       \/ \E p \in Purchases : SweepBeginInstant(s, p)

Spec == Init /\ [][Next]_vars

\* The schedulers call every minute, a sweep that has begun ends, time passes.
SweepStep(s) == SweepBegin(s) \/ SweepFee(s) \/ SweepEnd(s)

FairSpec == Spec /\ WF_vars(NextMinute) /\ \A s \in Sweeps : WF_vars(SweepStep(s))

----------------------------------------------------------------------------
(* What must hold.                                                          *)

\* What the documents ask of a list of rows: the amounts that are kept add up to
\* the charge's, the percentages to no more than 100.
AddsUp(rows, total) ==
  IF rows[1].type = "FIXED" THEN Total([k \in DOMAIN rows |-> Rounded(rows[k].milli)]) = total
  ELSE Total([k \in 1..(Len(rows) - 1) |-> rows[k].milli]) <= 100000
Exact == {p \in Purchases : AddsUp(IF Override[p] # <<>> THEN Override[p] ELSE Accounts, Price[p])}

TypeOK ==
  /\ status \in [Purchases -> {"PENDING", "COMPLETED", "REVERSED"}]
  /\ settled \subseteq {p \in Purchases : status[p] # "PENDING"}
  /\ defaults \in BOOLEAN /\ keyed \subseteq {"fee", "net"} /\ rail \in Rails
  /\ balance \in (IF Exact = Purchases THEN Nat ELSE Int) /\ bank \in Nat /\ clearing \in Nat
  /\ adjusted \in -MaxAdjust..MaxAdjust /\ deaths \in 0..MaxDeaths
  /\ feeRepo \in [balance : Nat, closed : BOOLEAN, closing : BOOLEAN]
  /\ sweep \in [Sweeps -> [stage : {"idle", "locked", "ready"}, balance : Nat,
                           taken : SUBSET {"fee", "net"}, current : BOOLEAN, fee : BOOLEAN]]
  /\ paidFor \in [Purchases -> Nat]

\* A purchase is paid out by name once, by whichever of the overlapping sweeps,
\* and never again after a refund; and where its rows add up, whole, fees included.
PaidOnceInFull ==
  \A p \in Purchases : IF p \notin settled THEN paidFor[p] = 0
                       ELSE p \in Exact => paidFor[p] = Price[p]

\* "A fee repository that has since been closed is skipped (no fee) rather than
\* routing money into a closed wallet": also when it is closed during a sweep.
NoFeeToClosed ==
  [][feeRepo.closed => feeRepo'.balance = feeRepo.balance]_vars

\* A completed purchase of a scheduled wallet is settled, refunded, or its money
\* has gone (out with the whole balance, or for other purchases).
EventuallyPaidOut ==
  \A p \in Purchases :
    (p \in Unsettled /\ rail # "instant") ~> (p \notin Unsettled \/ balance < SlicesTotal(p))
=============================================================================
