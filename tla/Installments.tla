---------------------------- MODULE Installments ----------------------------
(***************************************************************************)
(* One credit line and the installments its purchases turn into: due       *)
(* check, penalties and blocking by the sweep, repayment by a payment link *)
(* for one installment or for all of them, write-off by an administrator,  *)
(* and the refund of a purchase, in any order.                             *)
(*                                                                         *)
(* A write-off's commit, a draw and a refund of the line hold the           *)
(* repository's row while they read and write the line, and are single     *)
(* steps.  A repayment holds that row too, but reads the installments it    *)
(* pays without locking them and marks them paid later.  The sweep holds   *)
(* no lock: it reads a list of entities and saves them one by one, every   *)
(* column as it read it.                                                   *)
(***************************************************************************)
EXTENDS Integers, FiniteSetsExt, Functions

CONSTANTS
  Purchases,     \* purchases drawn on the line
  Installments,  \* the rows of their plans
  PurchaseOf,    \* PurchaseOf[i]
  Principal, Fee,    \* of an installment
  Daily,             \* Daily[i]: the penalty of a day
  DueDate, Deadline, \* days
  Threshold,     \* overdueDaysBeforeBlock of the wallet's type
  UnblockFee,
  Routed,        \* which of fee, penalty, unblock have an open repository of their own
  Links,         \* DEPOSIT rows with an installmentId or a settlesWalletId
  All,           \* the target of a link that settles the whole wallet
  Sweeps,        \* runs of the sweep that may overlap
  Admins,        \* write-off requests
  Granted, Funds,
  LastDay,       \* bound on the calendar
  MaxDeaths      \* bound on the runs of the sweep that die

ASSUME PlanAssumption == /\ PurchaseOf \in [Installments -> Purchases]
                         /\ All \notin Installments
ASSUME FiniteAssumption == IsFiniteSet(Installments)
ASSUME PriceAssumption == /\ Principal \in [Installments -> Nat]
                          /\ Fee \in [Installments -> Nat]
                          /\ Daily \in [Installments -> Nat]
                          /\ UnblockFee \in Nat /\ Granted \in Nat /\ Funds \in Nat
ASSUME DateAssumption == /\ DueDate \in [Installments -> Nat]
                         /\ Deadline \in [Installments -> Nat]
                         /\ LastDay \in Nat /\ Threshold \in Nat /\ MaxDeaths \in Nat

Statuses == {"none", "PENDING", "OVERDUE", "PAID", "CANCELED"}
Rows == [status : Statuses, amount : Nat, days : Nat, checked : BOOLEAN]

VARIABLES
  row,      \* row[i]: amount, penaltyDaysApplied, dueCheckedAt are columns
  purchase, \* status of a purchase
  day,      \* today
  link,     \* link[l]: stage, target and charge of a payment link
  captured, \* links whose money the gateway has taken
  sweep,    \* sweep[s]: what a run of the sweep has in memory
  deaths,   \* runs that died so far
  admin,    \* admin[a]: what a write-off has read
  blocked,  \* blockedAt of the wallet
  restored, \* installments with an installment-restore: row
  ceiling, receivable, \* of the line
  repo, fees, held, cash \* repository, its sub-repositories, everybody else, BANK_CASH

lineVars  == <<ceiling, receivable, restored, blocked>>
moneyVars == <<repo, fees, held, cash>>
payVars   == <<link, captured, admin>>
sweepVars == <<sweep, deaths>>
vars == <<row, purchase, day, payVars, sweepVars, lineVars, moneyVars>>

NoRow   == [status |-> "none", amount |-> 0, days |-> 0, checked |-> FALSE]
AtRest  == [phase |-> "idle", list |-> {}, copy |-> [i \in Installments |-> NoRow],
            asOf |-> 0, looked |-> [p \in Purchases |-> "unread"], block |-> FALSE]
NoLink  == [stage |-> "idle", target |-> All, charge |-> 0, away |-> 0]
NoClaim == [stage |-> "idle", routed |-> 0]

Init ==
  /\ row = [i \in Installments |-> NoRow]
  /\ purchase = [p \in Purchases |-> "PENDING"] /\ day = 0
  /\ link = [l \in Links |-> NoLink] /\ captured = {}
  /\ sweep = [s \in Sweeps |-> AtRest] /\ deaths = 0 /\ admin = [a \in Admins |-> NoClaim]
  /\ blocked = FALSE /\ restored = {}
  /\ ceiling = Granted /\ receivable = 0
  /\ repo = Funds /\ fees = 0 /\ held = 0 /\ cash = Funds

Tomorrow ==
  /\ day < LastDay /\ day' = day + 1
  /\ UNCHANGED <<row, purchase, payVars, sweepVars, lineVars, moneyVars>>

----------------------------------------------------------------------------
(* Sums over sets of installments.                                          *)

Sum(f, S) == SumFunctionOnSet(f, S)
Owed(S) == Sum([i \in Installments |-> row[i].amount], S)

Plan(p) == {i \in Installments : PurchaseOf[i] = p}
Unpaid(r) == r.status \in {"PENDING", "OVERDUE"}
Outstanding == {i \in Installments : Unpaid(row[i])}    \* getOutstandingForWallet

(* computeRepaymentSplit: the penalty is what principal and fee leave over.  *)
Penalty(S) == Owed(S) - Sum(Principal, S) - Sum(Fee, S)

(* lockById of the repository, which a repayment holds while it is posted.   *)
RepositoryFree == \A l \in Links : link[l].stage # "posted"

----------------------------------------------------------------------------
(* Drawing and refunding.  The block is looked at when a purchase is         *)
(* initiated, not when it completes.                                        *)

NewRow(i) == [status |-> "PENDING", amount |-> Principal[i] + Fee[i],
              days |-> 0, checked |-> FALSE]

Draw(p) ==
  LET n == Sum(Principal, Plan(p))
  IN  /\ purchase[p] = "PENDING" /\ RepositoryFree /\ \A i \in Plan(p) : day < DueDate[i]
      /\ n <= ceiling /\ n <= repo
      /\ purchase' = [purchase EXCEPT ![p] = "COMPLETED"]
      /\ row' = [i \in Installments |-> IF i \in Plan(p) THEN NewRow(i) ELSE row[i]]
      /\ ceiling' = ceiling - n /\ receivable' = receivable + n
      /\ repo' = repo - n /\ held' = held + n
      /\ UNCHANGED <<day, payVars, sweepVars, restored, blocked, fees, cash>>

Unrepaid(p) ==
  LET drawn == Sum(Principal, Plan(p))
      paid  == Sum(Principal, {i \in Plan(p) : row[i].status = "PAID"})
  IN  drawn - Min({paid, drawn})

CanceledBy(p) == Plan(p) \cap Outstanding    \* cancelForPurchase

(* The repository is locked only if something goes back to it.               *)
Refund(p) ==
  LET n == Unrepaid(p)
  IN  /\ purchase[p] = "COMPLETED"
      /\ n > 0 => RepositoryFree
      /\ purchase' = [purchase EXCEPT ![p] = "REVERSED"]
      /\ row' = [i \in Installments |-> IF i \in CanceledBy(p)
                                        THEN [row[i] EXCEPT !.status = "CANCELED"] ELSE row[i]]
      /\ ceiling' = ceiling + n /\ receivable' = receivable - n
      /\ repo' = repo + n /\ held' = held - n
      /\ UNCHANGED <<day, payVars, sweepVars, restored, blocked, fees, cash>>

----------------------------------------------------------------------------
(* Settling installments, and the money that pays for them.                 *)

RestorableRepeatedly(S) == TRUE    \* mutant: the key is not unique

Restorable(S) == S \cap restored = {}    \* the key installment-restore:<i> is unique

RestoredWhole(S) == Owed(S)    \* mutant: fee and penalty inflate the ceiling

RestoredBy(S) == Sum(Principal, S)

SettleOverdue(S) ==    \* mutant: what is not OVERDUE yet is paid and not restored
  LET T == {i \in S : row[i].status = "OVERDUE"}
  IN  /\ Restorable(T)
      /\ row' = [i \in Installments |-> IF i \in S THEN [row[i] EXCEPT !.status = "PAID"] ELSE row[i]]
      /\ ceiling' = ceiling + RestoredBy(T) /\ receivable' = receivable - Sum(Principal, T)
      /\ restored' = restored \cup T /\ blocked' = FALSE

(* settleOneInstallment for each of S; whatever else is overdue, the wallet  *)
(* is unblocked.                                                            *)
Settle(S) ==
  /\ Restorable(S)
  /\ row' = [i \in Installments |-> IF i \in S THEN [row[i] EXCEPT !.status = "PAID"] ELSE row[i]]
  /\ ceiling' = ceiling + RestoredBy(S) /\ receivable' = receivable - Sum(Principal, S)
  /\ restored' = restored \cup S /\ blocked' = FALSE

Leg(part, n) == IF n > 0 /\ part \in Routed THEN n ELSE 0

(* creditFeeSplitLegs: what goes to repositories of their own.               *)
RoutedLegs(fee, penalty, unblock) ==
  Leg("fee", fee) + Leg("penalty", penalty) + Leg("unblock", unblock)

Positive(n) == IF n > 0 THEN n ELSE 0

SetLink(l, from, to) ==
  /\ link[l].stage = from /\ link' = [link EXCEPT ![l].stage = to]

OpenLink(l, t, n) ==
  /\ link[l].stage = "idle"
  /\ link' = [link EXCEPT ![l] = [stage |-> "PENDING", target |-> t, charge |-> n, away |-> 0]]
  /\ UNCHANGED <<row, purchase, day, captured, admin, sweepVars, lineVars, moneyVars>>

(* payInstallment turns away only what is PAID.                              *)
PayInstallment(l, i) ==
  /\ row[i].status \notin {"none", "PAID"}
  /\ OpenLink(l, i, row[i].amount + (IF blocked THEN UnblockFee ELSE 0))

CollectOverdueByLink(l) ==
  /\ blocked /\ Outstanding # {} /\ OpenLink(l, All, Owed(Outstanding) + UnblockFee)

CollectQuitByLink(l) ==
  /\ Outstanding # {} /\ OpenLink(l, All, Owed(Outstanding))

LinkDies(l) ==    \* canceled, or timed out
  /\ SetLink(l, "PENDING", "REVERSED")
  /\ UNCHANGED <<row, purchase, day, captured, admin, sweepVars, lineVars, moneyVars>>

Capture(l) ==    \* verifyPurchase holds the row, the gateway takes the money
  /\ SetLink(l, "PENDING", "paid") /\ captured' = captured \cup {l}
  /\ UNCHANGED <<row, purchase, day, admin, sweepVars, lineVars, moneyVars>>

Settled(l) == IF link[l].target = All THEN Outstanding ELSE {link[l].target}

(* The rest of the charge counts as unblock fee, and is lost if negative.    *)
Surplus(l) == link[l].charge - Owed(Settled(l))

(* postEntry: the legs add up to the cash that came in, which is not zero.   *)
LegsBalance(l) ==
  /\ Owed(Settled(l)) + Positive(Surplus(l)) = link[l].charge
  /\ link[l].charge > 0

(* creditInstallmentRepayment: under the repository's lock, the installments *)
(* are read, without locking them, and the legs are posted.                 *)
CreditRepayment(l) ==
  LET S == Settled(l)
  IN  /\ link[l].stage = "paid" /\ RepositoryFree /\ LegsBalance(l)
      /\ link' = [link EXCEPT ![l].stage = "posted",
                     ![l].away = RoutedLegs(Sum(Fee, S), Penalty(S), Surplus(l))]
      /\ UNCHANGED <<row, purchase, day, captured, admin, sweepVars, lineVars, moneyVars>>

(* markPaid, or markAllPaidAndUnblock of what is outstanding by now; all is  *)
(* committed.                                                               *)
SettleLink(l) ==
  /\ link[l].stage = "posted" /\ Settle(Settled(l))
  /\ link' = [link EXCEPT ![l].stage = "COMPLETED", ![l].away = 0]
  /\ fees' = fees + link[l].away /\ repo' = repo + link[l].charge - link[l].away
  /\ cash' = cash + link[l].charge
  /\ UNCHANGED <<purchase, day, captured, admin, sweepVars, held>>

RollBack(l) ==
  /\ link' = [link EXCEPT ![l].stage = "PENDING", ![l].away = 0]
  /\ UNCHANGED <<row, purchase, day, captured, admin, sweepVars, lineVars, moneyVars>>

(* It throws: the capture stays, everything else is rolled back.             *)
RejectLink(l) ==
  /\ \/ link[l].stage = "paid" /\ RepositoryFree /\ ~LegsBalance(l)
     \/ link[l].stage = "posted" /\ ~Restorable(Settled(l))
  /\ RollBack(l)

AbortLink(l) == link[l].stage \in {"paid", "posted"} /\ RollBack(l)    \* the process dies

----------------------------------------------------------------------------
(* Write-off: collectOverdueFromRepository and collectQuitDebtFromRepository *)
(* read what is outstanding, then wait for the repository's row and settle   *)
(* what is outstanding by then.  Only fees leave the repository.             *)

ReadDebt(a, unblock) ==
  LET n == RoutedLegs(Sum(Fee, Outstanding), Penalty(Outstanding), unblock)
  IN  /\ admin[a].stage = "idle" /\ Outstanding # {}
      /\ admin' = [admin EXCEPT ![a] = [stage |-> "read", routed |-> n]]
      /\ UNCHANGED <<row, purchase, day, link, captured, sweepVars, lineVars, moneyVars>>

ReadOverdue(a) == blocked /\ ReadDebt(a, UnblockFee)
ReadQuit(a) == ReadDebt(a, 0)

Absorbable(a) == admin[a].routed <= repo

Absorb(a) ==
  /\ admin[a].stage = "read" /\ RepositoryFree /\ Absorbable(a)
  /\ Settle(Outstanding)
  /\ admin' = [admin EXCEPT ![a] = [stage |-> "done", routed |-> 0]]
  /\ fees' = fees + admin[a].routed /\ repo' = repo - admin[a].routed
  /\ UNCHANGED <<purchase, day, link, captured, sweepVars, held, cash>>

GiveUp(a) ==
  /\ admin[a].stage = "read" /\ RepositoryFree
  /\ ~(Absorbable(a) /\ Restorable(Outstanding))
  /\ admin' = [admin EXCEPT ![a] = NoClaim]
  /\ UNCHANGED <<row, purchase, day, link, captured, sweepVars, lineVars, moneyVars>>
----------------------------------------------------------------------------
(* The sweep.  checkDueInstallments first, then applyOverduePenalties.       *)

Listed(S, phase, asOf, block) ==
  [phase |-> phase, list |-> S, asOf |-> asOf, block |-> block,
   copy |-> [i \in Installments |-> IF i \in S THEN row[i] ELSE NoRow],
   looked |-> [p \in Purchases |-> "unread"]]

Candidates == {i \in Installments : /\ row[i].status = "PENDING" /\ ~row[i].checked
                                    /\ DueDate[i] <= day}

BeginDueCheck(s) ==
  /\ sweep[s].phase = "idle"
  /\ sweep' = [sweep EXCEPT ![s] = Listed(Candidates, "due", 0, FALSE)]
  /\ UNCHANGED <<row, purchase, day, payVars, deaths, lineVars, moneyVars>>

(* A purchase is looked up once per run and its status kept.                 *)
LookUp(s, p) ==
  /\ sweep[s].phase = "due" /\ sweep[s].looked[p] = "unread"
  /\ Plan(p) \cap sweep[s].list # {}
  /\ sweep' = [sweep EXCEPT ![s].looked[p] = purchase[p]]
  /\ UNCHANGED <<row, purchase, day, payVars, deaths, lineVars, moneyVars>>

CheckedAsPurchase(s, i) ==    \* mutant: takes over the purchase's own status
  [sweep[s].copy[i] EXCEPT !.checked = TRUE, !.status = sweep[s].looked[PurchaseOf[i]]]

Checked(s, i) ==
  LET r == [sweep[s].copy[i] EXCEPT !.checked = TRUE]
  IN  IF sweep[s].looked[PurchaseOf[i]] = "REVERSED" THEN [r EXCEPT !.status = "CANCELED"] ELSE r

SaveDue(s, i) ==
  /\ sweep[s].phase = "due" /\ i \in sweep[s].list /\ sweep[s].looked[PurchaseOf[i]] # "unread"
  /\ row' = [row EXCEPT ![i] = Checked(s, i)]
  /\ sweep' = [sweep EXCEPT ![s].list = @ \ {i}, ![s].copy[i] = NoRow]
  /\ UNCHANGED <<purchase, day, payVars, deaths, lineVars, moneyVars>>

Late == {i \in Installments : Unpaid(row[i]) /\ Deadline[i] < day}

LateOnce == {i \in Late : row[i].status = "PENDING"}    \* mutant: OVERDUE is not read again

CrossesUnseen == ~blocked /\ \E i \in LateOnce : day - Deadline[i] > Threshold    \* mutant

(* The most overdue installment decides; a wallet read as blocked is left.   *)
Crosses == ~blocked /\ \E i \in Late : day - Deadline[i] > Threshold

BeginPenalties(s) ==
  /\ sweep[s].phase = "due" /\ sweep[s].list = {}
  /\ sweep' = [sweep EXCEPT ![s] = Listed(Late, "penalty", day, Crosses)]
  /\ UNCHANGED <<row, purchase, day, payVars, deaths, lineVars, moneyVars>>

PenalizedAgain(r, i, today) ==    \* mutant: all days are charged at every run
  [r EXCEPT !.status = "OVERDUE", !.days = today - Deadline[i],
            !.amount = @ + Daily[i] * (today - Deadline[i])]

PenalizedFirstDay(r, i, today) ==    \* mutant: an OVERDUE installment is charged no more
  IF r.status = "OVERDUE" THEN r
  ELSE [r EXCEPT !.status = "OVERDUE", !.days = today - Deadline[i],
                 !.amount = @ + Daily[i] * (today - Deadline[i])]

Penalized(r, i, today) ==
  LET late == today - Deadline[i]
  IN  IF late > r.days
      THEN [r EXCEPT !.status = "OVERDUE", !.days = late,
                     !.amount = @ + Daily[i] * (late - r.days)]
      ELSE [r EXCEPT !.status = "OVERDUE"]

(* Nothing is saved for an installment that is OVERDUE and charged already.  *)
Unaltered(s, i) == Penalized(sweep[s].copy[i], i, sweep[s].asOf) = sweep[s].copy[i]

SavePenalty(s, i) ==
  /\ sweep[s].phase = "penalty" /\ i \in sweep[s].list
  /\ row' = IF Unaltered(s, i) THEN row
            ELSE [row EXCEPT ![i] = Penalized(sweep[s].copy[i], i, sweep[s].asOf)]
  /\ sweep' = [sweep EXCEPT ![s].list = @ \ {i}, ![s].copy[i] = NoRow]
  /\ UNCHANGED <<purchase, day, payVars, deaths, lineVars, moneyVars>>

EndSweep(s) ==
  /\ sweep[s].phase = "penalty" /\ sweep[s].list = {}
  /\ blocked' = (blocked \/ sweep[s].block)
  /\ sweep' = [sweep EXCEPT ![s] = AtRest]
  /\ UNCHANGED <<row, purchase, day, payVars, deaths, ceiling, receivable, restored, moneyVars>>

DieInSweep(s) ==    \* the process dies; the next run starts over
  /\ sweep[s].phase # "idle" /\ deaths < MaxDeaths
  /\ deaths' = deaths + 1 /\ sweep' = [sweep EXCEPT ![s] = AtRest]
  /\ UNCHANGED <<row, purchase, day, payVars, lineVars, moneyVars>>

----------------------------------------------------------------------------
SweepStep(s) == \/ BeginDueCheck(s) \/ BeginPenalties(s) \/ EndSweep(s)
                \/ \E p \in Purchases : LookUp(s, p)
                \/ \E i \in Installments : SaveDue(s, i) \/ SavePenalty(s, i)

LinkStep(l) == \/ \E i \in Installments : PayInstallment(l, i)
               \/ CollectOverdueByLink(l) \/ CollectQuitByLink(l) \/ LinkDies(l)
               \/ Capture(l) \/ CreditRepayment(l) \/ SettleLink(l)
               \/ RejectLink(l) \/ AbortLink(l)

AdminStep(a) == ReadOverdue(a) \/ ReadQuit(a) \/ Absorb(a) \/ GiveUp(a)

Next == \/ Tomorrow
        \/ \E p \in Purchases : Draw(p) \/ Refund(p)
        \/ \E l \in Links : LinkStep(l)
        \/ \E a \in Admins : AdminStep(a)
        \/ \E s \in Sweeps : SweepStep(s) \/ DieInSweep(s)

Spec == Init /\ [][Next]_vars

FairSpec == Spec /\ \A s \in Sweeps : WF_vars(SweepStep(s))

----------------------------------------------------------------------------
(* Properties.                                                              *)

SweepMemory == [phase : {"idle", "due", "penalty"}, list : SUBSET Installments,
                copy : [Installments -> Rows], asOf : Nat,
                looked : [Purchases -> {"unread", "PENDING", "COMPLETED", "REVERSED"}],
                block : BOOLEAN]
LinkRows == [stage : {"idle", "PENDING", "paid", "posted", "COMPLETED", "REVERSED"},
             target : Installments \cup {All}, charge : Nat, away : Nat]
Claims == [stage : {"idle", "read", "done"}, routed : Nat]

TypeOK ==
  /\ row \in [Installments -> Rows]
  /\ purchase \in [Purchases -> {"PENDING", "COMPLETED", "REVERSED"}] /\ day \in Nat
  /\ link \in [Links -> LinkRows] /\ captured \subseteq Links
  /\ sweep \in [Sweeps -> SweepMemory] /\ deaths \in Nat /\ admin \in [Admins -> Claims]
  /\ blocked \in BOOLEAN /\ restored \subseteq Installments
  /\ ceiling \in Int /\ receivable \in Int
  /\ repo \in Int /\ fees \in Nat /\ held \in Int /\ cash \in Int

(* However often, late or concurrently the sweep runs and whatever it saves, *)
(* a row's amount is principal, fee and one penalty for each of its          *)
(* penaltyDaysApplied, and those are days that have passed.                  *)
Priced(r, i) ==
  r.status # "none" => /\ r.amount = Principal[i] + Fee[i] + Daily[i] * r.days
                       /\ r.days > 0 => Deadline[i] + r.days <= day

PenaltyExact == \A i \in Installments : Priced(row[i], i)

(* Draws, repayments, write-offs and refunds move principal between the      *)
(* ceiling and the receivable: fees and penalties never inflate the line.    *)
(* Every split of a repayment and every write-off is covered: the repository *)
(* is never overdrawn, and the bank holds what the wallets hold.             *)
BooksAgree ==
  /\ ceiling + receivable = Granted
  /\ repo >= 0 /\ cash = repo + fees + held

(* Repayments and write-offs reduce the debt by the principal of             *)
(* installments that had not been restored before, and by nothing else.      *)
PrincipalRestoredOnce ==
  [][(receivable' # receivable /\ UNCHANGED purchase)
        => receivable - receivable' = Sum(Principal, restored' \ restored)]_vars

(* No debt vanishes: an installment stops being owed only when its principal *)
(* is back on the line, by a repayment or a write-off, or its purchase was   *)
(* refunded, whatever the sweep remembers and saves.                        *)
NoDebtVanishes ==
  [][\A i \in Installments :
       (Unpaid(row[i]) /\ ~Unpaid(row'[i]))
          => (i \in restored' \/ purchase'[PurchaseOf[i]] = "REVERSED")]_vars

(* "It always converges": an installment that stays unpaid is charged every  *)
(* day since its deadline, though a run of the sweep dies, and saves what it *)
(* read before a repayment, a refund or a new day.                          *)
PenaltyConverges ==
  \A i \in Installments :
    (day = LastDay /\ Unpaid(row[i]) /\ Deadline[i] < LastDay)
      ~> (~Unpaid(row[i]) \/ row[i].days = LastDay - Deadline[i])

(* A wallet with an installment overdue beyond the threshold gets blocked,   *)
(* also after a payment of another installment has cleared its block.        *)
LongOverdueIsBlocked ==
  \A i \in Installments :
    (Unpaid(row[i]) /\ day - Deadline[i] > Threshold) ~> (~Unpaid(row[i]) \/ blocked)

(* What the comments claim and the code does not do.  applyOverduePenalties  *)
(* is about "every still-unpaid installment past its deadline": it does not  *)
(* make a PAID one OVERDUE.                                                 *)
PaidNotPenalized ==
  [][\A i \in Installments : row[i].status = "PAID" => row'[i].status # "OVERDUE"]_vars
=============================================================================
