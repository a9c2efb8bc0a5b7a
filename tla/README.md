# Packeta: a TLA+ model of the wallet, its gateway payments and its ledger

Packeta is a multi-wallet payment application: a NestJS/TypeORM backend over
PostgreSQL (`src/backend`), a sandbox payment gateway (`src/ipg-backend`), and
browser front ends. Money is moved by `TransactionsService`, booked by
`LedgerService` (double entry), and driven from outside by customers, merchants,
gateways and three schedulers. This directory holds the TLA+ modules of its core
logic, the TLC configurations that check them, and the TLAPS proofs.

## 1. Inventory

| Component | Source | State it keeps | Operations | Modelled in |
| --- | --- | --- | --- | --- |
| Gateway payments | `transactions/transactions.service.ts`, `scheduler/purchase-timeout-sweep.service.ts` | `transactions` rows (status, payer, payee, expiry), row locks held by verifications | initiatePurchase, initiateCharge, deposit, attachPurchaseWallet, verifyPurchase, cancelPendingPurchase, expirePendingPurchase, reverseTransaction | `Payments` |
| Credit purchases, support top-ups | same, `purchase-gateway/purchase-gateway.service.ts`, `wallets/` | repository pool, credit ceilings, CREDIT_RECEIVABLE, a DEPOSIT row that completes a purchase, the support wallet | grantCredit, attachWallet, confirmSupportTopUp, initiateSupportTopUp, completeSupportTopUp, refund, close-and-reclaim | `CreditPurchases` |
| Installments | `installments/installments.service.ts`, `scheduler/installment-sweep.service.ts`, `transactions.service.ts` | installments, `blockedAt`, payment links | createForPurchase, due check, penalties, payInstallment, overdue and quit collection | `Installments` |
| Settlement of merchants | `transactions.service.ts` `sweepAutoWithdraw`, `settlement/`, `rail-settlements/`, `wallet-types/withdrawal-methods.ts`, `scheduler/` | `settledAt`, WITHDRAW rows, rail settlements, fees | scheduled and instant sweeps, split amounts, fees | `SettlementSweep` |
| Idempotency | `idempotency/idempotency.service.ts`, `TransactionsService.run` | `idempotency_keys` | claim, complete, replay | `Idempotency` |
| Customer identification | `purchase-gateway/otp.service.ts`, `captcha.service.ts` | codes, captchas and sessions in memory | generate, verify, resolve | `PayPage` |
| Sandbox gateway | `ipg-backend/src/payments/payments.service.ts` | payment intents | create, confirm, cancel, verify | `PayPage`, `Payments` |
| Row locks, connection pool | every operation of `transactions/` and `wallets/` | locks of rows, connections | SELECT FOR UPDATE, UPDATE, foreign keys, reads through the pool | `RowLocks` |
| Payment page and widget | `ipg-frontend/src/views/PayView.vue`, `components/WidgetPayPanel.vue` | the step shown, what was entered, requests under way | the handlers, from await to await | `Checkout` |
| Wallets | `wallets/wallets.service.ts` | wallet rows, `closedAt` | open, close, reopen, withdraw, transfer, adjust | parts, in the modules above |
| Ledger | `gl/ledger.service.ts` | accounts, journal entries, postings | postEntry and the named postings, balances | as balance changes |
| Gateways' clients | `ipg/*.ts`, `payment-gateway/` | none (settings row) | createPayment, verifyPayment | no |
| Accounts and panel | `auth/`, `users/`, `panel-roles/`, `admin/` | users, roles | login, guards, administration | no |
| Reporting, realtime, logging, i18n | `gl/gl-reporting.service.ts`, `realtime/`, `logging/`, `common/` | none of the money state | queries, notifications | no |
| Panels, SDK, deployment | `src/frontend`, `src/sdk`, `docker*` | none | user interface, client calls | no |

How they interact. Every money operation is one PostgreSQL transaction at READ
COMMITTED. Rows are serialised with `SELECT ... FOR UPDATE`: first the transaction
row, then wallets in ascending id order, then (for credit) the repository. Other
reads go through a second connection and see only committed rows. Gateway calls are
made inside the transaction that holds the row lock; webhooks are called inside it
too. Schedulers read a list of ids first and then act on each id. The browser reaches
both backends with plain JSON requests and keeps no more than one page's state.

What is hard, and so what the properties are about: verifications, cancels, timeouts
and refunds meeting on one row; a gateway that has captured money when the local
transaction rolls back; flags (`closedAt`, `blockedAt`, available credit) read
without a lock and used later; a scheduler acting on a list that is stale; keys
that must be unique over retries; installments settled by two payments at once;
the order in which locks and connections are taken; codes kept in the memory of a
process that may restart; answers that are lost on their way to a browser.

## 2. Modules

| Module | What it is |
| --- | --- |
| `MoneyMoves` | What a payment promises: one atomic move of money, at most one undo. The abstract specification. |
| `Payments` | Gateway payments between plain wallets, with row locks, gateway, scheduler, rollbacks and crashes. Implements `MoneyMoves`. |
| `CreditPurchases` | Purchases from repository-backed credit lines, with support top-ups, refunds, write-offs, closing. |
| `Installments` | The plan of such a purchase: due dates, penalties, blocking, repayment, write-off, refund. |
| `SettlementSweep` | How a merchant's wallet is paid out, with splits and fees. |
| `Idempotency` | Keyed requests: claim, work, store the response, in one DB transaction. |
| `PayPage` | The servers behind the payment page of one charge: codes, captchas, sessions, the gateway's intent. |
| `Checkout` | The payment page and the widget in the browser, and how they meet the servers. |
| `RowLocks` | The locks and connections of thirteen operations, in the order they take them. |
| `*_proofs` | The theorems about every module above; those about `RowLocks` and `Idempotency` are in `Database_proofs`. |
| `SumTheorems` | What sums over finite sets of rows do when a row changes, comes or goes; used by four of the proof modules. |
| `MC*` | The small instances: values of the constants for TLC. |

How they fit together. Each module takes the others' parts as single steps: a locked
section is one step wherever the order of locks does not matter, and `RowLocks` is the
module where it does; the verification of a purchase is in detail in `Payments` (rows),
`CreditPurchases` (what a line pays), `PayPage` (the gateway's read and save) and one step
in `Checkout`; the repayments that are one step of `CreditPurchases` are the subject of
`Installments`, and the payouts of `Payments` that of `SettlementSweep`.

### Payments

State of a payment `t`: `status[t]`, `payer[t]`, `payee[t]`, `overdue[t]` (`expiresAt`
is past) are columns of its row; `intent[t]` is the gateway's record of it; `phase[t]`
says how far an open `verifyPurchase` transaction got (holding the row and asking the
gateway, or captured and about to settle); `entries[t]` and `reversals[t]` count journal
entries. `balance` is the ledger's balance of a wallet, `closed` the wallets with
`closedAt`, `closing` close requests that have read a zero balance, `sweep` the list a
timeout sweep has read, `told` what the merchant's webhook was told.

`verifyPurchase` is split where another process can come between: `VerifyBegin` takes
the row lock, `VerifyAtGateway` is the gateway's capture, and then the transaction ends
as `VerifySettle`, `VerifyReject` (a closed wallet or the floor check throws),
`VerifyAbort` (crash) or `VerifyLoseCommit` (crash after the webhook, before COMMIT);
`VerifyRefused` is a gateway that says no. A single conditional UPDATE is one step
(`CancelPending`, `SweepExpire`, `AttachWallet`) and waits while a verification holds the
row. `Refund` is one step: it holds the row and both wallets from first read to commit.
`CloseCheck` and `CloseCommit` are two, as `closeForUser` reads without a lock.

The refinement mapping to `MoneyMoves` reads a payment's life off its status and
reversal, and its legs off its journal entry.

### CreditPurchases

A customer's credit wallets draw on one repository, up to a `ceiling` (`virtualAmount`)
each; the draw is owed as `receivable` and, if the wallet's type has installments, as the
principal of a plan. `draw`, `funded`, `undrawn` and `restored` are the amounts of the rows
with the unique keys `credit-fund:`, `support-fund:`, `credit-fund-reverse:` and
`installment-restore:`. `owed`, `canceled`, `repaid` and `reowed` are the principal of a
purchase's installments: unpaid, CANCELED, PAID, and unpaid again though they have their
restore row. `own` is the wallet's own balance, `support` the support wallet, `cash` the
bank, `paidIn` (a history variable) what the customer really paid.

`confirmSupportTopUp` is a request with five steps, because it holds no lock between
them: `Quote` (available credit, read without a lock), `Attach`, `Check` (no PENDING
top-up, purchase still PENDING), `TakeRow` (its UPDATE of `expiresAt`), `Create`
(commit). A top-up then has a row of its own: `Capture`, `CompleteTopUp` (support wallet
credited and the purchase settled), `CompleteTopUpAlone` (the purchase was completed
meanwhile), `RejectTopUp` and `AbortTopUp` (rolled back after the capture). A repeated
verification of a COMPLETED top-up is `CompleteTopUp` again, which the keys stop or not.
`Settle` is `settleCreditFundedPurchase`. `Absorb` is the repository writing a debt off,
`Reclaim` the closing of a line. `Repay`, of any part of the principal that is owed or
CANCELED, stands for the payment links of `Installments`, and `StaleSave` for what its
sweep may write over them: any part that was settled or CANCELED is owed again. Fees and
penalties are left out here.

### Installments

`row[i]` has the columns of an installment the flows read: status, amount,
`penaltyDaysApplied`, `dueCheckedAt`. `day` is the date. `link[l]` is a DEPOSIT row with an
`installmentId` or a `settlesWalletId`, and the amount it was created for; `captured` are
the links whose money the gateway holds. `restored` are the unique keys
`installment-restore:<id>`. The line is `ceiling`, `receivable`, the pool `repo`, the fee
repositories `fees`, the wallet's own balance `held` and the bank `cash`.

The sweep holds no lock and saves whole entities: `sweep[s].copy` is what it read at the
start of the due check or of the penalty run, `SaveDue` and `SavePenalty` write that copy
back with the change it makes, over whatever was committed in between; `Unaltered` is
TypeORM's rule that an entity without a change is not written. The due check looks a
purchase up (`LookUp`) before it saves the installments of it. `DieInSweep` is a process
that stops in between.

A payment link is opened, captured, and then settled in two steps: `CreditRepayment`
locks the repository, reads the installments without locking them and posts the legs
(`away` is what goes to other repositories); `SettleLink` marks paid what is to be paid by
then, and commits. Draws, refunds and write-offs wait for the repository's row
(`RepositoryFree`), the sweep does not. `RejectLink` and `AbortLink` roll either half back.
`ReadOverdue`, `ReadQuit` and `Absorb` are an administrator's write-off with its read
before the locks.

### SettlementSweep

`sweepAutoWithdraw` is `TakeWallet` (lock, balance), `SweepFee` (the fee repository's lock,
or no fee if it is closed) and one of `SweepWhole`, `SweepSplit`, `SweepRejected`,
`SweepEnd`. `Slices`, `FeeOf`, `Rounded` and `ComputeAmounts` are the arithmetic of
shares and fees, in thousandths as the entity's columns keep them. `settled` is
`settledAt`, `keyed` the idempotency keys of the current minute that exist, the payout's
and its fee's. On an instant rail every verification of a COMPLETED purchase, a repeated
one too, starts a sweep (`SweepBeginInstant`). `Payable(left)` is the set of outcomes of the
loop that skips a purchase the rest of the balance does not cover; `Cost(paid)` is what the
payouts of a set of purchases take. `paidFor[p]` is a history variable. `Exact` are the
purchases whose rows add up (`AddsUp`: the rounded fixed amounts to the price, the
percentages before the last to no more than 100). The code accepts others, by its tolerance
and its rounding, and `SplitRows` contains them; "in full" is claimed for `Exact` only,
"once" for all.

### PayPage

One charge. `otp` is the one entry kept under its authority, `captcha` and `session` the
other in-memory tables, all emptied by `Restart`. `tab[t]` says where a browser tab's
request is between two awaits. The gateway reads an intent (`Confirm`, `Cancel`,
`VerifyRead`) and saves it (`SaveConfirmed`, `SaveCanceled`, `VerifySave`), so tabs
overwrite each other. `adrift` are the saves it still owes to a backend that restarted
while it waited.

A charge whose wallet is short takes another way: `ConfirmSupportTopUp`, `ResolveSession`,
`AttachPurchaseWallet`, `InitiateSupportTopUp` and `SaveSupportTopUp` are the request,
`PayTopUp` the payment at the real gateway, `CompleteSupportTopUp` the verification that
settles the charge, PENDING or REVERSED, without the sandbox gateway. `topup` says how far
the top-ups of this charge came, as one variable: that there may be two, and what they do
to the balances, is in `CreditPurchases`. History: `sentTo`, `passed`, `confirmed`.

### Checkout

`call[h]` is the await at which handler `h` is, what it sent and the answer; a handler's
code from one await to the next is one step (`MountResumes`, `OtpRequested`,
`WalletAttached`, ...). The customer's actions are guarded as the template guards the
buttons; `EnterDigits` includes the watcher that submits a code. `enterPayStep` loads two
things in parallel, here one after the other. `Fail` is a request that is refused, never
arrives, or is handled and loses its answer. `Reload`, `Leave` and `Return` end the page
and begin a new one with nothing of the old. `told` is what the page shows and the widget
emits to the page that embeds it. `Elsewhere` are the others at the same charge.

### RowLocks

`Scripts` gives an operation its sequence of row locks (exclusive, by UPDATE, or the key
share of a foreign key) and of reads that take a second connection; `taken[p]` is how far
transaction `p` is. `order` is where random ids put the wallets. `DeadlockAbort` is
PostgreSQL, which breaks a circle of waiting transactions; nothing breaks a wait for a
connection, as the pool is created without a timeout. One line, repository and merchant:
the sub-repository, the fee repository and the support wallet are taken last by whoever
takes them, so their place in the order does not matter. Verification, top-up and refund
are of different purchases.

### Idempotency

`row[k]` is the committed `idempotency_keys` row (identified by the request whose answer it
stores), `holder[k]` the open transaction that inserted `k`. PostgreSQL makes the second
INSERT wait (`Wait`) until the first transaction ends; the key is then free (`Claim`) or
taken (`Replay`, `Refuse`). `Finish`, `FinishUnheard` and `Fail` are the ends of the work.
`Send` is the client, which may send again at any time.

## 3. Runs

| Run | Instance | What it shows |
| --- | --- | --- |
| `payments_books` | 2 purchases, 1 deposit, 1 customer, 1 merchant | postings agree with statuses; no overdraft; balances explained by the transactions table |
| `payments_rows` | 1 purchase, 1 deposit, 2 customers, 1 merchant | only captured money moves; the row is settled as checked; refinement of `MoneyMoves`; every payment is resolved |
| `idempotency` | 4 requests, 2 keys, 2 different asks | a key is applied once and answers agree; every request ends |
| `credit_books` | 2 purchases, 2 top-up requests, 2 lines (one with installments), repository of 2 | books balance, lines are conserved, both records of a line are what its rows say, nothing is paid twice |
| `installments` | a purchase of 2 installments over days 0 to 3, 1 payment link, 1 write-off, 1 sweep with 1 death | amounts are exact whatever the sweep saves late; the books agree; principal is restored once; no debt vanishes; penalties converge; who is long overdue gets blocked |
| `settlement` | 2 purchases (one with a fixed split), 2 overlapping sweeps, every kind of rail, a percentage and a fixed fee, a credit adjustment, 1 death | a purchase is paid out by name once and whole; no fee to a closed repository; a completed purchase is paid out in the end |
| `paypage` | 2 customers, 2 tabs, 2 codes, 2 captchas, 1 restart | a code passes once; nobody is charged without a code of their own and a confirmation or a paid top-up |
| `checkout` | page and widget, a wallet that covers the charge and one that does not | one changing request at a time; a success that is told is true; buttons come back |
| `locks` | 3 processes, 4 connections, all multisets of 13 operations, all 6 orders of three wallets | operations that lock a repository last never wait in a circle; nothing stands still that PostgreSQL does not break |
| `credit_resurrected` | as `credit_books` | violated: a reversed purchase can no longer be verified |
| `credit_free_refund` | as `credit_books` | violated: what is refunded as real money was paid as real money |
| `installments_stale_save` | as `installments` | violated: the penalty run does not make a PAID installment OVERDUE |

Bounds. Amounts are 1 and 2 and openings are such that one purchase is affordable and
two are not, so every floor check both passes and fails. Two rows of each kind are enough
for the races: an interleaving here is between two operations of one row, or of two rows
over one wallet, and no operation touches more rows than that. The four requests of
`idempotency` are two copies of one, one with another ask and the same key, and one with
its own key. `credit_books` is symmetric in its two top-up requests, which no property
tells apart. In `installments` day 3 (`LastDay`) lies two days after the first deadline and
one after the second, with a `Threshold` of one day: a penalty is missed and caught up, an
installment gets overdue while the other is long overdue, and one link, one write-off and
one sweep at a time give every overlap of a stale save with a settlement; sweeps that
overlap each other are not in the run, and the invariants and action properties are proved
for any number of them. In
`settlement` the fee of 20 % and 2 swallows the smaller slices whole, 33.333 % and 66.667 %
round, one purchase has fixed rows and the other the defaults, and the adjustment (at
most `MaxAdjust`) brings money that belongs to no purchase, so that a second payout of the
whole balance can meet the key of its minute. `MaxDeaths` and `MaxRestarts` are one, as
the state after a second death or restart is like the one after the first. `paypage` is
symmetric in its four sets, and no property tells their members apart. In `locks` circles
of two and three are possible, and there is the smallest number of connections the theorem
allows. `checkout` needs no bound: a page opened anew forgets.

Deadlock is checked in `payments_*`, `idempotency` and `installments`. In the `credit_*`,
`settlement`, `paypage`, `checkout` and `locks` runs it is not: their purchases, sweeps,
codes and processes are finite sets that get used up, and the system may stop; that
nothing stops early in `locks` is the invariant `NeverStandStill`.

Fairness. `EventuallyResolved` assumes that time passes, that the 30-second interval keeps
calling the sweep and the sweep goes through its list, and that a verification ends one
way or another (a response, an error, a crash that drops its connection). Customers and
merchants owe nothing. `EveryRequestEnds` assumes that a transaction ends (weak fairness)
and that PostgreSQL, which queues waiters of a lock, does not pass over a waiting INSERT
for ever (strong fairness of entering). `PenaltyConverges` and `LongOverdueIsBlocked`
assume weak fairness of the sweep's steps, which a timer starts and nothing but a death
stops; a death costs one run. `EventuallyPaidOut` assumes the same of the settlement
sweep and of the minute that passes. `ButtonsComeBack` assumes that requests under way
end (`fetch` has no timeout of its own; the browser's and the network's end it) and that
the browser resumes a handler whose answer is there.

### Known disagreements

Between what a comment says and what the code does. Three are the `violation` runs above,
with their quotations in `PROJECT.json`. The models reproduce more, without a run of their
own:

Payments (`transactions.service.ts` unless another file is named)

- The sandbox gateway verifies an intent once; when the local settlement is then rejected
  (2345) the purchase can never be verified again. 1854: "the IPG's own verify call is
  one-time-use, so an early or duplicate call is harmless" (an early one is not).
- A deposit or purchase captured at its gateway goes back to PENDING when the process
  dies before COMMIT (1934), and can be canceled or expire. 2774: "no balance to unwind,
  since nothing moves until /verify succeeds".
- The merchant's webhook is called before COMMIT (2059), so it may announce a payment
  that is rolled back.
- A wallet's balance is read without a lock before it is closed (`wallets.service.ts:481`),
  so a closed wallet may hold money; `src/README.md:298` "only allowed at a zero balance".
- The status REVERSED assigned by the floor check is rolled back by the exception thrown
  after it, so the purchase stays PENDING until a cancel or the timeout (`VerifyReject`).
- A request that finds its key in flight is not refused, it waits and then replays.

Credit purchases

- Two confirmations of one shortfall can each create a top-up (1739). 1729: "a second call
  while one is already PENDING just hands back the same redirect instead of charging twice".
- A top-up captured by a real gateway is rolled back when the settlement throws (2269).
  2263: "Safe either way (nothing moves on a throw)".
- A top-up can be sized for one wallet and belong to a purchase another wallet was
  attached to (`Quote`, then `Attach` does nothing).
- A line whose type has no installments never has an unpaid one, so it can be closed, and
  its purchase refunded, with its receivable left open: `LineConserved` and
  the receivable in `LineExplained` are stated of the lines with installments for that
  reason.

Installments

- A refund cancels an installment whose payment is at the gateway; its verification marks
  the CANCELED one paid and restores its principal (`installments.service.ts:746`), so the
  ceiling ends above the grant and the receivable below zero. `BooksAgree` adds the two,
  and `LineExplained` says that both are what the rows say, which is then too much.
- A link for less than the split amounts to (a penalty was added after it was created)
  is captured and then rejected, at every attempt while it is too small (`LegsBalance`).
- A penalty saved between the split (1039) and the settlement (1998) is in the amount of an
  installment that becomes PAID without having been paid: it is forgiven.
- An installment a stale save has made owed again has its restore row, so neither a payment
  nor a write-off can settle it (`Restorable`); one that was CANCELED by a refund and is
  owed again can be paid.
- A draw does not look at `blockedAt` (3177 looks at it when a purchase is initiated): a
  wallet blocked later still pays at verification.

Settlement

- A sweep of the whole balance sets no `settledAt`, so once the wallet gets settlement
  accounts, or one charge carries a split, every purchase paid out before counts as
  unsettled again and is paid a second time, by name, out of later purchases' money; what
  that money does not cover is skipped. A refund of a settled purchase has the same effect.
  3043: "every purchase's amount was already added to this wallet's balance at verify time,
  so this should never trip". `PaidOnceInFull` is about what is paid by name.
- FIXED rows are rounded one by one while only their rounded sum is validated
  (`settlement.service.ts:43`): 5.5 and 4.5 of 10 become 6 and 5. With percentages the
  tolerance can make the last share negative, and a share that is not positive is not paid.
  A purchase split so is settled for more or less than its price, and the wallet can be
  overdrawn by the difference; `PaidOnceInFull` and the sign of the balance in `TypeOK`
  leave these splits out, by `Exact`.
- Two instant payouts of the whole balance within one minute have one key; the second is
  rejected and its money waits for a next purchase.
- The scheduler's loop over wallets has no try/catch: what one wallet's sweep throws leaves
  the wallets after it unswept (`settlement-rail-sweep.service.ts:40`). `SettlementSweep` is
  one wallet, whose sweep may not come.

Locks. What TLC finds when a property is asked of more operations than
`RepositoryLastNeverCircle` names. PostgreSQL aborts one member of the circle, and its
operation fails with an error.

- Overdue collection and repayment lock the repository and then update the credit wallet:
  a circle with a reclaim, a refund, a transfer out, a verification or a withdrawal under
  every order of ids, and with a top-up's completion where the credit wallet's id is before
  the repository's.
- An initiation shares the customer's wallet and then the merchant's: a circle with a
  refund, a top-up's completion, a transfer or a verification when the merchant's id comes
  first.
- A reclaim or a withdrawal with a top-up's completion, when the repository's id comes
  before the credit wallet's; a transfer out, a verification or a refund with it, when the
  repository's comes before both.
- A refund, or the repeated verification of a top-up, with the settlement sweep under every
  order: the sweep has the wallet and updates purchase rows, they have the row.
- Circles of three: the sweep with one of those and a transfer, a verification or an
  initiation; a withdrawal or reclaim with a top-up's completion and a transfer, a
  verification or a refund.
- With as many operations at once as connections, all of them can wait for a second
  connection, which nothing breaks (2026).

Payment page and widget (`PayView.vue`, `WidgetPayPanel.vue`)

- The wallet buttons stay enabled while a choice is under way: the shortfall of one wallet
  is shown and the top-up is asked for another. `PayView.vue:514`: "kicks off a real
  ZarinPal payment for exactly the shortfall".
- The widget opened for a charge that has its wallet shows `confirming` and never settles
  it. `WidgetPayPanel.vue:336`: "nothing left to identify, go straight to settling it".
- "Resend code" sends the captcha accepted before, and the one loaded after the refusal
  has no field on that step.
- After an error of confirm or of loading, `loadError` is never cleared: the buttons do
  not return until the page is opened again. (`ButtonsComeBack` is about buttons that are
  there and disabled.)
- A lost answer of a verification is shown, and emitted, as FAILED though the purchase
  completed. `PayView.vue:595`: "fully settled server-side by this point (or definitively
  failed)".
- After a canceled top-up the page goes straight to the pay step, where no second top-up
  is offered. `PayView.vue:561`: "frees the customer to start a fresh top-up". If the
  cancel fails, unseen, the top-up stays PENDING.
- An answer that arrives after the widget's countdown ended shows its step in place of
  `expired`.

## 4. Proofs

Everything proved holds for any sets of payments, wallets, requests, installments,
sweeps, tabs and codes, any amounts, fees, dates and split rows, that satisfy the named
assumptions of the modules: amounts are positive, openings are not negative, the null
values are not rows, and the sets of rows that are summed over are finite, as the rows of
a table are. In `RowLocks` they hold for any number of processes, any orders of ids and
any number of connections greater than theirs.

| Theorem | States |
| --- | --- |
| `TypeCorrect`, `MoneyMovesOnce`, `FloorKept`, `CaptureFirst`, `VerificationHoldsRow` | `TypeOK`, `MoneyMatchesStatus`, `NoOverdraft`, `OnlyCapturedMoves`, `VerifiedRowIsPending` of `Payments` |
| `BalancesExplained` | `LedgerExplained`: every balance is what the transactions table says it is |
| `StatusMovesForward`, `RowSettledAsChecked` | the action properties `StatusOrder`, `CheckedRowIsSettled` |
| `PaymentsImplementMoneyMoves` | `ImplementsMoneyMoves`, the refinement |
| `IdempotencyTypeCorrect`, `KeyAppliedOnce`, `AnswersAgree` | `KeyedTypeOK`, `AppliedOnce`, `AnswersAreOfOneAsk` of `Idempotency` |
| `CreditTypeCorrect`, `CreditFloorKept`, `CreditLineConserved`, `SettledIsPaid`, `PayerStays` | `TypeOK`, `NoOverdraft`, `LineConserved`, `PaidInFull`, `PayerKept` of `CreditPurchases` |
| `LedgerBalances`, `SupportAddsUp`, `LineIsItsRows` | its books: `CashBacksWallets`, `SupportExplained`, `LineExplained` |
| `InstallmentsTypeCorrect`, `PenaltyIsExact`, `LineBooksAgree` | `TypeOK`, `PenaltyExact`, `BooksAgree` of `Installments` |
| `RestoredOnce`, `DebtEndsForAReason` | its action properties `PrincipalRestoredOnce`, `NoDebtVanishes` |
| `SettlementTypeCorrect`, `PurchasePaidOnce`, `ClosedGetsNoFee` | `TypeOK`, `PaidOnceInFull`, `NoFeeToClosed` of `SettlementSweep` |
| `PaidAtMostOnce` | its action property `PaidWithItsMark`: money goes out for a purchase only in the step that settles it, also where its rows do not add up |
| `SharesAddUp`, `FeeAndNet` | its arithmetic: percentage rows give slices that add up to the amount, fee and net of a slice add up to it |
| `PageTypeCorrect`, `CodeOpensOneSession`, `NoChargeWithoutConsent` | `TypeOK`, `CodeUsedOnce`, `ChargedWithConsent` of `PayPage` |
| `CheckoutTypeCorrect`, `OneChangeAtATime`, `ToldSuccessIsTrue` | `TypeOK`, `OneRequestAtATime`, `SuccessIsTrue` of `Checkout` |
| `OneResultIsTold` | its action property `ResultStands`: a result told is replaced only when the page is opened anew |
| `LocksTypeCorrect`, `NoCircle`, `NoStandStill` | `TypeOK`, `RepositoryLastNeverCircle`, `NeverStandStill` of `RowLocks` |

The argument, module by module. Each inductive invariant (`IInv`, a conjunction of named
parts at the head of the proof module) was an invariant of a run before it was proved.

*Payments.* That money moves once is not inductive alone; it needs that a verification in
flight holds a PENDING row whose payer is attached and whose entry is not posted yet
(`VerifiedRowIsPending`), which the row lock gives. With that invariant each step of the
code maps to one step of `MoneyMoves` or to a stutter. For `LedgerExplained` a wallet's
balance is a sum over rows, each worth what its status says; a settlement or refund
changes one row, and by `SumChange` the sum by exactly what the posting moves.

*SumTheorems.* The library's induction theorems take an operator, which the provers cannot
instantiate, so induction over a finite set is done with sets: `MinimalSubset` says that a
non-empty set of subsets of a finite set has a minimal member (strict inclusion is
well-founded there), and what fails of a sum would fail of a minimal set, where taking one
element out gives the contradiction. `FoldExists` is the existence of the recursive
function that the community modules' fold chooses; the other lemmas (`SumTakeOut`,
`SumChange`, `SumUnion`, `SumMonotone`, ...) follow from it.

*Idempotency.* A key is applied once because nobody works on a key whose row is committed,
and that needs that a key has one holder, the request at work (`OneWorkerPerKey`). The
proof module extends `RowLocks` too; so that both can be extended, initial state, next-state
relation, specification and types of `Idempotency` carry `Keyed` in their names.

*CreditPurchases.* Three invariants need one another. A top-up costs at most its purchase
because ceiling and repository are never negative; a settlement keeps them so because it
checks the remainder against both; a refund gives back at most the price because the
unique keys bound the draw by it (`KeysBounded`), also when a purchase is completed,
reversed and completed again. Ceiling and receivable are what the rows of a line's
purchases say (`LinesAgree`), since a step that moves one of them writes a row of the same
amount, and attaching a wallet moves no sum, as a purchase without a payer has no rows
(`Unattached`). That the rows restore no more than was drawn holds although the model
settles CANCELED installments and stale saves change what is owed: what may still be
restored, owed or CANCELED, is what was drawn and not restored yet (`PlanCovered`).

*Installments.* The sweep saves what it read long before, so that an amount is exact now
needs that every copy it holds was exact on the day it was read (`SweepSound`,
`RowsPriced`): a penalty is a function of the days counted, a stale copy is an earlier
exact row, and saving it back leaves the row exact though out of date. `LinkSound` says
that a link for one installment is for one that was drawn; such a row amounts to at least
its principal and fee, so what `CreditRepayment` routes away is covered by what came in,
and stays so until `SettleLink` (`BooksAgree`: the repository is never overdrawn). The
unique keys make a restored principal count once, also for an installment that a stale
save has made owed again. No debt vanishes although the sweep writes rows back, because
what it lists was unpaid when it was read, and it makes CANCELED only what belongs to a
purchase it looked up as REVERSED, which no step undoes (`LookedSound`).

*SettlementSweep.* The lock of the wallet gives `OneSweep` (one sweep is past it) and
`WalletSeen` (the balance it read is still the balance), that of the fee repository gives
`FeeRepoOpen` (one that is to get a fee stays open till then). With them a sweep marks
`settled` what it pays, once, and what it pays is the sum of fees and nets over slices,
which is the price where the rows add up. The arithmetic is proved for any rows: rounding
down leaves the last row a remainder that completes the amount (`FlooredShares`), and a fee
is never more than the slice it is taken of.

*PayPage.* `CodeBook` says that the live entry names the user its code was made for, and
that a code not used yet was not accepted yet; `Holders` that a session, a tab about to
open one or to choose a wallet, and the payer of the charge are users who entered a code
made for them, by either way of choosing; `Consent` that an intent that is authorized or
verified, a verification past its read, and a save of VERIFIED that is adrift come after a
confirmation, and that a charge completed without one has a paid top-up. A restart forgets
the tables and keeps all three.

*Checkout.* No code compares two requests. `Whereabouts` says which handler can be at which
await: `onMounted` only at requests that read, or that end a top-up. The four handlers that
share `gatewayBusy` exclude each other, as each begins when it is clear and whoever is under
way has it set, to its very last await (`OneBusy`). `act` looks at another flag. That it
excludes the four rests on the step shown: its buttons are on the pay step only, none of
the four is at a changing request there (`PayStep`: `enterPayStep` comes after the wallet's
answer, and what follows it only reads), and a page that opens shows no step until its
first answer (`Opening`). A clock that runs out takes the widget, which has no pay step,
off its step. A success is shown of an answer that says so, which is true when it is given
(`DoneIsTrue`) and stays true: COMPLETED stands for having paid, so a refund later on is
left out, and nothing else takes a purchase out of it. Once a result is told, `ToldIsLast`
says, the step is past every button and no handler is at an await that tells one.

*RowLocks.* The rows an operation of the class locks ascend in rank (its payment row, the
wallets by id, the repository). In a circle take the member that waits for the row of the
highest rank: whoever blocks it holds that row and waits for a higher one. And when nobody
can take a step, everyone within a transaction waits for a row, since a connection is
free, so those within form a circle.

`VerifiedRowIsPending`, `StatusOrder`, `PayerKept`, `PaidWithItsMark`, `OneWorkerPerKey`,
`ResultStands`, `SharesAddUp` and `FeeAndNet` are proved and in no run: strengthenings,
consequences of the guards or of the invariants, and lemmas about operators.

Only model-checked:

- Liveness (`EventuallyResolved`, `EveryRequestEnds`, `PenaltyConverges`,
  `LongOverdueIsBlocked`, `EventuallyPaidOut`, `ButtonsComeBack`), which rests on fairness
  and so on ENABLED.

## 5. Plan

Done: all modules of the table above, and the proofs of every safety property, action
property and refinement that the passing runs check. What would come next is a proof that
the steps `Checkout` and `PayPage` take for the servers are steps of `Payments` and
`CreditPurchases`, in whose rows they happen; now they are related only by being read from
the same lines.

## 6. Not modelled

- Gateways' client code (formatting, signing, HTTP), reporting, notifications, messages,
  widget sessions, SDK, migrations and deployment: they carry no money state, or only its
  presentation. Wallet types are configuration read by the other components and appear as
  constants.
- Accounts and roles: login, guards and records. `panel-roles.service.ts:47` and `:80` clear
  and set the default role in two statements, so two administrators can leave two
  defaults; that flag is all the state there is.
- The customer's and the administrators' panels (`src/frontend`), more than half of the
  repository's lines: views that load a list, show it and submit a form, with their
  message catalogues and styles. They keep no state between requests that another actor
  changes, and the backend checks everything they send again; a model of them would
  restate their templates. Of the payment page only its script is modelled, for the same
  reason.
- In the ledger: journal entries as rows, and the general ledger's reports. What a posting
  does to the balances is in the modules that post it.
- Opening a wallet, an administrator's edit of its settings, and card data at the sandbox
  gateway.
