----------------------- MODULE SettlementSweep_proofs -----------------------
(***************************************************************************)
(* Proofs about SettlementSweep for any purchases, prices, splits, fees and *)
(* any number of sweeps of one wallet.                                     *)
(*                                                                         *)
(* First the arithmetic: a fee and its net are the whole of a slice, and    *)
(* the slices of a purchase whose rows add up are its price, whatever is    *)
(* floored.  Then the lock of the wallet: one sweep at a time has it, and   *)
(* what that sweep has read is still the balance when it pays.              *)
(***************************************************************************)
EXTENDS SettlementSweep, SumTheorems, SequenceTheorems

(* The wallet is locked by one sweep at a time.                             *)
OneSweep ==
  \A s, r \in Sweeps : (sweep[s].stage # "idle" /\ sweep[r].stage # "idle") => s = r

(* A sweep that has the lock has read the balance.                          *)
WalletSeen ==
  \A s \in Sweeps : sweep[s].stage # "idle" => sweep[s].balance = balance /\ balance > 0

(* A repository that a fee will go to is open until the fee is posted.      *)
FeeRepoOpen ==
  \A s \in Sweeps : (sweep[s].stage = "ready" /\ sweep[s].fee) => ~feeRepo.closed

IInv == TypeOK /\ OneSweep /\ WalletSeen /\ FeeRepoOpen /\ PaidOnceInFull

----------------------------------------------------------------------------
(* The arithmetic.                                                          *)

(* A fee is never negative and never more than what it is taken from.       *)
LEMMA FeeBounds ==
  ASSUME NEW amount \in Int
  PROVE  /\ ComputeWithdrawalFee(amount) \in Nat
         /\ amount \in Nat => ComputeWithdrawalFee(amount) <= amount
         /\ amount < 0 => ComputeWithdrawalFee(amount) = 0
<1>1. MilliPercent \in Nat /\ FixedFee \in Nat
  BY PriceAssumption
<1>2. CASE amount <= 0
  BY <1>2 DEF ComputeWithdrawalFee
<1>3. CASE amount > 0
  <2> DEFINE part == amount * MilliPercent
  <2>1. part \in Nat
    BY <1>1, <1>3
  <2> HIDE DEF part
  <2>2. part \div 100000 \in Nat
    BY <2>1
  <2> QED
    BY <1>1, <1>3, <2>2 DEF ComputeWithdrawalFee, part
<1> QED
  BY <1>2, <1>3

(* payOut moves the whole slice, as fee and net, also when the fee swallows   *)
(* it; of a negative slice it moves nothing.                                *)
THEOREM FeeAndNet ==
  ASSUME NEW amount \in Int, NEW charged \in BOOLEAN
  PROVE  /\ FeeOf(amount, charged) \in Nat /\ NetOf(amount, charged) \in Nat
         /\ FeeOf(amount, charged) + NetOf(amount, charged) = IF amount < 0 THEN 0 ELSE amount
<1>1. /\ FeeOf(amount, charged) \in Nat
      /\ amount \in Nat => FeeOf(amount, charged) <= amount
      /\ amount < 0 => FeeOf(amount, charged) = 0
  BY FeeBounds DEF FeeOf
<1> QED
  BY <1>1 DEF NetOf

LEMMA RoundedType == ASSUME NEW milli \in Nat PROVE Rounded(milli) \in Nat
BY DEF Rounded

(* The rows of a list.                                                      *)
LEMMA RowsType ==
  ASSUME NEW rows \in SplitRows, rows # <<>>
  PROVE  /\ Len(rows) \in Nat \ {0} /\ DOMAIN rows = 1..Len(rows)
         /\ \A k \in 1..Len(rows) : rows[k].milli \in Nat
<1> DEFINE Row == [type : {"PERCENT", "FIXED"}, milli : Nat \ {0}]
<1>1. rows \in Seq(Row)
  BY Zenon DEF SplitRows
<1>2. \A k \in 1..Len(rows) : rows[k].milli \in Nat
  <2>1. \A k \in 1..Len(rows) : rows[k] \in Row
    BY <1>1, ElementOfSeq, Zenon
  <2> QED
    BY <2>1
<1> HIDE DEF Row
<1>3. Len(rows) \in Nat /\ DOMAIN rows = 1..Len(rows) /\ Len(rows) # 0
  BY <1>1, EmptySeq, LenProperties
<1> QED
  BY <1>2, <1>3

(* Floored shares of at most 100 % are together at most the whole.          *)
LEMMA FlooredShares ==
  ASSUME NEW total \in Nat, NEW S, IsFiniteSet(S), NEW milli, NEW part,
         \A k \in S : milli[k] \in Nat /\ part[k] = (total * milli[k]) \div 100000,
         SumFunctionOnSet(milli, S) <= 100000
  PROVE  /\ \A k \in S : part[k] \in Nat
         /\ SumFunctionOnSet(part, S) \in Nat /\ SumFunctionOnSet(part, S) <= total
<1> DEFINE scaled == [k \in S |-> 100000 * part[k]]
           whole  == [k \in S |-> total * milli[k]]
<1>1. IsFiniteSet(S)
  OBVIOUS
<1>2. ASSUME NEW k \in S
      PROVE  part[k] \in Nat /\ total * milli[k] \in Nat /\ 100000 * part[k] <= total * milli[k]
  <2> DEFINE product == total * milli[k]
  <2>1. product \in Nat /\ part[k] = product \div 100000
    OBVIOUS
  <2> HIDE DEF product
  <2>2. product \div 100000 \in Nat /\ 100000 * (product \div 100000) <= product
    BY <2>1
  <2> QED
    BY <2>1, <2>2 DEF product
<1>3. \A k \in S : /\ scaled[k] = 100000 * part[k] /\ whole[k] = total * milli[k]
                      /\ scaled[k] \in Int /\ whole[k] \in Int /\ scaled[k] <= whole[k]
  BY <1>2
<1>4. \A k \in S : part[k] \in Nat
  BY <1>2
<1>5. \A k \in S : scaled[k] \in Int /\ whole[k] \in Int /\ scaled[k] <= whole[k]
  BY <1>3
<1>6. \A k \in S : part[k] \in Int /\ scaled[k] = 100000 * part[k]
  BY <1>3, <1>4
<1>7. \A k \in S : milli[k] \in Int /\ whole[k] = total * milli[k]
  BY <1>3
<1> DEFINE parts == SumFunctionOnSet(part, S)
           millis == SumFunctionOnSet(milli, S)
<1> HIDE DEF scaled, whole
<1>8. SumFunctionOnSet(scaled, S) <= SumFunctionOnSet(whole, S)
  BY <1>1, <1>5, SumMonotone
<1>9. SumFunctionOnSet(scaled, S) = 100000 * parts
  BY <1>1, <1>6, SumScaled
<1>10. SumFunctionOnSet(whole, S) = total * millis
  BY <1>1, <1>7, SumScaled
<1>11. parts \in Nat /\ millis \in Nat /\ millis <= 100000
  <2>1. \A k \in S : milli[k] \in Nat
    OBVIOUS
  <2>2. parts \in Nat
    BY <1>1, <1>4, SumType
  <2>3. millis \in Nat
    BY <1>1, <2>1, SumType
  <2> QED
    BY <2>2, <2>3
<1> HIDE DEF parts, millis
<1>12. total * 100000 = total * millis + total * (100000 - millis) /\ total * (100000 - millis) \in Nat
  BY <1>11
<1>13. parts <= total
  <2>1. 100000 * parts <= total * millis
    BY <1>8, <1>9, <1>10
  <2> DEFINE x == total * millis
             y == total * (100000 - millis)
  <2>2. x \in Int /\ y \in Nat /\ total * 100000 = x + y /\ 100000 * parts <= x
    BY <1>11, <1>12, <2>1
  <2> HIDE DEF x, y
  <2> QED
    BY <1>11, <2>2
<1> QED
  BY <1>4, <1>11, <1>13 DEF parts

(* The slices of a list of rows are integers.  Percentages, whatever they    *)
(* are, give slices that together are the amount; and where the rows add up *)
(* to it, fixed amounts do too and no slice is negative.                    *)
LEMMA AmountsOfRows ==
  ASSUME NEW rows \in SplitRows, rows # <<>>, NEW total \in Nat
  PROVE  /\ DOMAIN ComputeAmounts(rows, total) = 1..Len(rows)
         /\ \A k \in 1..Len(rows) : ComputeAmounts(rows, total)[k] \in Int
         /\ rows[1].type # "FIXED" => Total(ComputeAmounts(rows, total)) = total
         /\ AddsUp(rows, total) =>
              /\ \A k \in 1..Len(rows) : ComputeAmounts(rows, total)[k] \in Nat
              /\ Total(ComputeAmounts(rows, total)) = total
<1> DEFINE last == Len(rows)
           out  == ComputeAmounts(rows, total)
<1>1. /\ last \in Nat \ {0} /\ DOMAIN rows = 1..last
      /\ \A k \in 1..last : rows[k].milli \in Nat
  BY RowsType
<1>2. CASE rows[1].type = "FIXED"
  <2>1. out = [k \in 1..last |-> Rounded(rows[k].milli)]
    BY <1>2 DEF ComputeAmounts
  <2>2. \A k \in 1..last : Rounded(rows[k].milli) \in Nat
    BY <1>1, RoundedType
  <2>3. AddsUp(rows, total) => Total(out) = total
    BY <1>1, <1>2, <2>1 DEF AddsUp
  <2>4. DOMAIN out = 1..last /\ \A k \in 1..last : out[k] \in Nat
    BY <2>1, <2>2
  <2> QED
    BY <1>2, <2>3, <2>4
<1>3. CASE rows[1].type # "FIXED"
  <2> DEFINE first == 1..(last - 1)
             part  == [k \in first |-> (total * rows[k].milli) \div 100000]
             milli == [k \in first |-> rows[k].milli]
             rest  == total - SumFunctionOnSet(part, first)
  <2>1. out = [k \in 1..last |-> IF k < last THEN part[k] ELSE rest]
    BY <1>3 DEF ComputeAmounts, Total
  <2>2. /\ first \subseteq 1..last /\ \A k \in first : k < last
        /\ \A k \in 1..last : k < last => k \in first
        /\ last \in 1..last /\ last \notin first /\ first \cup {last} = 1..last
    BY <1>1
  <2>3. IsFiniteSet(first)
    BY <1>1, FS_Interval
  <2>4. \A k \in first : /\ milli[k] \in Nat /\ part[k] = (total * milli[k]) \div 100000
                         /\ part[k] \in Int
    BY <1>1, <2>2
  <2>5. AddsUp(rows, total) => SumFunctionOnSet(milli, first) <= 100000
    BY <1>1, <1>3 DEF AddsUp, Total
  <2> HIDE DEF first, part, milli, last
  <2>6. SumFunctionOnSet(part, first) \in Int
    BY <2>3, <2>4, SumType
  <2>7. rest \in Int
    BY <2>6
  <2>8. /\ DOMAIN out = 1..last /\ \A k \in first : out[k] = part[k]
        /\ out[last] = rest
    BY <2>1, <2>2
  <2>9. \A k \in 1..last : out[k] \in Int
    BY <2>2, <2>4, <2>7, <2>8
  <2>10. Total(out) = total
    <3>1. Total(out) = SumFunctionOnSet(out, first \cup {last})
      BY <2>2, <2>8 DEF Total
    <3>2. SumFunctionOnSet(out, first \cup {last}) = out[last] + SumFunctionOnSet(out, first)
      BY <2>2, <2>3, <2>9, SumAdd
    <3>3. SumFunctionOnSet(out, first) = SumFunctionOnSet(part, first)
      BY <2>3, <2>8, SumCongruence
    <3>4. out[last] + SumFunctionOnSet(part, first) = total
      BY <2>6, <2>8
    <3> QED
      BY <3>1, <3>2, <3>3, <3>4
  <2>11. ASSUME AddsUp(rows, total)
         PROVE  \A k \in 1..last : out[k] \in Nat
    <3>1. /\ \A k \in first : part[k] \in Nat
          /\ SumFunctionOnSet(part, first) \in Nat /\ SumFunctionOnSet(part, first) <= total
      BY <2>3, <2>4, <2>5, <2>11, FlooredShares
    <3>2. rest \in Nat
      BY <3>1
    <3> QED
      BY <2>2, <2>8, <3>1, <3>2
  <2> QED
    BY <2>8, <2>9, <2>10, <2>11 DEF last
<1> QED
  BY <1>2, <1>3

(* "Splits a total amount [...] so the pieces always sum to exactly          *)
(* totalAmount": computeAmounts, of percentage rows, whatever is floored.   *)
THEOREM SharesAddUp ==
  ASSUME NEW rows \in SplitRows, rows # <<>>, rows[1].type = "PERCENT", NEW total \in Nat
  PROVE  Total(ComputeAmounts(rows, total)) = total
BY AmountsOfRows

(* The same of a purchase, whichever rows apply to it.                      *)
LEMMA SlicesOfPurchase ==
  ASSUME NEW p \in Purchases
  PROVE  /\ IsFiniteSet(DOMAIN Slices(p))
         /\ \A k \in DOMAIN Slices(p) : Slices(p)[k] \in Int
         /\ p \in Exact => /\ \A k \in DOMAIN Slices(p) : Slices(p)[k] \in Nat
                           /\ SlicesTotal(p) = Price[p]
<1> DEFINE rows == IF Override[p] # <<>> THEN Override[p]
                   ELSE IF defaults THEN Accounts ELSE <<>>
<1>1. /\ Price[p] \in Nat /\ Override[p] \in SplitRows
      /\ Accounts \in SplitRows /\ Accounts # <<>>
  BY PriceAssumption, SplitAssumption
<1>2. CASE rows = <<>>
  <2>1. Slices(p) = <<Price[p]>>
    BY <1>2 DEF Slices
  <2>2. DOMAIN Slices(p) = {1} /\ Slices(p)[1] = Price[p]
    BY <2>1
  <2>3. IsFiniteSet({1})
    BY FS_Singleton
  <2>4. SlicesTotal(p) = SumFunctionOnSet(Slices(p), {1})
    BY <2>2 DEF SlicesTotal, Total
  <2>5. SumFunctionOnSet(Slices(p), {} \cup {1}) = Slices(p)[1] + SumFunctionOnSet(Slices(p), {})
    <3>1. IsFiniteSet({}) /\ \A k \in {} \cup {1} : Slices(p)[k] \in Int
      BY <1>1, <2>2, FS_EmptySet
    <3> QED
      BY <3>1, SumAdd
  <2>6. SlicesTotal(p) = Price[p]
    <3>1. SumFunctionOnSet(Slices(p), {}) = 0 /\ {} \cup {1} = {1}
      BY SumEmpty
    <3> QED
      BY <1>1, <2>2, <2>4, <2>5, <3>1
  <2> QED
    BY <1>1, <2>2, <2>3, <2>6
<1>3. CASE rows # <<>>
  <2>1. rows \in SplitRows
    BY <1>1, <1>3
  <2>2. Slices(p) = ComputeAmounts(rows, Price[p])
    BY <1>3, Zenon DEF Slices
  <2>3. p \in Exact => AddsUp(rows, Price[p])
    BY <1>3 DEF Exact
  <2> HIDE DEF rows
  <2>4. /\ DOMAIN Slices(p) = 1..Len(rows)
        /\ \A k \in 1..Len(rows) : Slices(p)[k] \in Int
        /\ AddsUp(rows, Price[p]) => /\ \A k \in 1..Len(rows) : Slices(p)[k] \in Nat
                                     /\ Total(Slices(p)) = Price[p]
    BY <1>1, <1>3, <2>1, <2>2, AmountsOfRows
  <2>5. IsFiniteSet(1..Len(rows))
    BY <1>3, <2>1, RowsType, FS_Interval
  <2> QED
    BY <2>3, <2>4, <2>5, Zenon DEF SlicesTotal
<1> QED
  BY <1>2, <1>3

(* What is paid out of a purchase that adds up, fees and nets, is its price. *)
LEMMA FeesAndNets ==
  ASSUME NEW p \in Purchases, NEW charged \in BOOLEAN
  PROVE  /\ Fees(p, charged) \in Nat /\ Nets(p, charged) \in Nat /\ SlicesTotal(p) \in Int
         /\ p \in Exact => /\ Fees(p, charged) + Nets(p, charged) = Price[p]
                           /\ SlicesTotal(p) = Price[p]
<1> DEFINE S == DOMAIN Slices(p)
           fee == [k \in S |-> FeeOf(Slices(p)[k], charged)]
           net == [k \in S |-> NetOf(Slices(p)[k], charged)]
<1>1. /\ IsFiniteSet(S) /\ \A k \in S : Slices(p)[k] \in Int
      /\ p \in Exact => (\A k \in S : Slices(p)[k] \in Nat) /\ SlicesTotal(p) = Price[p]
  BY SlicesOfPurchase
<1>2. \A k \in S : /\ fee[k] \in Nat /\ net[k] \in Nat
                   /\ Slices(p)[k] \in Nat => fee[k] + net[k] = Slices(p)[k]
  BY <1>1, FeeAndNet
<1>3. /\ Fees(p, charged) = SumFunctionOnSet(fee, S) /\ Nets(p, charged) = SumFunctionOnSet(net, S)
      /\ SlicesTotal(p) = SumFunctionOnSet(Slices(p), S)
  BY DEF Fees, Nets, SlicesTotal, Total
<1> HIDE DEF S, fee, net
<1>4. SumFunctionOnSet(fee, S) \in Nat
  BY <1>1, <1>2, SumType
<1>5. SumFunctionOnSet(net, S) \in Nat
  BY <1>1, <1>2, SumType
<1>6. SumFunctionOnSet(Slices(p), S) \in Int
  BY <1>1, SumType
<1>7. ASSUME p \in Exact
      PROVE  Fees(p, charged) + Nets(p, charged) = Price[p]
  <2>1. \A k \in S : fee[k] \in Int /\ net[k] \in Int /\ Slices(p)[k] = fee[k] + net[k]
    BY <1>1, <1>2, <1>7
  <2>2. SumFunctionOnSet(Slices(p), S) = SumFunctionOnSet(fee, S) + SumFunctionOnSet(net, S)
    BY <1>1, <2>1, SumOfSums
  <2> QED
    BY <1>1, <1>3, <1>7, <2>2
<1> QED
  BY <1>1, <1>3, <1>4, <1>5, <1>6, <1>7

----------------------------------------------------------------------------
(* Who holds the wallet.                                                    *)

Stages == [stage : {"idle", "locked", "ready"}, balance : Nat,
           taken : SUBSET {"fee", "net"}, current : BOOLEAN, fee : BOOLEAN]

(* Nobody holds it, and nobody takes it.                                    *)
LEMMA StaysFree ==
  ASSUME ~WalletLocked, UNCHANGED sweep
  PROVE  OneSweep' /\ WalletSeen' /\ FeeRepoOpen'
<1>1. \A s \in Sweeps : sweep'[s].stage = "idle"
  BY Zenon DEF WalletLocked
<1> QED
  BY <1>1 DEF OneSweep, WalletSeen, FeeRepoOpen

(* Whoever holds it lets go.                                                *)
LEMMA LetsGo ==
  ASSUME IInv, NEW s \in Sweeps, sweep[s].stage # "idle", sweep' = [sweep EXCEPT ![s] = AtRest]
  PROVE  /\ sweep' \in [Sweeps -> Stages]
         /\ OneSweep' /\ WalletSeen' /\ FeeRepoOpen'
<1>1. sweep \in [Sweeps -> Stages] /\ OneSweep
  BY DEF IInv, TypeOK, Stages
<1>2. AtRest \in Stages /\ AtRest.stage = "idle"
  BY DEF AtRest, Stages
<1>3. sweep' \in [Sweeps -> Stages] /\ \A r \in Sweeps : sweep'[r].stage = "idle"
  BY <1>1, <1>2 DEF OneSweep
<1> QED
  BY <1>3 DEF OneSweep, WalletSeen, FeeRepoOpen

(* A sweep takes it, or finds nothing to pay.                               *)
LEMMA TakeWalletKeeps ==
  ASSUME IInv, NEW s \in Sweeps, TakeWallet(s), UNCHANGED <<balance, feeRepo>>
  PROVE  /\ sweep' \in [Sweeps -> Stages]
         /\ OneSweep' /\ WalletSeen' /\ FeeRepoOpen'
<1>1. /\ sweep \in [Sweeps -> Stages] /\ balance \in Int /\ keyed \subseteq {"fee", "net"}
      /\ \A r \in Sweeps : sweep[r].stage = "idle"
  <2>1. \A r \in Sweeps : sweep[r].stage = "idle"
    BY Zenon DEF TakeWallet, MaySweep, WalletLocked
  <2> QED
    BY <2>1 DEF IInv, TypeOK, Stages
<1> DEFINE taken == [stage |-> "locked", balance |-> balance, taken |-> keyed,
                     current |-> TRUE, fee |-> FALSE]
<1>2. CASE balance <= 0
  <2>1. sweep' = [sweep EXCEPT ![s] = AtRest]
    BY <1>2 DEF TakeWallet
  <2>2. AtRest \in Stages /\ AtRest.stage = "idle"
    BY DEF AtRest, Stages
  <2>3. sweep' \in [Sweeps -> Stages] /\ \A r \in Sweeps : sweep'[r].stage = "idle"
    BY <1>1, <2>1, <2>2
  <2> QED
    BY <2>3 DEF OneSweep, WalletSeen, FeeRepoOpen
<1>3. CASE balance > 0
  <2> HIDE DEF taken
  <2>1. sweep' = [sweep EXCEPT ![s] = taken]
    <3>1. ~(balance <= 0)
      BY <1>1, <1>3
    <3> QED
      BY <3>1, Zenon DEF TakeWallet, taken
  <2> USE DEF taken
  <2>2. taken \in Stages /\ taken.stage = "locked" /\ taken.balance = balance
    BY <1>1, <1>3 DEF Stages
  <2> HIDE DEF taken
  <2>3. /\ sweep' \in [Sweeps -> Stages] /\ sweep'[s] = taken
        /\ \A r \in Sweeps \ {s} : sweep'[r].stage = "idle"
    BY <1>1, <2>1, <2>2
  <2> QED
    BY <1>3, <2>2, <2>3 DEF OneSweep, WalletSeen, FeeRepoOpen
<1> QED
  BY <1>1, <1>2, <1>3

----------------------------------------------------------------------------
(* The initial states, and one lemma for each kind of step.                 *)

LEMMA InitIInv == Init => IInv
<1> SUFFICES ASSUME Init
             PROVE  IInv
  OBVIOUS
<1>1. TypeOK
  <2>1. AtRest \in Stages /\ sweep = [s \in Sweeps |-> AtRest]
    BY DEF Init, AtRest, Stages
  <2>2. sweep \in [Sweeps -> Stages]
    BY <2>1
  <2>3. 0 \in -MaxAdjust..MaxAdjust /\ 0 \in 0..MaxDeaths
    BY PriceAssumption
  <2>4. status \in [Purchases -> {"PENDING", "COMPLETED", "REVERSED"}] /\ paidFor \in [Purchases -> Nat]
    BY DEF Init
  <2>5. balance = 0 /\ balance \in Nat /\ balance \in Int
    BY DEF Init
  <2>6. feeRepo \in [balance : Nat, closed : BOOLEAN, closing : BOOLEAN]
    BY DEF Init
  <2> QED
    BY <2>2, <2>3, <2>4, <2>5, <2>6 DEF Init, TypeOK, Stages
<1>2. \A s \in Sweeps : sweep[s].stage = "idle"
  BY DEF Init, AtRest
<1>3. OneSweep /\ WalletSeen /\ FeeRepoOpen
  BY <1>2 DEF OneSweep, WalletSeen, FeeRepoOpen
<1>4. PaidOnceInFull
  BY DEF Init, PaidOnceInFull
<1> QED
  BY <1>1, <1>3, <1>4 DEF IInv

(* The wallet's other operations wait for its lock.                         *)
LEMMA WalletKeeps ==
  ASSUME IInv, \/ \E p \in Purchases : CompletePurchase(p) \/ Refund(p)
               \/ \E d \in Adjustments : Adjust(d)
               \/ ReplaceForWallet
  PROVE  IInv'
<1>1. TypeOK /\ PaidOnceInFull
  BY DEF IInv
<1>2. ASSUME NEW p \in Purchases, CompletePurchase(p)
      PROVE  IInv'
  <2>1. Price[p] \in Nat
    BY PriceAssumption
  <2>2. TypeOK'
    BY <1>1, <1>2, <2>1 DEF TypeOK, CompletePurchase, sweepVars
  <2>3. OneSweep' /\ WalletSeen' /\ FeeRepoOpen'
    BY <1>2, StaysFree DEF CompletePurchase, sweepVars
  <2>4. PaidOnceInFull'
    BY <1>1, <1>2 DEF PaidOnceInFull, CompletePurchase
  <2> QED
    BY <2>2, <2>3, <2>4 DEF IInv
<1>3. ASSUME NEW p \in Purchases, Refund(p)
      PROVE  IInv'
  <2>1. Price[p] \in Nat
    BY PriceAssumption
  <2>2. TypeOK'
    BY <1>1, <1>3, <2>1 DEF TypeOK, Refund, sweepVars
  <2>3. OneSweep' /\ WalletSeen' /\ FeeRepoOpen'
    BY <1>3, StaysFree DEF Refund, sweepVars
  <2>4. PaidOnceInFull'
    BY <1>1, <1>3 DEF PaidOnceInFull, Refund
  <2> QED
    BY <2>2, <2>3, <2>4 DEF IInv
<1>4. ASSUME NEW d \in Adjustments, Adjust(d)
      PROVE  IInv'
  <2>1. d \in Int
    BY PriceAssumption
  <2>2. TypeOK'
    BY <1>1, <1>4, <2>1 DEF TypeOK, Adjust, sweepVars
  <2>3. OneSweep' /\ WalletSeen' /\ FeeRepoOpen'
    BY <1>4, StaysFree DEF Adjust, sweepVars
  <2>4. PaidOnceInFull'
    BY <1>1, <1>4 DEF PaidOnceInFull, Adjust
  <2> QED
    BY <2>2, <2>3, <2>4 DEF IInv
<1>5. CASE ReplaceForWallet
  <2>1. TypeOK'
    BY <1>1, <1>5 DEF TypeOK, ReplaceForWallet, sweepVars, outVars
  <2>2. OneSweep' /\ WalletSeen' /\ FeeRepoOpen'
    BY <1>5, StaysFree DEF ReplaceForWallet, sweepVars
  <2>3. PaidOnceInFull'
    BY <1>1, <1>5 DEF PaidOnceInFull, ReplaceForWallet, outVars
  <2> QED
    BY <2>1, <2>2, <2>3 DEF IInv
<1> QED
  BY <1>2, <1>3, <1>4, <1>5

(* The fee repository's own operations, and the next minute.                *)
LEMMA AsideKeeps ==
  ASSUME IInv, CloseCheck \/ CloseCommit \/ Reopen \/ NextMinute
  PROVE  IInv'
<1>1. TypeOK /\ PaidOnceInFull /\ OneSweep /\ WalletSeen /\ FeeRepoOpen
  BY DEF IInv
<1>2. CASE CloseCheck \/ CloseCommit \/ Reopen
  <2>1. /\ feeRepo' \in [balance : Nat, closed : BOOLEAN, closing : BOOLEAN]
        /\ ~feeRepo'.closed \/ feeRepo'.closed = feeRepo.closed \/ ~FeeRepoLocked
    BY <1>1, <1>2 DEF TypeOK, CloseCheck, CloseCommit, Reopen
  <2>2. UNCHANGED <<status, settled, defaults, rail, adjusted, outVars, sweepVars>>
    BY <1>2 DEF CloseCheck, CloseCommit, Reopen
  <2>3. TypeOK' /\ PaidOnceInFull' /\ OneSweep' /\ WalletSeen'
    BY <1>1, <2>1, <2>2 DEF TypeOK, PaidOnceInFull, OneSweep, WalletSeen, outVars, sweepVars
  <2>4. FeeRepoOpen'
    BY <1>1, <2>1, <2>2 DEF FeeRepoOpen, FeeRepoLocked, sweepVars
  <2> QED
    BY <2>3, <2>4 DEF IInv
<1>3. CASE NextMinute
  <2>1. /\ sweep' \in [Sweeps -> Stages]
        /\ \A s \in Sweeps : /\ sweep'[s].stage = sweep[s].stage
                             /\ sweep'[s].balance = sweep[s].balance
                             /\ sweep'[s].fee = sweep[s].fee
    <3>1. \A s \in Sweeps : sweep[s] \in Stages
      BY <1>1 DEF TypeOK, Stages
    <3>2. sweep' = [s \in Sweeps |-> [sweep[s] EXCEPT !.current = FALSE]]
      BY <1>3 DEF NextMinute
    <3> QED
      BY <3>1, <3>2 DEF Stages
  <2>2. TypeOK' /\ PaidOnceInFull'
    BY <1>1, <1>3, <2>1 DEF TypeOK, PaidOnceInFull, NextMinute, outVars, Stages
  <2>3. OneSweep' /\ WalletSeen' /\ FeeRepoOpen'
    <3>1. UNCHANGED <<balance, feeRepo>>
      BY <1>3 DEF NextMinute, outVars
    <3>2. OneSweep'
      BY <1>1, <2>1, Zenon DEF OneSweep
    <3>3. WalletSeen' /\ FeeRepoOpen'
      BY <1>1, <2>1, <3>1 DEF WalletSeen, FeeRepoOpen
    <3> QED
      BY <3>2, <3>3
  <2> QED
    BY <2>2, <2>3 DEF IInv
<1> QED
  BY <1>2, <1>3

(* A sweep begins, and looks at the fee repository.                         *)
LEMMA BeginKeeps ==
  ASSUME IInv, NEW s \in Sweeps,
         \/ SweepBegin(s)
         \/ \E p \in Purchases : SweepBeginInstant(s, p)
         \/ SweepFee(s)
  PROVE  IInv'
<1>1. TypeOK /\ PaidOnceInFull /\ OneSweep /\ WalletSeen /\ FeeRepoOpen
  BY DEF IInv
<1>2. ASSUME UNCHANGED <<status, settled, defaults, rail, feeRepo, adjusted, outVars, deaths, keyed>>,
             sweep' \in [Sweeps -> Stages]
      PROVE  TypeOK' /\ PaidOnceInFull'
  BY <1>1, <1>2 DEF TypeOK, PaidOnceInFull, outVars, Stages
<1>3. CASE SweepBegin(s)
  <2>1. /\ TakeWallet(s)
        /\ UNCHANGED <<status, settled, defaults, rail, feeRepo, adjusted, outVars, deaths, keyed>>
    BY <1>3 DEF SweepBegin
  <2>2. /\ sweep' \in [Sweeps -> Stages]
        /\ OneSweep' /\ WalletSeen' /\ FeeRepoOpen'
    BY <2>1, TakeWalletKeeps DEF outVars
  <2> QED
    BY <1>2, <2>1, <2>2 DEF IInv
<1>4. ASSUME NEW p \in Purchases, SweepBeginInstant(s, p)
      PROVE  IInv'
  <2>1. /\ TakeWallet(s)
        /\ UNCHANGED <<status, settled, defaults, rail, feeRepo, adjusted, outVars, deaths, keyed>>
    BY <1>4 DEF SweepBeginInstant
  <2>2. /\ sweep' \in [Sweeps -> Stages]
        /\ OneSweep' /\ WalletSeen' /\ FeeRepoOpen'
    BY <2>1, TakeWalletKeeps DEF outVars
  <2> QED
    BY <1>2, <2>1, <2>2 DEF IInv
<1>5. CASE SweepFee(s)
  <2> DEFINE charged == FeeCharged
  <2>1. /\ sweep[s].stage = "locked" /\ sweep' = [sweep EXCEPT ![s].stage = "ready", ![s].fee = charged]
        /\ UNCHANGED <<status, settled, defaults, rail, feeRepo, adjusted, outVars, deaths, keyed>>
    BY <1>5 DEF SweepFee
  <2>2. charged \in BOOLEAN /\ (charged => ~feeRepo.closed)
    BY Zenon DEF FeeCharged
  <2>3. sweep \in [Sweeps -> Stages]
    BY <1>1 DEF TypeOK, Stages
  <2> HIDE DEF charged
  <2>4. /\ sweep' \in [Sweeps -> Stages]
        /\ sweep'[s].balance = sweep[s].balance /\ sweep'[s].fee = charged
        /\ \A r \in Sweeps \ {s} : sweep'[r] = sweep[r]
    <3> DEFINE seen == [sweep[s] EXCEPT !.stage = "ready", !.fee = charged]
    <3>1. sweep[s] \in Stages
      BY <2>3
    <3>2. seen \in Stages /\ seen.balance = sweep[s].balance /\ seen.fee = charged
      BY <2>2, <3>1 DEF Stages
    <3>3. sweep' = [sweep EXCEPT ![s] = seen]
      BY <2>1, <2>3, <3>1 DEF Stages
    <3> HIDE DEF seen
    <3> QED
      BY <2>3, <3>2, <3>3
  <2>5. \A r \in Sweeps : sweep'[r].stage # "idle" => sweep[r].stage # "idle"
    BY <2>1, <2>4
  <2>6. OneSweep'
    BY <1>1, <2>5 DEF OneSweep
  <2>7. WalletSeen'
    BY <1>1, <2>1, <2>4 DEF WalletSeen, outVars
  <2>8. FeeRepoOpen'
    BY <1>1, <2>1, <2>2, <2>4 DEF FeeRepoOpen
  <2> QED
    BY <1>2, <2>1, <2>4, <2>6, <2>7, <2>8 DEF IInv
<1> QED
  BY <1>3, <1>4, <1>5

(* A sweep that ends without paying.                                        *)
LEMMA UnpaidKeeps ==
  ASSUME IInv, NEW s \in Sweeps, SweepRejected(s) \/ SweepDies(s)
  PROVE  IInv'
<1>1. TypeOK /\ PaidOnceInFull
  BY DEF IInv
<1>2. /\ sweep[s].stage # "idle" /\ sweep' = [sweep EXCEPT ![s] = AtRest]
      /\ UNCHANGED <<status, settled, defaults, rail, feeRepo, adjusted, outVars, keyed>>
  BY DEF SweepRejected, SweepDies
<1>3. deaths' \in 0..MaxDeaths
  BY <1>1, PriceAssumption DEF TypeOK, SweepRejected, SweepDies
<1>4. sweep' \in [Sweeps -> Stages] /\ OneSweep' /\ WalletSeen' /\ FeeRepoOpen'
  BY <1>2, LetsGo
<1>5. TypeOK' /\ PaidOnceInFull'
  BY <1>1, <1>2, <1>3, <1>4 DEF TypeOK, PaidOnceInFull, outVars, Stages
<1> QED
  BY <1>4, <1>5 DEF IInv

(* What a payment leaves behind, given that fees and nets are natural        *)
(* numbers and, where all rows add up, no more than the balance.            *)
LEMMA PaidOutTypes ==
  ASSUME IInv, NEW s \in Sweeps, NEW fees \in Nat, NEW nets \in Nat, NEW failed,
         PaidOut(s, fees, nets, failed),
         Exact = Purchases => fees + nets <= balance
  PROVE  /\ balance' \in (IF Exact = Purchases THEN Nat ELSE Int)
         /\ bank' \in Nat /\ clearing' \in Nat
         /\ feeRepo' \in [balance : Nat, closed : BOOLEAN, closing : BOOLEAN]
<1>1. /\ balance \in Int /\ bank \in Nat /\ clearing \in Nat
      /\ feeRepo \in [balance : Nat, closed : BOOLEAN, closing : BOOLEAN]
  BY DEF IInv, TypeOK
<1>2. /\ failed \in 0..nets /\ balance' = balance - fees - nets
      /\ feeRepo' = [feeRepo EXCEPT !.balance = @ + fees]
      /\ bank' = bank + (nets - failed) /\ clearing' = clearing + failed
  BY DEF PaidOut
<1>3. balance' \in Int /\ (Exact = Purchases => balance' \in Nat)
  BY <1>1, <1>2
<1> QED
  BY <1>1, <1>2, <1>3

(* The whole balance.                                                       *)
LEMMA WholeKeeps ==
  ASSUME IInv, NEW s \in Sweeps, SweepWhole(s)
  PROVE  IInv'
<1> DEFINE amount == sweep[s].balance
           fee == FeeOf(amount, sweep[s].fee)
           net == NetOf(amount, sweep[s].fee)
<1>1. TypeOK /\ PaidOnceInFull /\ WalletSeen
  BY DEF IInv
<1>2. /\ sweep[s].stage # "idle" /\ sweep' = [sweep EXCEPT ![s] = AtRest]
      /\ \E failed \in {0, net} : PaidOut(s, fee, net, failed)
      /\ keyed' = IF sweep[s].current THEN keyed \cup Keys(s) ELSE keyed
      /\ UNCHANGED <<status, settled, defaults, rail, adjusted, paidFor, deaths>>
  BY DEF SweepWhole
<1>3. amount \in Nat /\ amount = balance /\ sweep[s].fee \in BOOLEAN
  BY <1>1, <1>2 DEF TypeOK, WalletSeen
<1> HIDE DEF amount
<1>4. fee \in Nat /\ net \in Nat /\ fee + net = amount
  BY <1>3, FeeAndNet
<1> HIDE DEF fee, net
<1>5. /\ balance' \in (IF Exact = Purchases THEN Nat ELSE Int)
      /\ bank' \in Nat /\ clearing' \in Nat
      /\ feeRepo' \in [balance : Nat, closed : BOOLEAN, closing : BOOLEAN]
  <2>1. PICK failed : PaidOut(s, fee, net, failed)
    BY <1>2, Zenon
  <2>2. fee + net <= balance
    BY <1>3, <1>4
  <2> QED
    BY <1>4, <2>1, <2>2, PaidOutTypes
<1>6. sweep' \in [Sweeps -> Stages] /\ OneSweep' /\ WalletSeen' /\ FeeRepoOpen'
  BY <1>2, LetsGo
<1>7. keyed' \subseteq {"fee", "net"}
  BY <1>1, <1>2, Zenon DEF TypeOK, Keys
<1>8. TypeOK' /\ PaidOnceInFull'
  BY <1>1, <1>2, <1>5, <1>6, <1>7 DEF TypeOK, PaidOnceInFull, Stages
<1> QED
  BY <1>6, <1>8 DEF IInv

(* Purchase by purchase.                                                    *)
LEMMA SplitKeeps ==
  ASSUME IInv, NEW s \in Sweeps, SweepSplit(s)
  PROVE  IInv'
<1> DEFINE charged == sweep[s].fee
           fees == [p \in Purchases |-> Fees(p, charged)]
           nets == [p \in Purchases |-> Nets(p, charged)]
<1>1. TypeOK /\ PaidOnceInFull /\ WalletSeen
  BY DEF IInv
<1>2. /\ sweep[s].stage # "idle" /\ sweep' = [sweep EXCEPT ![s] = AtRest]
      /\ UNCHANGED <<status, defaults, rail, adjusted, deaths, keyed>>
  BY DEF SweepSplit
<1>3. PICK paid \in Payable(sweep[s].balance) :
        /\ \E failing \in SUBSET paid :
             PaidOut(s, Sum(fees, paid), Sum(nets, paid), Sum(nets, failing))
        /\ settled' = Settle(paid)
        /\ paidFor' = [p \in Purchases |->
                         paidFor[p] + IF p \in paid THEN fees[p] + nets[p] ELSE 0]
  BY Zenon DEF SweepSplit
<1>4. charged \in BOOLEAN /\ sweep[s].balance = balance /\ balance \in Int
  BY <1>1, <1>2 DEF TypeOK, WalletSeen
<1>5. \A p \in Purchases : /\ fees[p] \in Nat /\ nets[p] \in Nat /\ SlicesTotal(p) \in Int
                           /\ p \in Exact => /\ fees[p] + nets[p] = Price[p]
                                             /\ SlicesTotal(p) = Price[p]
  BY <1>4, FeesAndNets
<1>6. /\ paid \subseteq Unsettled /\ paid \subseteq Purchases /\ IsFiniteSet(paid)
      /\ balance - Cost(paid) >= 0
  BY <1>3, <1>4, FiniteAssumption, FS_Subset DEF Payable, Unsettled
<1> HIDE DEF charged, fees, nets
<1>7. Sum(fees, paid) \in Nat /\ Sum(nets, paid) \in Nat
  <2>1. \A p \in paid : fees[p] \in Nat /\ nets[p] \in Nat
    BY <1>5, <1>6
  <2>2. Sum(fees, paid) \in Nat
    BY <1>6, <2>1, SumType DEF Sum
  <2>3. Sum(nets, paid) \in Nat
    BY <1>6, <2>1, SumType DEF Sum
  <2> QED
    BY <2>2, <2>3
<1>8. ASSUME Exact = Purchases
      PROVE  Sum(fees, paid) + Sum(nets, paid) <= balance
  <2> DEFINE cost == [p \in Purchases |-> SlicesTotal(p)]
  <2>1. \A p \in paid : fees[p] \in Int /\ nets[p] \in Int /\ cost[p] = fees[p] + nets[p]
    BY <1>5, <1>6, <1>8
  <2>2. Cost(paid) = Sum(cost, paid)
    BY DEF Cost
  <2> HIDE DEF cost
  <2>3. Sum(cost, paid) = Sum(fees, paid) + Sum(nets, paid)
    BY <1>6, <2>1, SumOfSums DEF Sum
  <2> QED
    BY <1>4, <1>6, <1>7, <2>2, <2>3
<1>9. /\ balance' \in (IF Exact = Purchases THEN Nat ELSE Int)
      /\ bank' \in Nat /\ clearing' \in Nat
      /\ feeRepo' \in [balance : Nat, closed : BOOLEAN, closing : BOOLEAN]
  <2>1. PICK failed : PaidOut(s, Sum(fees, paid), Sum(nets, paid), failed)
    BY <1>3, Zenon
  <2> QED
    BY <1>7, <1>8, <2>1, PaidOutTypes
<1>10. sweep' \in [Sweeps -> Stages] /\ OneSweep' /\ WalletSeen' /\ FeeRepoOpen'
  BY <1>2, LetsGo
<1>11. /\ settled' = settled \cup paid /\ \A p \in paid : p \notin settled /\ status[p] = "COMPLETED"
       /\ \A p \in Purchases : paidFor'[p] = IF p \in paid THEN paidFor[p] + (fees[p] + nets[p])
                                                          ELSE paidFor[p]
  <2>1. \A p \in Purchases : paidFor[p] \in Nat
    BY <1>1 DEF TypeOK
  <2> QED
    BY <1>3, <1>6, <2>1 DEF Settle, Unsettled
<1>12. paidFor' \in [Purchases -> Nat]
  <2>1. ASSUME NEW p \in Purchases
        PROVE  paidFor[p] + (IF p \in paid THEN fees[p] + nets[p] ELSE 0) \in Nat
    <3>1. paidFor[p] \in Nat /\ fees[p] \in Nat /\ nets[p] \in Nat
      BY <1>1, <1>5 DEF TypeOK
    <3> QED
      BY <3>1
  <2> QED
    BY <1>3, <2>1
<1>13. PaidOnceInFull'
  BY <1>1, <1>5, <1>11 DEF PaidOnceInFull
<1>14. TypeOK'
  <2>1. settled' \subseteq {p \in Purchases : status'[p] # "PENDING"}
    BY <1>1, <1>2, <1>6, <1>11 DEF TypeOK
  <2> QED
    BY <1>1, <1>2, <1>9, <1>10, <1>12, <2>1 DEF TypeOK, Stages
<1> QED
  BY <1>10, <1>13, <1>14 DEF IInv

----------------------------------------------------------------------------
LEMMA StepKeepsIInv == IInv /\ [Next]_vars => IInv'
<1> SUFFICES ASSUME IInv, [Next]_vars
             PROVE  IInv'
  OBVIOUS
<1>1. CASE UNCHANGED vars
  BY <1>1 DEF vars, outVars, sweepVars, IInv, TypeOK, OneSweep, WalletSeen, FeeRepoOpen,
              PaidOnceInFull
<1>2. CASE Next
  <2>1. \/ \E p \in Purchases : CompletePurchase(p) \/ Refund(p)
        \/ \E d \in Adjustments : Adjust(d)
        \/ ReplaceForWallet
        \/ CloseCheck \/ CloseCommit \/ Reopen \/ NextMinute
        \/ \E s \in Sweeps : \/ SweepBegin(s) \/ (\E p \in Purchases : SweepBeginInstant(s, p))
                             \/ SweepFee(s) \/ SweepRejected(s) \/ SweepDies(s)
                             \/ SweepWhole(s) \/ SweepSplit(s)
    BY <1>2, Zenon DEF Next, SweepEnd
  <2> QED
    BY <2>1, WalletKeeps, AsideKeeps, BeginKeeps, UnpaidKeeps, WholeKeeps, SplitKeeps, Zenon
<1> QED
  BY <1>1, <1>2

LEMMA AlwaysIInv == Spec => []IInv
BY InitIInv, StepKeepsIInv, PTL DEF Spec

(* Whatever meets whom, the wallet's rows have the values the code expects;  *)
(* and where all splits add up its balance is never overdrawn.              *)
THEOREM SettlementTypeCorrect == Spec => []TypeOK
<1>1. IInv => TypeOK
  BY DEF IInv
<1> QED
  BY <1>1, AlwaysIInv, PTL

(* However many sweeps overlap, die or are rejected, a purchase is paid out  *)
(* by name once; and where its rows add up, fees and nets are its price.    *)
THEOREM PurchasePaidOnce == Spec => []PaidOnceInFull
<1>1. IInv => PaidOnceInFull
  BY DEF IInv
<1> QED
  BY <1>1, AlwaysIInv, PTL

(* Also where the rows of a purchase do not add up: money goes out for it by *)
(* name only in the step that sets its settledAt, and nothing clears that.  *)
PaidWithItsMark ==
  [][/\ settled \subseteq settled'
     /\ \A p \in Purchases : paidFor'[p] # paidFor[p] => p \in settled' \ settled]_vars

(* So no purchase is paid out by name twice, whatever its split.            *)
THEOREM PaidAtMostOnce == Spec => PaidWithItsMark
<1>1. IInv /\ [Next]_vars
        => [/\ settled \subseteq settled'
            /\ \A p \in Purchases : paidFor'[p] # paidFor[p] => p \in settled' \ settled]_vars
  <2> SUFFICES ASSUME IInv, Next
               PROVE  /\ settled \subseteq settled'
                      /\ \A p \in Purchases : paidFor'[p] # paidFor[p] => p \in settled' \ settled
    BY Zenon DEF vars, outVars, sweepVars
  <2>1. CASE UNCHANGED <<settled, paidFor>>
    BY <2>1
  <2>2. ASSUME NEW s \in Sweeps, SweepSplit(s)
        PROVE  /\ settled \subseteq settled'
               /\ \A p \in Purchases : paidFor'[p] # paidFor[p] => p \in settled' \ settled
    <3> DEFINE spent == [p \in Purchases |-> Fees(p, sweep[s].fee) + Nets(p, sweep[s].fee)]
    <3>1. PICK paid \in Payable(sweep[s].balance) :
            /\ settled' = Settle(paid)
            /\ paidFor' = [p \in Purchases |-> paidFor[p] + IF p \in paid THEN spent[p] ELSE 0]
      BY <2>2 DEF SweepSplit
    <3> HIDE DEF spent
    <3>2. paid \subseteq Purchases \ settled
      BY DEF Payable, Unsettled
    <3>3. \A p \in Purchases : paidFor[p] \in Nat
      BY DEF IInv, TypeOK
    <3> QED
      BY <3>1, <3>2, <3>3 DEF Settle
  <2>3. UNCHANGED <<settled, paidFor>> \/ \E s \in Sweeps : SweepSplit(s)
    BY DEF Next, SweepEnd, CompletePurchase, Refund, Adjust, ReplaceForWallet, CloseCheck,
       CloseCommit, Reopen, NextMinute, SweepBegin, SweepBeginInstant, SweepFee, SweepWhole,
       SweepRejected, SweepDies, outVars, sweepVars
  <2> QED
    BY <2>1, <2>2, <2>3
<1> QED
  BY <1>1, AlwaysIInv, PTL DEF Spec, PaidWithItsMark

(* No fee arrives at a closed repository, also when it is closed while a     *)
(* sweep is between its look at it and the posting.                         *)
THEOREM ClosedGetsNoFee == Spec => NoFeeToClosed
<1>1. IInv /\ [Next]_vars => [feeRepo.closed => feeRepo'.balance = feeRepo.balance]_vars
  <2> SUFFICES ASSUME IInv, Next, feeRepo.closed
               PROVE  feeRepo'.balance = feeRepo.balance
    BY Zenon DEF vars, outVars, sweepVars
  <2>1. TypeOK /\ FeeRepoOpen /\ WalletSeen
    BY DEF IInv
  <2>2. feeRepo \in [balance : Nat, closed : BOOLEAN, closing : BOOLEAN]
    BY <2>1 DEF TypeOK
  <2>3. ASSUME NEW s \in Sweeps, SweepWhole(s)
        PROVE  feeRepo'.balance = feeRepo.balance
    <3>1. sweep[s].stage = "ready" /\ sweep[s].fee = FALSE
      BY <2>1, <2>3 DEF SweepWhole, FeeRepoOpen, TypeOK
    <3>2. PICK net, failed : PaidOut(s, FeeOf(sweep[s].balance, FALSE), net, failed)
      BY <2>3, <3>1, Zenon DEF SweepWhole
    <3> QED
      BY <2>2, <3>2 DEF PaidOut, FeeOf
  <2>4. ASSUME NEW s \in Sweeps, SweepSplit(s)
        PROVE  feeRepo'.balance = feeRepo.balance
    <3> DEFINE fees == [p \in Purchases |-> Fees(p, FALSE)]
    <3>1. sweep[s].stage = "ready" /\ sweep[s].fee = FALSE
      BY <2>1, <2>4 DEF SweepSplit, FeeRepoOpen, TypeOK
    <3>2. PICK paid \in Payable(sweep[s].balance) :
            \E net, failed : PaidOut(s, Sum(fees, paid), net, failed)
      BY <2>4, <3>1, Zenon DEF SweepSplit
    <3>3. paid \subseteq Purchases /\ IsFiniteSet(paid)
      BY FiniteAssumption, FS_Subset DEF Payable, Unsettled
    <3>4. \A p \in paid : fees[p] = 0
      <4> SUFFICES ASSUME NEW p \in paid
                   PROVE  Fees(p, FALSE) = 0
        BY <3>3
      <4> DEFINE S == DOMAIN Slices(p)
                 fee == [k \in S |-> FeeOf(Slices(p)[k], FALSE)]
      <4>1. IsFiniteSet(S)
        BY <3>3, SlicesOfPurchase
      <4>2. \A k \in S : fee[k] = 0
        BY DEF FeeOf
      <4>3. Fees(p, FALSE) = SumFunctionOnSet(fee, S)
        BY DEF Fees, Total
      <4> HIDE DEF S, fee
      <4> QED
        BY <4>1, <4>2, <4>3, SumOfZeros
    <3> HIDE DEF fees
    <3>5. Sum(fees, paid) = 0
      BY <3>3, <3>4, SumOfZeros DEF Sum
    <3> QED
      BY <2>2, <3>2, <3>5 DEF PaidOut
  <2> QED
    BY <2>2, <2>3, <2>4 DEF Next, SweepEnd, CompletePurchase, Refund, Adjust, ReplaceForWallet,
       CloseCheck, CloseCommit, Reopen, NextMinute, SweepBegin, SweepBeginInstant, SweepFee,
       SweepRejected, SweepDies
<1> QED
  BY <1>1, AlwaysIInv, PTL DEF Spec, NoFeeToClosed

=============================================================================
