------------------------ MODULE Installments_proofs ------------------------
(***************************************************************************)
(* Proofs about Installments for any plans, prices, dates, links, runs of   *)
(* the sweep and write-offs, however they interleave.                      *)
(*                                                                         *)
(* Two conjuncts of the invariant are about what is read early and used     *)
(* late.  SweepSound: a copy in the sweep's memory was priced rightly when  *)
(* it was read and stays so, which is why a stale save can bring an old     *)
(* status back but never a wrong amount.  LinkSound: an installment that    *)
(* has a link was drawn, so it amounts to at least principal and fee, and   *)
(* what a posted repayment will route away is covered by what came in.      *)
(***************************************************************************)
EXTENDS Installments, SumTheorems

(* Priced on a given day.                                                   *)
PricedOn(r, i, d) ==
  r.status # "none" => /\ r.amount = Principal[i] + Fee[i] + Daily[i] * r.days
                       /\ r.days > 0 => Deadline[i] + r.days <= d

(* What a run of the sweep has in memory was an unpaid and rightly priced    *)
(* row when it was read, on a day that has come.                            *)
SweepSound ==
  \A s \in Sweeps :
    /\ sweep[s].asOf <= day
    /\ \A i \in sweep[s].list : /\ Unpaid(sweep[s].copy[i])
                                /\ PricedOn(sweep[s].copy[i], i, day)

(* A link for one installment is for one that was drawn; what a posted one   *)
(* routes away has come in.                                                 *)
LinkSound ==
  \A l \in Links : /\ (link[l].stage # "idle" /\ link[l].target # All)
                        => row[link[l].target].status # "none"
                   /\ link[l].stage = "posted" => link[l].away <= link[l].charge

RowsPriced == \A i \in Installments : PricedOn(row[i], i, day)

(* TypeOK by what a step changes together.                                  *)
PayTypes   == link \in [Links -> LinkRows] /\ captured \subseteq Links /\ admin \in [Admins -> Claims]
SweepTypes == sweep \in [Sweeps -> SweepMemory] /\ deaths \in Nat
PlanTypes  == /\ row \in [Installments -> Rows] /\ day \in Nat
              /\ purchase \in [Purchases -> {"PENDING", "COMPLETED", "REVERSED"}]
BookTypes  == /\ blocked \in BOOLEAN /\ restored \subseteq Installments
              /\ ceiling \in Int /\ receivable \in Int
              /\ repo \in Int /\ fees \in Nat /\ held \in Int /\ cash \in Int

IInv == /\ PlanTypes /\ PayTypes /\ SweepTypes /\ BookTypes
        /\ RowsPriced /\ SweepSound /\ LinkSound /\ BooksAgree

LEMMA PartsType == IInv => TypeOK /\ PenaltyExact
<1> SUFFICES ASSUME IInv PROVE TypeOK /\ PenaltyExact
  OBVIOUS
<1>1. TypeOK
  BY Zenon DEF IInv, TypeOK, PlanTypes, PayTypes, SweepTypes, BookTypes
<1>2. PenaltyExact
  BY Zenon DEF IInv, RowsPriced, PricedOn, PenaltyExact, Priced
<1> QED
  BY <1>1, <1>2

----------------------------------------------------------------------------
(* Sums over installments.                                                  *)

(* The sums of a set of installments are natural numbers.                   *)
LEMMA SumsType ==
  ASSUME PlanTypes, NEW S \in SUBSET Installments
  PROVE  /\ IsFiniteSet(S)
         /\ Sum(Principal, S) \in Nat /\ Sum(Fee, S) \in Nat /\ Owed(S) \in Nat
<1>1. IsFiniteSet(S)
  BY FiniteAssumption, FS_Subset
<1>2. /\ \A i \in S : Principal[i] \in Nat
      /\ \A i \in S : Fee[i] \in Nat
      /\ \A i \in S : [j \in Installments |-> row[j].amount][i] \in Nat
  BY PriceAssumption DEF PlanTypes, Rows
<1> QED
  BY <1>1, <1>2, SumType, Zenon DEF Sum, Owed

(* Installments that were drawn amount to at least principal and fee.       *)
LEMMA OwedCovers ==
  ASSUME PlanTypes, RowsPriced, NEW S \in SUBSET Installments,
         \A i \in S : row[i].status # "none"
  PROVE  Sum(Principal, S) + Sum(Fee, S) <= Owed(S)
<1> DEFINE amount == [i \in Installments |-> row[i].amount]
           least  == [i \in Installments |-> Principal[i] + Fee[i]]
<1>1. IsFiniteSet(S) /\ \A i \in S : Principal[i] \in Int /\ Fee[i] \in Int
  BY SumsType, PriceAssumption
<1>2. ASSUME NEW i \in S
      PROVE  amount[i] \in Int /\ least[i] \in Int /\ least[i] <= amount[i]
  <2>1. row[i].amount \in Nat /\ row[i].days \in Nat
    BY DEF PlanTypes, Rows
  <2>2. Principal[i] \in Nat /\ Fee[i] \in Nat /\ Daily[i] \in Nat
    BY PriceAssumption
  <2>3. row[i].amount = Principal[i] + Fee[i] + Daily[i] * row[i].days
    BY DEF RowsPriced, PricedOn
  <2>4. Daily[i] * row[i].days \in Nat
    BY <2>1, <2>2
  <2> QED
    BY <2>1, <2>2, <2>3, <2>4
<1>3. \A i \in S : least[i] = Principal[i] + Fee[i]
  OBVIOUS
<1> HIDE DEF amount, least
<1>4. SumFunctionOnSet(least, S) <= SumFunctionOnSet(amount, S)
  BY <1>1, <1>2, SumMonotone
<1>5. SumFunctionOnSet(least, S) = SumFunctionOnSet(Principal, S) + SumFunctionOnSet(Fee, S)
  BY <1>1, <1>3, SumOfSums
<1>6. Owed(S) = SumFunctionOnSet(amount, S)
  BY Zenon DEF amount, Owed, Sum
<1> QED
  BY <1>4, <1>5, <1>6 DEF Sum

(* What is routed away is a natural number and at most the positive parts.  *)
LEMMA LegsType ==
  ASSUME NEW f \in Nat, NEW p \in Int, NEW u \in Int
  PROVE  /\ RoutedLegs(f, p, u) \in Nat
         /\ RoutedLegs(f, p, u) <= f + Positive(p) + Positive(u)
BY DEF RoutedLegs, Leg, Positive

LEMMA SettledIs ==
  ASSUME IInv, NEW l \in Links, link[l].stage # "idle"
  PROVE  Settled(l) \in SUBSET Installments /\ \A i \in Settled(l) : row[i].status # "none"
BY DEF IInv, PayTypes, LinkRows, LinkSound, Settled, Outstanding, Unpaid

(* A link that balances covers what is routed away.                         *)
LEMMA LinkCovers ==
  ASSUME IInv, NEW l \in Links, link[l].stage # "idle", LegsBalance(l)
  PROVE  /\ RoutedLegs(Sum(Fee, Settled(l)), Penalty(Settled(l)), Surplus(l)) \in Nat
         /\ RoutedLegs(Sum(Fee, Settled(l)), Penalty(Settled(l)), Surplus(l)) <= link[l].charge
         /\ Owed(Settled(l)) <= link[l].charge
<1> DEFINE S == Settled(l)
<1>1. S \in SUBSET Installments /\ \A i \in S : row[i].status # "none"
  BY SettledIs
<1>2. PlanTypes /\ RowsPriced /\ link[l].charge \in Nat
  BY DEF IInv, PayTypes, LinkRows
<1> HIDE DEF S
<1>3. Sum(Principal, S) \in Nat /\ Sum(Fee, S) \in Nat /\ Owed(S) \in Nat
  BY <1>1, <1>2, SumsType
<1>4. Sum(Principal, S) + Sum(Fee, S) <= Owed(S)
  BY <1>1, <1>2, OwedCovers
<1>5. Penalty(S) = Owed(S) - Sum(Principal, S) - Sum(Fee, S) /\ Surplus(l) = link[l].charge - Owed(S)
  BY DEF Penalty, Surplus, S
<1>6. Penalty(S) \in Int /\ Surplus(l) \in Int
  BY <1>2, <1>3, <1>5
<1>7. Owed(S) + Positive(Surplus(l)) = link[l].charge
  BY DEF LegsBalance, S
<1>8. Surplus(l) >= 0 /\ Positive(Surplus(l)) = Surplus(l)
  BY <1>2, <1>3, <1>5, <1>6, <1>7 DEF Positive
<1>9. Sum(Fee, S) + Positive(Penalty(S)) <= Owed(S)
  BY <1>3, <1>4, <1>5, <1>6 DEF Positive
<1>10. /\ RoutedLegs(Sum(Fee, S), Penalty(S), Surplus(l)) \in Nat
       /\ RoutedLegs(Sum(Fee, S), Penalty(S), Surplus(l))
            <= Sum(Fee, S) + Positive(Penalty(S)) + Positive(Surplus(l))
  BY <1>3, <1>6, LegsType
<1>11. Positive(Penalty(S)) \in Int
  BY <1>6 DEF Positive
<1>12. RoutedLegs(Sum(Fee, S), Penalty(S), Surplus(l)) <= link[l].charge
  BY <1>2, <1>3, <1>5, <1>6, <1>8, <1>9, <1>10, <1>11
<1> QED
  BY <1>2, <1>3, <1>5, <1>6, <1>8, <1>10, <1>12 DEF S

----------------------------------------------------------------------------
(* The initial state, and steps by what they leave alone.                   *)

LEMMA InitIInv == Init => IInv
<1> SUFFICES ASSUME Init PROVE IInv
  OBVIOUS
<1>1. PlanTypes /\ PayTypes
  BY DEF Init, PlanTypes, PayTypes, Rows, NoRow, Statuses, LinkRows, NoLink, Claims, NoClaim
<1>2. SweepTypes
  BY DEF Init, SweepTypes, SweepMemory, AtRest, Rows, NoRow, Statuses
<1>3. BookTypes /\ BooksAgree
  <2>1. blocked \in BOOLEAN
    BY Zenon DEF Init
  <2>2. restored \subseteq Installments
    BY DEF Init
  <2>3. /\ ceiling \in Int /\ receivable \in Int
        /\ repo \in Int /\ fees \in Nat /\ held \in Int /\ cash \in Int
    BY PriceAssumption DEF Init
  <2>4. BooksAgree
    BY PriceAssumption DEF Init, BooksAgree
  <2> QED
    BY <2>1, <2>2, <2>3, <2>4, Zenon DEF BookTypes
<1>4. RowsPriced /\ LinkSound
  BY DEF Init, RowsPriced, PricedOn, NoRow, LinkSound, NoLink
<1>5. SweepSound
  BY DEF Init, SweepSound, AtRest
<1> QED
  BY <1>1, <1>2, <1>3, <1>4, <1>5, Zenon DEF IInv

LEMMA QuietBooks ==
  ASSUME IInv, UNCHANGED <<lineVars, moneyVars>>
  PROVE  BookTypes' /\ BooksAgree'
BY Zenon DEF IInv, lineVars, moneyVars, BookTypes, BooksAgree

LEMMA QuietSweep ==
  ASSUME IInv, UNCHANGED <<sweepVars, day>>
  PROVE  SweepTypes' /\ SweepSound'
BY Zenon DEF IInv, sweepVars, SweepTypes, SweepSound

LEMMA QuietRows ==
  ASSUME IInv, UNCHANGED <<row, purchase, day>>
  PROVE  PlanTypes' /\ RowsPriced'
BY Zenon DEF IInv, PlanTypes, RowsPriced

(* A link stays sound while no drawn row is erased.                         *)
LEMMA QuietLinks ==
  ASSUME IInv, UNCHANGED payVars,
         \A i \in Installments : row[i].status # "none" => row'[i].status # "none"
  PROVE  PayTypes' /\ LinkSound'
<1>1. PayTypes /\ LinkSound
  BY DEF IInv
<1>2. \A l \in Links : link[l].target \in Installments \cup {All}
  BY <1>1 DEF PayTypes, LinkRows
<1>3. PayTypes'
  BY <1>1 DEF PayTypes, payVars
<1> QED
  BY <1>1, <1>2, <1>3 DEF LinkSound, payVars

----------------------------------------------------------------------------
(* A day passes: what was priced up to today is priced up to tomorrow.      *)
LEMMA TomorrowKeeps ==
  ASSUME IInv, Tomorrow
  PROVE  IInv'
<1>1. PlanTypes /\ SweepTypes /\ RowsPriced /\ SweepSound
  BY DEF IInv
<1>2. day \in Nat /\ day' = day + 1 /\ UNCHANGED <<row, purchase, sweep, deaths>>
  BY <1>1 DEF Tomorrow, PlanTypes, sweepVars
<1>3. ASSUME NEW r \in Rows, NEW i \in Installments, PricedOn(r, i, day)
      PROVE  PricedOn(r, i, day')
  <2>1. Deadline[i] \in Nat /\ r.days \in Nat
    BY DateAssumption DEF Rows
  <2> QED
    BY <1>2, <1>3, <2>1 DEF PricedOn
<1>4. PlanTypes' /\ RowsPriced'
  BY <1>1, <1>2, <1>3 DEF PlanTypes, RowsPriced
<1>5. SweepTypes'
  BY <1>1, <1>2 DEF SweepTypes
<1>6. SweepSound'
  <2> SUFFICES ASSUME NEW s \in Sweeps
               PROVE  /\ sweep[s].asOf <= day'
                      /\ \A i \in sweep[s].list : /\ Unpaid(sweep[s].copy[i])
                                                  /\ PricedOn(sweep[s].copy[i], i, day')
    BY <1>2 DEF SweepSound
  <2>1. /\ sweep[s].asOf \in Nat /\ sweep[s].list \in SUBSET Installments
        /\ sweep[s].copy \in [Installments -> Rows]
    BY <1>1 DEF SweepTypes, SweepMemory
  <2>2. sweep[s].asOf <= day'
    BY <1>1, <1>2, <2>1 DEF SweepSound
  <2>3. ASSUME NEW i \in sweep[s].list
        PROVE  Unpaid(sweep[s].copy[i]) /\ PricedOn(sweep[s].copy[i], i, day')
    <3>1. /\ Unpaid(sweep[s].copy[i]) /\ PricedOn(sweep[s].copy[i], i, day)
          /\ i \in Installments /\ sweep[s].copy[i] \in Rows
      BY <1>1, <2>1, <2>3 DEF SweepSound
    <3> QED
      BY <1>3, <3>1
  <2> QED
    BY <2>2, <2>3
<1>7. BookTypes' /\ BooksAgree' /\ PayTypes' /\ LinkSound'
  BY <1>2, QuietBooks, QuietLinks DEF Tomorrow
<1> QED
  BY <1>4, <1>5, <1>6, <1>7, Zenon DEF IInv

----------------------------------------------------------------------------
(* Drawing and refunding.                                                   *)

LEMMA DrawKeeps ==
  ASSUME IInv, NEW p \in Purchases, Draw(p)
  PROVE  IInv'
<1> DEFINE n == Sum(Principal, Plan(p))
<1>1. PlanTypes /\ BookTypes /\ RowsPriced /\ BooksAgree
  BY DEF IInv
<1>2. /\ purchase' = [purchase EXCEPT ![p] = "COMPLETED"] /\ n <= repo
      /\ row' = [i \in Installments |-> IF i \in Plan(p) THEN NewRow(i) ELSE row[i]]
      /\ ceiling' = ceiling - n /\ receivable' = receivable + n
      /\ repo' = repo - n /\ held' = held + n
      /\ UNCHANGED <<day, payVars, sweepVars, restored, blocked, fees, cash>>
  BY DEF Draw
<1>3. n \in Nat
  BY <1>1, SumsType DEF Plan
<1> HIDE DEF n
<1>4. \A i \in Installments : NewRow(i) \in Rows /\ PricedOn(NewRow(i), i, day)
                              /\ NewRow(i).status # "none"
  BY PriceAssumption DEF NewRow, Rows, Statuses, PricedOn
<1>5. PlanTypes'
  BY <1>1, <1>2, <1>4 DEF PlanTypes
<1>6. RowsPriced'
  BY <1>1, <1>2, <1>4 DEF RowsPriced
<1>7. BookTypes' /\ BooksAgree'
  BY <1>1, <1>2, <1>3, PriceAssumption DEF BookTypes, BooksAgree
<1>8. PayTypes' /\ LinkSound' /\ SweepTypes' /\ SweepSound'
  BY <1>2, <1>4, QuietLinks, QuietSweep
<1> QED
  BY <1>5, <1>6, <1>7, <1>8, Zenon DEF IInv

(* What is not repaid is between nothing and what was drawn.                *)
LEMMA UnrepaidType ==
  ASSUME PlanTypes, NEW p \in Purchases
  PROVE  Unrepaid(p) \in Nat
<1> DEFINE drawn == Sum(Principal, Plan(p))
           paid  == Sum(Principal, {i \in Plan(p) : row[i].status = "PAID"})
<1>1. drawn \in Nat /\ paid \in Nat
  BY SumsType DEF Plan
<1>2. Unrepaid(p) = drawn - Min({paid, drawn})
  BY DEF Unrepaid
<1> HIDE DEF drawn, paid
<1>3. \E x \in {paid, drawn} : \A y \in {paid, drawn} : x <= y
  BY <1>1
<1>4. Min({paid, drawn}) \in {paid, drawn} /\ Min({paid, drawn}) <= drawn
  BY <1>3, Zenon DEF Min
<1> QED
  BY <1>1, <1>2, <1>4

LEMMA RefundKeeps ==
  ASSUME IInv, NEW p \in Purchases, Refund(p)
  PROVE  IInv'
<1> DEFINE n == Unrepaid(p)
<1>1. PlanTypes /\ BookTypes /\ RowsPriced /\ BooksAgree
  BY DEF IInv
<1>2. /\ purchase' = [purchase EXCEPT ![p] = "REVERSED"]
      /\ row' = [i \in Installments |-> IF i \in CanceledBy(p)
                                        THEN [row[i] EXCEPT !.status = "CANCELED"] ELSE row[i]]
      /\ ceiling' = ceiling + n /\ receivable' = receivable - n
      /\ repo' = repo + n /\ held' = held - n
      /\ UNCHANGED <<day, payVars, sweepVars, restored, blocked, fees, cash>>
  BY DEF Refund
<1>3. n \in Nat
  BY <1>1, UnrepaidType
<1> HIDE DEF n
<1>4. \A i \in Installments : row'[i] = row[i] \/ (/\ row'[i] = [row[i] EXCEPT !.status = "CANCELED"]
                                                  /\ row[i].status # "none")
  BY <1>2 DEF CanceledBy, Outstanding, Unpaid
<1>5. row' \in [Installments -> Rows]
  BY <1>1, <1>2 DEF PlanTypes, Rows, Statuses
<1>6. PlanTypes'
  BY <1>1, <1>2, <1>5 DEF PlanTypes
<1>7. \A i \in Installments : /\ row'[i].amount = row[i].amount /\ row'[i].days = row[i].days
                              /\ row'[i].status = "none" <=> row[i].status = "none"
  <2> SUFFICES ASSUME NEW i \in Installments
               PROVE  /\ row'[i].amount = row[i].amount /\ row'[i].days = row[i].days
                      /\ row'[i].status = "none" <=> row[i].status = "none"
    OBVIOUS
  <2>1. row[i] \in Rows
    BY <1>1 DEF PlanTypes
  <2>2. CASE row'[i] = row[i]
    BY <2>2
  <2>3. CASE row'[i] = [row[i] EXCEPT !.status = "CANCELED"] /\ row[i].status # "none"
    BY <2>1, <2>3 DEF Rows
  <2> QED
    BY <1>4, <2>2, <2>3
<1>8. RowsPriced'
  BY <1>1, <1>2, <1>7 DEF RowsPriced, PricedOn
<1>9. BookTypes' /\ BooksAgree'
  BY <1>1, <1>2, <1>3 DEF BookTypes, BooksAgree
<1>10. PayTypes' /\ LinkSound' /\ SweepTypes' /\ SweepSound'
  BY <1>2, <1>7, QuietLinks, QuietSweep
<1> QED
  BY <1>6, <1>8, <1>9, <1>10, Zenon DEF IInv

----------------------------------------------------------------------------
(* Settling.                                                                *)

(* Settling drawn installments leaves their prices, and moves their          *)
(* principal back to the ceiling.                                           *)
LEMMA SettleKeeps ==
  ASSUME IInv, NEW S \in SUBSET Installments, \A i \in S : row[i].status # "none", Settle(S),
         UNCHANGED <<purchase, day>>
  PROVE  /\ PlanTypes' /\ RowsPriced'
         /\ \A i \in Installments : row[i].status # "none" => row'[i].status # "none"
         /\ blocked' \in BOOLEAN /\ restored' \subseteq Installments
         /\ ceiling' \in Int /\ receivable' \in Int /\ ceiling' + receivable' = Granted
<1> DEFINE n == Sum(Principal, S)
<1>1. PlanTypes /\ BookTypes /\ RowsPriced /\ BooksAgree
  BY DEF IInv
<1>2. /\ row' = [i \in Installments |-> IF i \in S THEN [row[i] EXCEPT !.status = "PAID"] ELSE row[i]]
      /\ ceiling' = ceiling + n /\ receivable' = receivable - n
      /\ restored' = restored \cup S /\ blocked' = FALSE
  BY DEF Settle, RestoredBy
<1>3. n \in Nat
  BY <1>1, SumsType
<1> HIDE DEF n
<1>4. row' \in [Installments -> Rows]
  BY <1>1, <1>2 DEF PlanTypes, Rows, Statuses
<1>5. \A i \in Installments : /\ row'[i].amount = row[i].amount /\ row'[i].days = row[i].days
                              /\ row'[i].status = "none" <=> row[i].status = "none"
  BY <1>1, <1>2 DEF PlanTypes, Rows
<1>6. PlanTypes'
  BY <1>1, <1>4 DEF PlanTypes
<1>7. RowsPriced'
  BY <1>1, <1>5 DEF RowsPriced, PricedOn
<1>8. blocked' \in BOOLEAN
  BY <1>2, Zenon
<1>9. restored' \subseteq Installments
  BY <1>1, <1>2 DEF BookTypes
<1>10. ceiling' \in Int /\ receivable' \in Int /\ ceiling' + receivable' = Granted
  BY <1>1, <1>2, <1>3 DEF BookTypes, BooksAgree
<1> QED
  BY <1>5, <1>6, <1>7, <1>8, <1>9, <1>10

LEMMA SettleLinkKeeps ==
  ASSUME IInv, NEW l \in Links, SettleLink(l)
  PROVE  IInv'
<1> DEFINE S    == Settled(l)
           away == link[l].away
<1>1. /\ link[l].stage = "posted" /\ link' = [link EXCEPT ![l].stage = "COMPLETED", ![l].away = 0]
      /\ Settle(S) /\ fees' = fees + away /\ repo' = repo + link[l].charge - away
      /\ cash' = cash + link[l].charge
      /\ UNCHANGED <<purchase, day, captured, admin, sweepVars, held>>
  BY DEF SettleLink
<1>2. PayTypes /\ BookTypes /\ BooksAgree /\ LinkSound
  BY DEF IInv
<1>3. S \in SUBSET Installments /\ \A i \in S : row[i].status # "none"
  BY <1>1, SettledIs
<1>4. away \in Nat /\ away <= link[l].charge
  BY <1>1, <1>2 DEF PayTypes, LinkRows, LinkSound
<1> HIDE DEF S, away
<1>5. /\ PlanTypes' /\ RowsPriced'
      /\ \A i \in Installments : row[i].status # "none" => row'[i].status # "none"
      /\ blocked' \in BOOLEAN /\ restored' \subseteq Installments
      /\ ceiling' \in Int /\ receivable' \in Int /\ ceiling' + receivable' = Granted
  BY <1>1, <1>3, SettleKeeps
<1>6. link[l].charge \in Nat
  BY <1>2 DEF PayTypes, LinkRows
<1>7. repo' \in Int /\ repo' >= 0 /\ fees' \in Nat /\ cash' \in Int /\ cash' = repo' + fees' + held'
  BY <1>1, <1>2, <1>4, <1>6 DEF BookTypes, BooksAgree
<1>8. BookTypes' /\ BooksAgree'
  BY <1>1, <1>2, <1>5, <1>7, Zenon DEF BookTypes, BooksAgree
<1>9. PayTypes'
  BY <1>1, <1>2 DEF PayTypes, LinkRows
<1>10. \A k \in Links : /\ link'[k].target = link[k].target
                        /\ link[k].stage = "idle" => link'[k].stage = "idle"
                        /\ link'[k].stage = "posted" => link'[k] = link[k]
                        /\ link[k].target \in Installments \cup {All}
  BY <1>1, <1>2 DEF PayTypes, LinkRows
<1>11. LinkSound'
  BY <1>1, <1>2, <1>5, <1>10 DEF LinkSound, PayTypes, LinkRows
<1>12. SweepTypes' /\ SweepSound'
  BY <1>1, QuietSweep
<1> QED
  BY <1>5, <1>8, <1>9, <1>11, <1>12, Zenon DEF IInv

LEMMA AbsorbKeeps ==
  ASSUME IInv, NEW a \in Admins, Absorb(a)
  PROVE  IInv'
<1> DEFINE n == admin[a].routed
<1>1. /\ Settle(Outstanding) /\ n <= repo
      /\ admin' = [admin EXCEPT ![a] = [stage |-> "done", routed |-> 0]]
      /\ fees' = fees + n /\ repo' = repo - n
      /\ UNCHANGED <<purchase, day, link, captured, sweepVars, held, cash>>
  BY DEF Absorb, Absorbable
<1>2. PayTypes /\ BookTypes /\ BooksAgree /\ LinkSound
  BY DEF IInv
<1>3. Outstanding \in SUBSET Installments /\ \A i \in Outstanding : row[i].status # "none"
  BY DEF Outstanding, Unpaid
<1>4. /\ PlanTypes' /\ RowsPriced'
      /\ \A i \in Installments : row[i].status # "none" => row'[i].status # "none"
      /\ blocked' \in BOOLEAN /\ restored' \subseteq Installments
      /\ ceiling' \in Int /\ receivable' \in Int /\ ceiling' + receivable' = Granted
  BY <1>1, <1>3, SettleKeeps
<1>5. n \in Nat
  BY <1>2 DEF PayTypes, Claims
<1> HIDE DEF n
<1>6. repo' \in Int /\ repo' >= 0 /\ fees' \in Nat /\ cash' \in Int /\ cash' = repo' + fees' + held'
  BY <1>1, <1>2, <1>5 DEF BookTypes, BooksAgree
<1>7. BookTypes' /\ BooksAgree'
  BY <1>1, <1>2, <1>4, <1>6, Zenon DEF BookTypes, BooksAgree
<1>8. PayTypes'
  BY <1>1, <1>2 DEF PayTypes, Claims
<1>9. LinkSound'
  BY <1>1, <1>2, <1>4 DEF LinkSound, PayTypes, LinkRows
<1>10. SweepTypes' /\ SweepSound'
  BY <1>1, QuietSweep
<1> QED
  BY <1>4, <1>7, <1>8, <1>9, <1>10, Zenon DEF IInv

----------------------------------------------------------------------------
(* Links and write-offs that settle nothing.                                *)

LEMMA PayKeeps ==
  ASSUME IInv, PayTypes', LinkSound',
         UNCHANGED <<row, purchase, day, sweepVars, lineVars, moneyVars>>
  PROVE  IInv'
BY QuietBooks, QuietSweep, QuietRows, Zenon DEF IInv

LEMMA OpenLinkKeeps ==
  ASSUME IInv, NEW l \in Links, NEW t \in Installments \cup {All}, NEW n \in Nat,
         t # All => row[t].status # "none", OpenLink(l, t, n)
  PROVE  IInv'
<1>1. PayTypes /\ LinkSound
  BY DEF IInv
<1>2. /\ link' = [link EXCEPT ![l] = [stage |-> "PENDING", target |-> t, charge |-> n, away |-> 0]]
      /\ UNCHANGED <<row, purchase, day, captured, admin, sweepVars, lineVars, moneyVars>>
  BY DEF OpenLink
<1>3. PayTypes' /\ LinkSound'
  BY <1>1, <1>2 DEF PayTypes, LinkRows, LinkSound
<1> QED
  BY <1>2, <1>3, PayKeeps

LEMMA LinkMoves ==
  ASSUME IInv, NEW l \in Links, link[l].stage # "idle", captured' \subseteq Links,
         NEW to \in {"PENDING", "paid", "REVERSED"}, NEW n \in Nat,
         link' = [link EXCEPT ![l].stage = to, ![l].away = n],
         UNCHANGED <<row, purchase, day, admin, sweepVars, lineVars, moneyVars>>
  PROVE  IInv'
<1>1. PayTypes /\ LinkSound
  BY DEF IInv
<1>2. PayTypes'
  BY <1>1 DEF PayTypes, LinkRows
<1>3. \A k \in Links : /\ link'[k].target = link[k].target
                       /\ link[k].stage = "idle" => link'[k].stage = "idle"
                       /\ link'[k].stage = "posted" => link'[k] = link[k]
  BY <1>1 DEF PayTypes, LinkRows
<1>4. LinkSound'
  BY <1>1, <1>3 DEF LinkSound
<1> QED
  BY <1>2, <1>4, PayKeeps

(* Status changes that leave the routed amount alone.                       *)
LEMMA SetLinkMoves ==
  ASSUME IInv, NEW l \in Links, NEW from \in {"PENDING", "paid"},
         NEW to \in {"paid", "REVERSED"}, SetLink(l, from, to), captured' \subseteq Links,
         UNCHANGED <<row, purchase, day, admin, sweepVars, lineVars, moneyVars>>
  PROVE  IInv'
<1>1. link \in [Links -> LinkRows]
  BY DEF IInv, PayTypes
<1>2. link[l].away \in Nat /\ link[l].stage # "idle"
  BY <1>1 DEF SetLink, LinkRows
<1>3. link' = [link EXCEPT ![l].stage = to, ![l].away = link[l].away]
  BY <1>1 DEF SetLink, LinkRows
<1> QED
  BY <1>2, <1>3, LinkMoves

LEMMA CreditRepaymentKeeps ==
  ASSUME IInv, NEW l \in Links, CreditRepayment(l)
  PROVE  IInv'
<1> DEFINE n == RoutedLegs(Sum(Fee, Settled(l)), Penalty(Settled(l)), Surplus(l))
<1>1. /\ link[l].stage = "paid" /\ LegsBalance(l)
      /\ link' = [link EXCEPT ![l].stage = "posted", ![l].away = n]
      /\ UNCHANGED <<row, purchase, day, captured, admin, sweepVars, lineVars, moneyVars>>
  BY DEF CreditRepayment
<1>2. PayTypes /\ LinkSound
  BY DEF IInv
<1>3. n \in Nat /\ n <= link[l].charge
  BY <1>1, LinkCovers
<1> HIDE DEF n
<1>4. PayTypes'
  BY <1>1, <1>2, <1>3 DEF PayTypes, LinkRows
<1>5. \A k \in Links : /\ link'[k].target = link[k].target
                       /\ link[k].stage = "idle" => link'[k].stage = "idle"
                       /\ link'[k].stage = "posted"
                            => link'[k] = link[k] \/ link'[k].away <= link'[k].charge
  BY <1>1, <1>2, <1>3 DEF PayTypes, LinkRows
<1>6. LinkSound'
  BY <1>1, <1>2, <1>5 DEF LinkSound
<1> QED
  BY <1>1, <1>4, <1>6, PayKeeps

LEMMA LinkKeeps ==
  ASSUME IInv, NEW l \in Links, LinkStep(l)
  PROVE  IInv'
<1>1. /\ PayTypes /\ PlanTypes /\ UnblockFee \in Nat
      /\ Outstanding \in SUBSET Installments
  BY PriceAssumption DEF IInv, Outstanding
<1>2. Owed(Outstanding) \in Nat
  BY <1>1, SumsType
<1>3. ASSUME NEW i \in Installments, PayInstallment(l, i) PROVE IInv'
  <2> DEFINE n == row[i].amount + (IF blocked THEN UnblockFee ELSE 0)
  <2>1. n \in Nat
    BY <1>1 DEF PlanTypes, Rows
  <2>2. OpenLink(l, i, n) /\ row[i].status # "none"
    BY <1>3 DEF PayInstallment
  <2> HIDE DEF n
  <2> QED
    BY <2>1, <2>2, OpenLinkKeeps
<1>4. CASE CollectOverdueByLink(l)
  <2>1. Owed(Outstanding) + UnblockFee \in Nat
    BY <1>1, <1>2
  <2> QED
    BY <1>4, <2>1, OpenLinkKeeps DEF CollectOverdueByLink
<1>5. CASE CollectQuitByLink(l)
  BY <1>2, <1>5, OpenLinkKeeps DEF CollectQuitByLink
<1>6. CASE LinkDies(l) \/ Capture(l)
  BY <1>1, <1>6, SetLinkMoves DEF LinkDies, Capture, PayTypes
<1>7. CASE RejectLink(l) \/ AbortLink(l)
  <2>1. /\ link[l].stage # "idle" /\ link' = [link EXCEPT ![l].stage = "PENDING", ![l].away = 0]
        /\ UNCHANGED <<row, purchase, day, captured, admin, sweepVars, lineVars, moneyVars>>
    BY <1>7 DEF RejectLink, AbortLink, RollBack
  <2>2. captured' \subseteq Links /\ 0 \in Nat
    BY <1>1, <2>1 DEF PayTypes
  <2> QED
    BY <2>1, <2>2, LinkMoves
<1> QED
  BY <1>3, <1>4, <1>5, <1>6, <1>7, CreditRepaymentKeeps, SettleLinkKeeps DEF LinkStep

LEMMA AdminKeeps ==
  ASSUME IInv, NEW a \in Admins, AdminStep(a)
  PROVE  IInv'
<1>1. PayTypes /\ LinkSound /\ PlanTypes
  BY DEF IInv
<1>2. ASSUME NEW u \in Nat, ReadDebt(a, u) PROVE IInv'
  <2> DEFINE n == RoutedLegs(Sum(Fee, Outstanding), Penalty(Outstanding), u)
  <2>1. Sum(Principal, Outstanding) \in Nat /\ Sum(Fee, Outstanding) \in Nat /\ Owed(Outstanding) \in Nat
    BY <1>1, SumsType DEF Outstanding
  <2>2. Penalty(Outstanding) \in Int /\ u \in Int
    BY <2>1 DEF Penalty
  <2>3. n \in Nat
    BY <2>1, <2>2, LegsType
  <2>4. /\ admin' = [admin EXCEPT ![a] = [stage |-> "read", routed |-> n]]
        /\ UNCHANGED <<row, purchase, day, link, captured, sweepVars, lineVars, moneyVars>>
    BY <1>2 DEF ReadDebt
  <2> HIDE DEF n
  <2>5. PayTypes' /\ LinkSound'
    BY <1>1, <2>3, <2>4 DEF PayTypes, Claims, LinkSound
  <2> QED
    BY <2>4, <2>5, PayKeeps
<1>3. ASSUME GiveUp(a) PROVE IInv'
  <2>1. /\ admin' = [admin EXCEPT ![a] = NoClaim]
        /\ UNCHANGED <<row, purchase, day, link, captured, sweepVars, lineVars, moneyVars>>
    BY <1>3 DEF GiveUp
  <2>2. PayTypes' /\ LinkSound'
    BY <1>1, <2>1 DEF PayTypes, Claims, NoClaim, LinkSound
  <2> QED
    BY <2>1, <2>2, PayKeeps
<1> QED
  BY <1>2, <1>3, AbsorbKeeps, PriceAssumption DEF AdminStep, ReadOverdue, ReadQuit

----------------------------------------------------------------------------
(* The sweep.                                                               *)

(* A run's step keeps the sweep's part, if it does for the run's memory.    *)
LEMMA MemoryKeeps ==
  ASSUME IInv, NEW s \in Sweeps, sweep' \in [Sweeps -> SweepMemory], deaths' \in Nat,
         \A r \in Sweeps \ {s} : sweep'[r] = sweep[r], day' = day,
         sweep'[s].asOf <= day,
         \A i \in sweep'[s].list : /\ Unpaid(sweep'[s].copy[i])
                                   /\ PricedOn(sweep'[s].copy[i], i, day)
  PROVE  SweepTypes' /\ SweepSound'
<1>1. SweepSound
  BY DEF IInv
<1>2. SweepTypes'
  BY DEF SweepTypes
<1> SUFFICES ASSUME NEW r \in Sweeps
             PROVE  /\ sweep'[r].asOf <= day
                    /\ \A i \in sweep'[r].list : /\ Unpaid(sweep'[r].copy[i])
                                                 /\ PricedOn(sweep'[r].copy[i], i, day)
  BY <1>2 DEF SweepSound
<1>3. CASE r = s
  BY <1>3
<1>4. CASE r # s
  <2>1. sweep'[r] = sweep[r]
    BY <1>4
  <2> QED
    BY <1>1, <2>1, Zenon DEF SweepSound
<1> QED
  BY <1>3, <1>4

(* A list of drawn rows is read.                                            *)
LEMMA ListedKeeps ==
  ASSUME IInv, NEW s \in Sweeps, NEW S \in SUBSET Installments, \A i \in S : Unpaid(row[i]),
         NEW phase \in {"due", "penalty"}, NEW asOf \in {0, day}, NEW block \in BOOLEAN,
         sweep' = [sweep EXCEPT ![s] = Listed(S, phase, asOf, block)],
         UNCHANGED <<row, purchase, day, payVars, deaths, lineVars, moneyVars>>
  PROVE  IInv'
<1> DEFINE m == Listed(S, phase, asOf, block)
<1>1. PlanTypes /\ SweepTypes /\ RowsPriced
  BY DEF IInv
<1>2. /\ m.list = S /\ m.asOf = asOf
      /\ \A i \in S : m.copy[i] = row[i]
  BY DEF Listed
<1>3. m \in SweepMemory
  <2>1. NoRow \in Rows
    BY DEF NoRow, Rows, Statuses
  <2>2. [i \in Installments |-> IF i \in S THEN row[i] ELSE NoRow] \in [Installments -> Rows]
    BY <1>1, <2>1 DEF PlanTypes
  <2>3. asOf \in Nat
    BY <1>1 DEF PlanTypes
  <2>4. [p \in Purchases |-> "unread"]
          \in [Purchases -> {"unread", "PENDING", "COMPLETED", "REVERSED"}]
    OBVIOUS
  <2> QED
    BY <2>2, <2>3, <2>4 DEF Listed, SweepMemory
<1> HIDE DEF m
<1>4. sweep' \in [Sweeps -> SweepMemory] /\ sweep'[s] = m /\ \A r \in Sweeps \ {s} : sweep'[r] = sweep[r]
  BY <1>1, <1>3 DEF SweepTypes, m
<1>5. \A i \in S : Unpaid(m.copy[i]) /\ PricedOn(m.copy[i], i, day)
  BY <1>1, <1>2 DEF RowsPriced
<1>6. asOf <= day /\ deaths' \in Nat
  BY <1>1 DEF PlanTypes, SweepTypes
<1>7. SweepTypes' /\ SweepSound'
  BY <1>2, <1>4, <1>5, <1>6, MemoryKeeps
<1>8. PlanTypes' /\ RowsPriced' /\ BookTypes' /\ BooksAgree' /\ PayTypes' /\ LinkSound'
  BY QuietRows, QuietBooks, QuietLinks
<1> QED
  BY <1>7, <1>8, Zenon DEF IInv

(* The memory is dropped.                                                   *)
LEMMA RestKeeps ==
  ASSUME IInv, NEW s \in Sweeps, sweep' = [sweep EXCEPT ![s] = AtRest], deaths' \in Nat,
         blocked' \in BOOLEAN,
         UNCHANGED <<row, purchase, day, payVars, ceiling, receivable, restored, moneyVars>>
  PROVE  IInv'
<1>1. SweepTypes /\ PlanTypes /\ BookTypes /\ BooksAgree
  BY DEF IInv
<1>2. AtRest \in SweepMemory
  BY DEF AtRest, SweepMemory, NoRow, Rows, Statuses
<1>3. /\ sweep' \in [Sweeps -> SweepMemory] /\ sweep'[s] = AtRest
      /\ \A r \in Sweeps \ {s} : sweep'[r] = sweep[r]
  BY <1>1, <1>2 DEF SweepTypes
<1>4. AtRest.asOf <= day /\ AtRest.list = {}
  BY <1>1 DEF AtRest, PlanTypes
<1>5. SweepTypes' /\ SweepSound'
  BY <1>3, <1>4, MemoryKeeps
<1>6. BookTypes' /\ BooksAgree'
  BY <1>1, Zenon DEF BookTypes, BooksAgree, moneyVars
<1>7. PlanTypes' /\ RowsPriced' /\ PayTypes' /\ LinkSound'
  BY QuietRows, QuietLinks
<1> QED
  BY <1>5, <1>6, <1>7, Zenon DEF IInv

(* One entity of the list is done, and its row may be saved.                *)
LEMMA SaveKeeps ==
  ASSUME IInv, NEW s \in Sweeps, NEW i \in sweep[s].list, NEW r,
         r \in Rows, r.status # "none", PricedOn(r, i, day),
         row' = row \/ row' = [row EXCEPT ![i] = r],
         sweep' \in [Sweeps -> SweepMemory],
         \A q \in Sweeps \ {s} : sweep'[q] = sweep[q],
         sweep'[s].list = sweep[s].list \ {i}, sweep'[s].asOf = sweep[s].asOf,
         \A j \in sweep[s].list \ {i} : sweep'[s].copy[j] = sweep[s].copy[j],
         UNCHANGED <<purchase, day, payVars, deaths, lineVars, moneyVars>>
  PROVE  IInv'
<1>1. PlanTypes /\ SweepTypes /\ RowsPriced /\ SweepSound
  BY DEF IInv
<1>2. i \in Installments
  BY <1>1 DEF SweepTypes, SweepMemory
<1>3. PlanTypes'
  BY <1>1 DEF PlanTypes
<1>4. RowsPriced'
  BY <1>1, <1>2 DEF RowsPriced, PlanTypes
<1>5. \A j \in Installments : row[j].status # "none" => row'[j].status # "none"
  BY <1>1, <1>2 DEF PlanTypes
<1>6. /\ sweep'[s].asOf <= day /\ deaths' \in Nat
      /\ \A j \in sweep'[s].list : /\ Unpaid(sweep'[s].copy[j])
                                   /\ PricedOn(sweep'[s].copy[j], j, day)
  BY <1>1 DEF SweepSound, SweepTypes
<1>7. SweepTypes' /\ SweepSound'
  BY <1>6, MemoryKeeps
<1>8. BookTypes' /\ BooksAgree' /\ PayTypes' /\ LinkSound'
  BY <1>5, QuietBooks, QuietLinks
<1> QED
  BY <1>3, <1>4, <1>7, <1>8, Zenon DEF IInv

(* The memory of a run that has done i.                                     *)
LEMMA MemoryAfter ==
  ASSUME IInv, NEW s \in Sweeps, NEW i \in sweep[s].list,
         sweep' = [sweep EXCEPT ![s].list = @ \ {i}, ![s].copy[i] = NoRow]
  PROVE  /\ sweep' \in [Sweeps -> SweepMemory]
         /\ \A q \in Sweeps \ {s} : sweep'[q] = sweep[q]
         /\ sweep'[s].list = sweep[s].list \ {i} /\ sweep'[s].asOf = sweep[s].asOf
         /\ \A j \in sweep[s].list \ {i} : sweep'[s].copy[j] = sweep[s].copy[j]
<1>1. SweepTypes /\ NoRow \in Rows
  BY DEF IInv, NoRow, Rows, Statuses
<1>2. sweep[s] \in SweepMemory /\ i \in Installments
  BY <1>1 DEF SweepTypes, SweepMemory
<1> QED
  BY <1>1, <1>2 DEF SweepTypes, SweepMemory

LEMMA CopyIs ==
  ASSUME IInv, NEW s \in Sweeps, NEW i \in sweep[s].list
  PROVE  /\ i \in Installments /\ sweep[s].copy[i] \in Rows
         /\ Unpaid(sweep[s].copy[i]) /\ sweep[s].copy[i].status # "none"
         /\ PricedOn(sweep[s].copy[i], i, day) /\ sweep[s].asOf \in Nat /\ sweep[s].asOf <= day
<1>1. SweepTypes /\ SweepSound
  BY DEF IInv
<1>2. i \in Installments /\ sweep[s].copy[i] \in Rows /\ sweep[s].asOf \in Nat
  BY <1>1 DEF SweepTypes, SweepMemory
<1> QED
  BY <1>1, <1>2 DEF SweepSound, Unpaid

LEMMA SaveDueKeeps ==
  ASSUME IInv, NEW s \in Sweeps, NEW i \in Installments, SaveDue(s, i)
  PROVE  IInv'
<1> DEFINE r == Checked(s, i)
<1>1. /\ i \in sweep[s].list /\ row' = [row EXCEPT ![i] = r]
      /\ sweep' = [sweep EXCEPT ![s].list = @ \ {i}, ![s].copy[i] = NoRow]
      /\ UNCHANGED <<purchase, day, payVars, deaths, lineVars, moneyVars>>
  BY DEF SaveDue
<1>2. /\ sweep[s].copy[i] \in Rows /\ sweep[s].copy[i].status # "none"
      /\ PricedOn(sweep[s].copy[i], i, day)
  BY <1>1, CopyIs
<1>3. r \in Rows /\ r.status # "none" /\ PricedOn(r, i, day)
  BY <1>2 DEF Checked, Rows, Statuses, PricedOn
<1> HIDE DEF r
<1>4. /\ sweep' \in [Sweeps -> SweepMemory]
      /\ \A q \in Sweeps \ {s} : sweep'[q] = sweep[q]
      /\ sweep'[s].list = sweep[s].list \ {i} /\ sweep'[s].asOf = sweep[s].asOf
      /\ \A j \in sweep[s].list \ {i} : sweep'[s].copy[j] = sweep[s].copy[j]
  BY <1>1, MemoryAfter
<1> QED
  BY <1>1, <1>3, <1>4, SaveKeeps

(* A purchase is looked up: only that is remembered.                        *)
LEMMA LookUpKeeps ==
  ASSUME IInv, NEW s \in Sweeps, NEW p \in Purchases, LookUp(s, p)
  PROVE  IInv'
<1>1. PlanTypes /\ SweepTypes /\ SweepSound
  BY DEF IInv
<1>2. /\ sweep' = [sweep EXCEPT ![s].looked[p] = purchase[p]]
      /\ UNCHANGED <<row, purchase, day, payVars, deaths, lineVars, moneyVars>>
  BY DEF LookUp
<1>3. sweep[s] \in SweepMemory /\ purchase[p] \in {"PENDING", "COMPLETED", "REVERSED"}
  BY <1>1 DEF PlanTypes, SweepTypes
<1>4. /\ sweep' \in [Sweeps -> SweepMemory] /\ \A q \in Sweeps \ {s} : sweep'[q] = sweep[q]
      /\ sweep'[s].list = sweep[s].list /\ sweep'[s].asOf = sweep[s].asOf
      /\ sweep'[s].copy = sweep[s].copy
  BY <1>1, <1>2, <1>3 DEF SweepTypes, SweepMemory
<1>5. deaths' \in Nat /\ day' = day
  BY <1>1, <1>2 DEF SweepTypes
<1>6. SweepTypes' /\ SweepSound'
  BY <1>1, <1>4, <1>5, MemoryKeeps DEF SweepSound
<1>7. PlanTypes' /\ RowsPriced' /\ BookTypes' /\ BooksAgree' /\ PayTypes' /\ LinkSound'
  BY <1>2, QuietRows, QuietBooks, QuietLinks
<1> QED
  BY <1>6, <1>7, Zenon DEF IInv

(* The days since the last run are added once, at the day's rate.           *)
LEMMA PenalizedPriced ==
  ASSUME NEW r \in Rows, NEW i \in Installments, NEW today \in Nat, today <= day, day \in Nat,
         r.status # "none", PricedOn(r, i, day)
  PROVE  /\ Penalized(r, i, today) \in Rows /\ Penalized(r, i, today).status # "none"
         /\ PricedOn(Penalized(r, i, today), i, day)
<1> DEFINE late == today - Deadline[i]
           rate == Daily[i]
<1>1. /\ r.amount \in Nat /\ r.days \in Nat /\ Principal[i] \in Nat /\ Fee[i] \in Nat
      /\ rate \in Nat /\ Deadline[i] \in Nat /\ late \in Int
  BY PriceAssumption, DateAssumption DEF Rows
<1>2. r.amount = Principal[i] + Fee[i] + rate * r.days
  BY DEF PricedOn
<1>3. CASE late > r.days
  <2> DEFINE next == r.amount + rate * (late - r.days)
  <2>1. Penalized(r, i, today) = [r EXCEPT !.status = "OVERDUE", !.days = late, !.amount = next]
    BY <1>3 DEF Penalized, Rows
  <2>2. /\ Penalized(r, i, today).status = "OVERDUE" /\ Penalized(r, i, today).days = late
        /\ Penalized(r, i, today).amount = next
    BY <2>1 DEF Rows
  <2>3. late \in Nat /\ late - r.days \in Nat
    BY <1>1, <1>3
  <2> HIDE DEF late, rate
  <2>4. rate * (late - r.days) = rate * late - rate * r.days
    BY <1>1, <2>3
  <2>5. rate * (late - r.days) \in Nat /\ rate * late \in Nat /\ rate * r.days \in Nat
    BY <1>1, <2>3
  <2>6. next \in Nat /\ next = Principal[i] + Fee[i] + rate * late
    BY <1>1, <1>2, <2>4, <2>5
  <2>7. Penalized(r, i, today) \in Rows
    BY <2>1, <2>3, <2>6 DEF Rows, Statuses
  <2>8. Deadline[i] + late <= day
    BY <1>1 DEF late
  <2> QED
    BY <2>2, <2>6, <2>7, <2>8 DEF PricedOn, rate
<1>4. CASE ~(late > r.days)
  <2>1. Penalized(r, i, today) = [r EXCEPT !.status = "OVERDUE"]
    BY <1>4 DEF Penalized
  <2> QED
    BY <2>1 DEF Rows, Statuses, PricedOn
<1> QED
  BY <1>3, <1>4

LEMMA SavePenaltyKeeps ==
  ASSUME IInv, NEW s \in Sweeps, NEW i \in Installments, SavePenalty(s, i)
  PROVE  IInv'
<1> DEFINE r == Penalized(sweep[s].copy[i], i, sweep[s].asOf)
<1>1. /\ i \in sweep[s].list
      /\ row' = row \/ row' = [row EXCEPT ![i] = r]
      /\ sweep' = [sweep EXCEPT ![s].list = @ \ {i}, ![s].copy[i] = NoRow]
      /\ UNCHANGED <<purchase, day, payVars, deaths, lineVars, moneyVars>>
  BY DEF SavePenalty
<1>2. /\ sweep[s].copy[i] \in Rows /\ sweep[s].copy[i].status # "none"
      /\ PricedOn(sweep[s].copy[i], i, day) /\ sweep[s].asOf \in Nat /\ sweep[s].asOf <= day
  BY <1>1, CopyIs
<1>3. r \in Rows /\ r.status # "none" /\ PricedOn(r, i, day)
  <2>1. day \in Nat
    BY DEF IInv, PlanTypes
  <2> QED
    BY <1>2, <2>1, PenalizedPriced
<1> HIDE DEF r
<1>4. /\ sweep' \in [Sweeps -> SweepMemory]
      /\ \A q \in Sweeps \ {s} : sweep'[q] = sweep[q]
      /\ sweep'[s].list = sweep[s].list \ {i} /\ sweep'[s].asOf = sweep[s].asOf
      /\ \A j \in sweep[s].list \ {i} : sweep'[s].copy[j] = sweep[s].copy[j]
  BY <1>1, MemoryAfter
<1> QED
  BY <1>1, <1>3, <1>4, SaveKeeps

LEMMA SweepKeeps ==
  ASSUME IInv, NEW s \in Sweeps, SweepStep(s) \/ DieInSweep(s)
  PROVE  IInv'
<1>1. SweepTypes /\ BookTypes /\ PlanTypes
  BY DEF IInv
<1>2. CASE BeginDueCheck(s)
  <2>1. Candidates \in SUBSET Installments /\ \A i \in Candidates : Unpaid(row[i])
    BY DEF Candidates, Unpaid
  <2>2. FALSE \in BOOLEAN
    OBVIOUS
  <2> QED
    BY <1>2, <2>1, <2>2, ListedKeeps DEF BeginDueCheck
<1>3. CASE BeginPenalties(s)
  <2>1. Late \in SUBSET Installments /\ \A i \in Late : Unpaid(row[i])
    BY DEF Late
  <2>2. Crosses \in BOOLEAN
    BY Zenon DEF Crosses
  <2> QED
    BY <1>3, <2>1, <2>2, ListedKeeps DEF BeginPenalties
<1>4. CASE EndSweep(s)
  <2>1. blocked' \in BOOLEAN
    BY <1>4, Zenon DEF EndSweep
  <2>2. /\ sweep' = [sweep EXCEPT ![s] = AtRest] /\ deaths' \in Nat
        /\ UNCHANGED <<row, purchase, day, payVars, ceiling, receivable, restored, moneyVars>>
    BY <1>1, <1>4 DEF EndSweep, SweepTypes
  <2> QED
    BY <2>1, <2>2, RestKeeps
<1>5. CASE DieInSweep(s)
  <2>1. blocked' \in BOOLEAN
    BY <1>1, <1>5, Zenon DEF DieInSweep, BookTypes, lineVars
  <2>2. /\ sweep' = [sweep EXCEPT ![s] = AtRest] /\ deaths' \in Nat
        /\ UNCHANGED <<row, purchase, day, payVars, ceiling, receivable, restored, moneyVars>>
    BY <1>1, <1>5 DEF DieInSweep, SweepTypes, lineVars
  <2> QED
    BY <2>1, <2>2, RestKeeps
<1> QED
  BY <1>2, <1>3, <1>4, <1>5, LookUpKeeps, SaveDueKeeps, SavePenaltyKeeps DEF SweepStep

----------------------------------------------------------------------------
LEMMA NextIInv == IInv /\ [Next]_vars => IInv'
<1> SUFFICES ASSUME IInv, [Next]_vars PROVE IInv'
  OBVIOUS
<1>1. CASE Next
  BY <1>1, TomorrowKeeps, DrawKeeps, RefundKeeps, LinkKeeps, AdminKeeps, SweepKeeps DEF Next
<1>2. CASE UNCHANGED vars
  <2>1. PayTypes' /\ LinkSound'
    BY <1>2, QuietLinks DEF vars
  <2> QED
    BY <1>2, <2>1, PayKeeps DEF vars
<1> QED
  BY <1>1, <1>2

LEMMA Invariance == Spec => []IInv
BY InitIInv, NextIInv, PTL DEF Spec

(* Every variable keeps its type, the sweep's memory included.              *)
THEOREM InstallmentsTypeCorrect == Spec => []TypeOK
<1>1. IInv => TypeOK
  BY PartsType
<1> QED
  BY <1>1, Invariance, PTL

(* Overlapping, late and dying runs of the sweep, stale saves and payments   *)
(* in between: an amount is principal, fee and one penalty for each of the   *)
(* days that are counted, and they have passed.                             *)
THEOREM PenaltyIsExact == Spec => []PenaltyExact
<1>1. IInv => PenaltyExact
  BY PartsType
<1> QED
  BY <1>1, Invariance, PTL

(* Fees and penalties never inflate the line, what is routed away never      *)
(* overdraws the repository, and the bank holds what the wallets hold.      *)
THEOREM LineBooksAgree == Spec => []BooksAgree
<1>1. IInv => BooksAgree
  BY DEF IInv
<1> QED
  BY <1>1, Invariance, PTL

----------------------------------------------------------------------------
(* What a step never does.                                                  *)

(* Only settling restores principal without a draw or a refund, and the      *)
(* rows installment-restore:<i> it makes are new.                           *)
LEMMA SettleRestores ==
  ASSUME IInv, NEW S \in SUBSET Installments, Settle(S)
  PROVE  receivable - receivable' = Sum(Principal, restored' \ restored)
<1> DEFINE n == Sum(Principal, S)
<1>1. receivable \in Int /\ PlanTypes
  BY DEF IInv, BookTypes
<1>2. n \in Nat
  BY <1>1, SumsType
<1>3. receivable' = receivable - n /\ restored' = restored \cup S /\ S \cap restored = {}
  BY DEF Settle, Restorable
<1>4. restored' \ restored = S
  BY <1>3
<1> HIDE DEF n
<1>5. receivable - receivable' = n
  BY <1>1, <1>2, <1>3
<1> QED
  BY <1>4, <1>5, Zenon DEF n

THEOREM RestoredOnce == Spec => PrincipalRestoredOnce
<1> DEFINE Once == (receivable' # receivable /\ UNCHANGED purchase)
                     => receivable - receivable' = Sum(Principal, restored' \ restored)
<1>1. ASSUME IInv, [Next]_vars PROVE Once
  <2>1. ASSUME NEW p \in Purchases, Draw(p) \/ Refund(p) PROVE Once
    <3>1. purchase \in [Purchases -> {"PENDING", "COMPLETED", "REVERSED"}]
      BY <1>1 DEF IInv, PlanTypes
    <3>2. purchase' # purchase
      BY <2>1, <3>1 DEF Draw, Refund
    <3> QED
      BY <3>2
  <2>2. ASSUME NEW l \in Links, SettleLink(l) PROVE Once
    <3>1. Settled(l) \in SUBSET Installments
      BY <1>1, <2>2, SettledIs DEF SettleLink
    <3> QED
      BY <1>1, <2>2, <3>1, SettleRestores DEF SettleLink
  <2>3. ASSUME NEW a \in Admins, Absorb(a) PROVE Once
    <3>1. Outstanding \in SUBSET Installments
      BY DEF Outstanding
    <3> QED
      BY <1>1, <2>3, <3>1, SettleRestores DEF Absorb
  <2>4. ASSUME NEW l \in Links, LinkStep(l) PROVE Once
    BY <2>2, <2>4 DEF LinkStep, PayInstallment, CollectOverdueByLink, CollectQuitByLink, OpenLink,
       LinkDies, Capture, CreditRepayment, RejectLink, AbortLink, RollBack, lineVars
  <2>5. ASSUME NEW a \in Admins, AdminStep(a) PROVE Once
    BY <2>3, <2>5 DEF AdminStep, ReadOverdue, ReadQuit, ReadDebt, GiveUp, lineVars
  <2>6. ASSUME NEW s \in Sweeps, SweepStep(s) \/ DieInSweep(s) PROVE Once
    BY <2>6 DEF SweepStep, BeginDueCheck, BeginPenalties, EndSweep, LookUp, SaveDue, SavePenalty,
       DieInSweep, lineVars
  <2>7. CASE Tomorrow \/ UNCHANGED vars
    BY <2>7 DEF Tomorrow, lineVars, vars
  <2> QED
    BY <1>1, <2>1, <2>4, <2>5, <2>6, <2>7 DEF Next
<1>2. IInv /\ [Next]_vars => [Once]_vars
  BY <1>1
<1> QED
  BY <1>2, Invariance, PTL DEF Spec, PrincipalRestoredOnce

(* A purchase that a run of the sweep looked up as REVERSED still is.       *)
LookedSound ==
  \A s \in Sweeps, p \in Purchases : sweep[s].looked[p] = "REVERSED" => purchase[p] = "REVERSED"

(* What is remembered of purchases is dropped, or what is the case.         *)
LEMMA LookedKept == IInv /\ LookedSound /\ [Next]_vars => LookedSound'
<1> SUFFICES ASSUME IInv, LookedSound, [Next]_vars,
                    NEW s \in Sweeps, NEW p \in Purchases, sweep'[s].looked[p] = "REVERSED"
             PROVE  purchase'[p] = "REVERSED"
  BY DEF LookedSound
<1>1. /\ sweep \in [Sweeps -> SweepMemory]
      /\ purchase \in [Purchases -> {"PENDING", "COMPLETED", "REVERSED"}]
  BY DEF IInv, SweepTypes, PlanTypes
<1>2. sweep[s].looked \in [Purchases -> {"unread", "PENDING", "COMPLETED", "REVERSED"}]
  BY <1>1 DEF SweepMemory
<1>3. purchase[p] = "REVERSED" => purchase'[p] = "REVERSED"
  <2>1. ASSUME NEW q \in Purchases, Draw(q) \/ Refund(q), purchase[p] = "REVERSED"
        PROVE  purchase'[p] = "REVERSED"
    BY <1>1, <2>1 DEF Draw, Refund
  <2>2. ASSUME \A q \in Purchases : ~(Draw(q) \/ Refund(q)) PROVE UNCHANGED purchase
    BY <2>2 DEF Next, Tomorrow, LinkStep, PayInstallment, CollectOverdueByLink, CollectQuitByLink,
       OpenLink, LinkDies, Capture, CreditRepayment, SettleLink, RejectLink, AbortLink, RollBack,
       AdminStep, ReadOverdue, ReadQuit, ReadDebt, Absorb, GiveUp, SweepStep, BeginDueCheck,
       BeginPenalties, EndSweep, LookUp, SaveDue, SavePenalty, DieInSweep, vars
  <2> QED
    BY <2>1, <2>2
<1>4. sweep[s].looked[p] = "REVERSED" \/ purchase[p] = "REVERSED"
  <2>1. ASSUME NEW r \in Sweeps, SweepStep(r) \/ DieInSweep(r)
        PROVE  sweep[s].looked[p] = "REVERSED" \/ purchase[p] = "REVERSED"
    <3>1. ASSUME NEW q \in Purchases, LookUp(r, q)
          PROVE  sweep[s].looked[p] = "REVERSED" \/ purchase[p] = "REVERSED"
      <4>1. sweep' = [sweep EXCEPT ![r].looked[q] = purchase[q]]
        BY <3>1 DEF LookUp
      <4> QED
        BY <1>1, <1>2, <4>1 DEF SweepMemory
    <3>2. ASSUME NEW i \in Installments, SaveDue(r, i) \/ SavePenalty(r, i)
          PROVE  sweep'[s].looked = sweep[s].looked
      <4>1. sweep' = [sweep EXCEPT ![r].list = @ \ {i}, ![r].copy[i] = NoRow]
        BY <3>2 DEF SaveDue, SavePenalty
      <4> QED
        BY <1>1, <4>1 DEF SweepMemory
    <3>3. CASE \/ BeginDueCheck(r) \/ BeginPenalties(r) \/ EndSweep(r) \/ DieInSweep(r)
      <4>1. ASSUME NEW m, sweep' = [sweep EXCEPT ![r] = m],
                   m.looked = [q \in Purchases |-> "unread"]
            PROVE  sweep'[s].looked = sweep[s].looked
                     \/ sweep'[s].looked = [q \in Purchases |-> "unread"]
        BY <1>1, <4>1
      <4>2. AtRest.looked = [q \in Purchases |-> "unread"]
        BY DEF AtRest
      <4>3. \/ sweep' = [sweep EXCEPT ![r] = Listed(Candidates, "due", 0, FALSE)]
            \/ sweep' = [sweep EXCEPT ![r] = Listed(Late, "penalty", day, Crosses)]
            \/ sweep' = [sweep EXCEPT ![r] = AtRest]
        BY <3>3, Zenon DEF BeginDueCheck, BeginPenalties, EndSweep, DieInSweep
      <4>4. CASE sweep' = [sweep EXCEPT ![r] = Listed(Candidates, "due", 0, FALSE)]
        <5>1. Listed(Candidates, "due", 0, FALSE).looked = [q \in Purchases |-> "unread"]
          BY DEF Listed
        <5> QED
          BY <4>1, <4>4, <5>1
      <4>5. CASE sweep' = [sweep EXCEPT ![r] = Listed(Late, "penalty", day, Crosses)]
        <5>1. Listed(Late, "penalty", day, Crosses).looked = [q \in Purchases |-> "unread"]
          BY DEF Listed
        <5> QED
          BY <4>1, <4>5, <5>1
      <4>6. CASE sweep' = [sweep EXCEPT ![r] = AtRest]
        BY <4>1, <4>2, <4>6
      <4> QED
        BY <4>3, <4>4, <4>5, <4>6
    <3> QED
      BY <2>1, <3>1, <3>2, <3>3 DEF SweepStep
  <2>2. ASSUME \A r \in Sweeps : ~(SweepStep(r) \/ DieInSweep(r)) PROVE UNCHANGED sweep
    BY <2>2 DEF Next, Tomorrow, Draw, Refund, LinkStep, PayInstallment, CollectOverdueByLink,
       CollectQuitByLink, OpenLink, LinkDies, Capture, CreditRepayment, SettleLink, RejectLink,
       AbortLink, RollBack, AdminStep, ReadOverdue, ReadQuit, ReadDebt, Absorb, GiveUp, sweepVars, vars
  <2> QED
    BY <2>1, <2>2
<1> QED
  BY <1>3, <1>4 DEF LookedSound

LEMMA LookedInvariance == Spec => []LookedSound
<1>1. Init => LookedSound
  BY DEF Init, LookedSound, AtRest
<1> QED
  BY <1>1, LookedKept, Invariance, PTL DEF Spec

(* No debt vanishes, for any number of overlapping sweeps, links and         *)
(* write-offs: a stale save can make an installment owed again, and never    *)
(* end what is owed.                                                        *)
THEOREM DebtEndsForAReason == Spec => NoDebtVanishes
<1> DEFINE Kept(i) == (Unpaid(row[i]) /\ ~Unpaid(row'[i]))
                        => (i \in restored' \/ purchase'[PurchaseOf[i]] = "REVERSED")
<1>1. ASSUME IInv, LookedSound, LookedSound', [Next]_vars, NEW i \in Installments PROVE Kept(i)
  <2>1. /\ row \in [Installments -> Rows] /\ PurchaseOf[i] \in Purchases
        /\ purchase \in [Purchases -> {"PENDING", "COMPLETED", "REVERSED"}]
    BY <1>1, PlanAssumption DEF IInv, PlanTypes
  <2>2. ASSUME NEW S, Settle(S) PROVE Kept(i)
    BY <2>1, <2>2 DEF Settle
  <2>3. ASSUME NEW p \in Purchases, Draw(p) PROVE Kept(i)
    BY <2>1, <2>3 DEF Draw, NewRow, Unpaid
  <2>4. ASSUME NEW p \in Purchases, Refund(p) PROVE Kept(i)
    BY <2>1, <2>4 DEF Refund, CanceledBy, Plan
  <2>5. ASSUME NEW s \in Sweeps, NEW j \in Installments, SaveDue(s, j) PROVE Kept(i)
    <3>1. row' = [row EXCEPT ![j] = Checked(s, j)] /\ j \in sweep[s].list /\ UNCHANGED purchase
      BY <2>5 DEF SaveDue
    <3>2. Unpaid(sweep[s].copy[j]) /\ sweep[s].copy[j] \in Rows
      BY <1>1, <3>1, CopyIs
    <3>3. ASSUME ~Unpaid(Checked(s, j)) PROVE purchase'[PurchaseOf[j]] = "REVERSED"
      <4>1. sweep[s].looked[PurchaseOf[j]] = "REVERSED"
        BY <3>2, <3>3 DEF Checked, Rows, Unpaid
      <4> QED
        BY <1>1, <3>1, <4>1, PlanAssumption DEF LookedSound
    <3> QED
      BY <2>1, <3>1, <3>3
  <2>6. ASSUME NEW s \in Sweeps, NEW j \in Installments, SavePenalty(s, j) PROVE Kept(i)
    <3>1. /\ row' = row \/ row' = [row EXCEPT ![j] = Penalized(sweep[s].copy[j], j, sweep[s].asOf)]
          /\ j \in sweep[s].list
      BY <2>6 DEF SavePenalty
    <3>2. sweep[s].copy[j] \in Rows
      BY <1>1, <3>1, CopyIs
    <3>3. Unpaid(Penalized(sweep[s].copy[j], j, sweep[s].asOf))
      BY <3>2 DEF Penalized, Rows, Unpaid
    <3> QED
      BY <2>1, <3>1, <3>3
  <2>7. ASSUME \/ \E l \in Links : LinkStep(l)
               \/ \E a \in Admins : AdminStep(a)
        PROVE  UNCHANGED row \/ \E S \in SUBSET (Installments \cup {All}) : Settle(S)
    <3>1. ASSUME NEW l \in Links, SettleLink(l) PROVE \E S \in SUBSET (Installments \cup {All}) : Settle(S)
      <4>1. Settled(l) \in SUBSET Installments
        BY <1>1, <3>1, SettledIs DEF SettleLink
      <4> QED
        BY <3>1, <4>1 DEF SettleLink
    <3>2. ASSUME NEW a \in Admins, Absorb(a) PROVE \E S \in SUBSET (Installments \cup {All}) : Settle(S)
      BY <3>2 DEF Absorb, Outstanding
    <3> QED
      BY <2>7, <3>1, <3>2 DEF LinkStep, PayInstallment, CollectOverdueByLink, CollectQuitByLink,
         OpenLink, LinkDies, Capture, CreditRepayment, RejectLink, AbortLink, RollBack,
         AdminStep, ReadOverdue, ReadQuit, ReadDebt, GiveUp
  <2>8. ASSUME \/ Tomorrow \/ UNCHANGED vars
               \/ \E s \in Sweeps : \/ BeginDueCheck(s) \/ BeginPenalties(s) \/ EndSweep(s)
                                    \/ DieInSweep(s) \/ \E p \in Purchases : LookUp(s, p)
        PROVE  UNCHANGED row
    BY <2>8 DEF Tomorrow, BeginDueCheck, BeginPenalties, EndSweep, DieInSweep, LookUp, vars
  <2> QED
    BY <1>1, <2>2, <2>3, <2>4, <2>5, <2>6, <2>7, <2>8 DEF Next, SweepStep
<1> DEFINE AllKept == \A i \in Installments : Kept(i)
<1>2. IInv /\ LookedSound /\ LookedSound' /\ [Next]_vars => [AllKept]_vars
  BY <1>1
<1> QED
  BY <1>2, Invariance, LookedInvariance, PTL DEF Spec, NoDebtVanishes
=============================================================================
