----------------------------- MODULE MoneyMoves -----------------------------
(***************************************************************************)
(* What TransactionsService promises about a payment, whatever gateway     *)
(* calls, retries, timeouts and crashes lie behind it: a requested payment *)
(* either dies without touching a balance, or moves its amount once, in    *)
(* one atomic step between two wallets (or from outside into one), and a   *)
(* moved payment is undone at most once, by the opposite step.             *)
(***************************************************************************)
EXTENDS Integers

CONSTANTS Purchases, Deposits, Customers, Merchants, NoWallet, Amount, Opening

Txns    == Purchases \cup Deposits
Wallets == Customers \cup Merchants

Lives == {"unborn", "waiting", "dead", "done", "undone"}

VARIABLES
  life,     \* life[t]: where payment t stands
  legs,     \* legs[t]: the wallets t's money moved from and to, once it has
  balance   \* balance[w]

vars == <<life, legs, balance>>

NoLegs == [from |-> NoWallet, to |-> NoWallet]

Init ==
  /\ life = [t \in Txns |-> "unborn"]
  /\ legs = [t \in Txns |-> NoLegs]
  /\ balance = Opening

Advance(t, from, to) == life[t] = from /\ life' = [life EXCEPT ![t] = to]

(* Both sides of the entry in one step; the side that pays keeps its floor. *)
Transfer(from, to, n) ==
  /\ from # NoWallet => balance[from] - n >= 0
  /\ balance' = [w \in Wallets |-> balance[w] + (IF w = to THEN n ELSE 0)
                                              - (IF w = from THEN n ELSE 0)]

Open(t) == Advance(t, "unborn", "waiting") /\ UNCHANGED <<legs, balance>>

Kill(t) == Advance(t, "waiting", "dead") /\ UNCHANGED <<legs, balance>>

(* A purchase moves between a customer and a merchant, a deposit comes in.  *)
Move(t) ==
  \E from \in Customers \cup {NoWallet}, to \in Wallets :
    /\ from = NoWallet <=> t \in Deposits
    /\ Advance(t, "waiting", "done")
    /\ Transfer(from, to, Amount[t])
    /\ legs' = [legs EXCEPT ![t] = [from |-> from, to |-> to]]

Undo(p) ==
  /\ Advance(p, "done", "undone")
  /\ Transfer(legs[p].to, legs[p].from, Amount[p])
  /\ UNCHANGED legs

PayOut(m) ==
  /\ balance[m] > 0
  /\ balance' = [balance EXCEPT ![m] = 0]
  /\ UNCHANGED <<life, legs>>

Next == \/ \E t \in Txns : Open(t) \/ Kill(t) \/ Move(t)
        \/ \E p \in Purchases : Undo(p)
        \/ \E m \in Merchants : PayOut(m)

Spec == Init /\ [][Next]_vars
=============================================================================
