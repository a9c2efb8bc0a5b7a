------------------------------ MODULE RowLocks ------------------------------
(***************************************************************************)
(* The order in which the backend's operations take row locks, and the     *)
(* connections they need.  An operation is one database transaction on one *)
(* connection of the pool; most of them also read through the repositories *)
(* (getById, getByIdUnscoped, ...), which takes a second connection for    *)
(* the time of a query while the first one and its locks are kept.         *)
(*                                                                         *)
(* PostgreSQL aborts a member of a circle of waiting transactions.  Nobody *)
(* resolves a wait for a connection: the pool has no timeout.              *)
(*                                                                         *)
(* One credit wallet with its repository and one merchant; every kind of   *)
(* operation on them, at most one time per process.                        *)
(***************************************************************************)
EXTENDS Integers, Sequences, FiniteSets, SequencesExt

CONSTANTS
  Procs,       \* requests and sweeps at work; a bound on their number
  Works,       \* the operations they may be, at once
  Orders,      \* orders of the wallets' ids, which are random
  Connections  \* size of the pool

Wallets == {"credit", "merchant", "repository", "subRepository", "railFee", "support"}
Kinds == {"withdraw", "transferOut", "transferIn", "initiate", "verify", "topup",
          "topupAgain", "repay", "refund", "sweep", "collect", "reclaim", "grant"}

ASSUME WorksAssumption == Works \subseteq [Procs -> Kinds]
ASSUME OrdersAssumption ==
  \A o \in Orders : /\ o \in [Wallets -> 1..6]
                    /\ \A v, w \in Wallets : o[v] = o[w] => v = w
ASSUME ConnectionsAssumption ==
  IsFiniteSet(Procs) /\ Connections \in Nat /\ Cardinality(Procs) < Connections

VARIABLES
  kind,   \* kind[p]: the operation of p; constant
  order,  \* the wallets' places in the order of their ids; constant
  phase,  \* "asked", "within" its transaction or "ended"
  taken   \* how many steps of its script p has taken

vars == <<kind, order, phase, taken>>

----------------------------------------------------------------------------
(* Scripts: the locks of an operation, and where it reads through the pool. *)

Exclusive(row) == <<"update", row>>      \* SELECT ... FOR UPDATE
Write(row)     == <<"write", row>>       \* UPDATE of a row not locked before
KeyShare(row)  == <<"share", row>>       \* foreign key of an inserted row
Pool           == <<"pool", "pool">>     \* a read on a second connection

IsLock(s) == s[1] # "pool"

\* Mutant: the wallets in the order the request names them.
AsGiven(o, v, w) == <<Exclusive(v), Exclusive(w)>>

Sorted(o, v, w) == IF o[v] < o[w] THEN <<Exclusive(v), Exclusive(w)>>
                                  ELSE <<Exclusive(w), Exclusive(v)>>

SortedSet(o, ws) == LET ids == SetToSortSeq(ws, LAMBDA v, w : o[v] < o[w])
                    IN  [i \in DOMAIN ids |-> Exclusive(ids[i])]

Withdraw(o)    == <<Pool, Exclusive("credit"), Exclusive("repository")>>
TransferOut(o) == LET ws == Sorted(o, "credit", "merchant")
                  IN  <<Pool, ws[1], ws[2], Exclusive("repository"), Pool>>
TransferIn(o)  == LET ws == Sorted(o, "merchant", "credit")
                  IN  <<Pool, ws[1], ws[2], Pool>>
Initiate(o)    == <<Pool, KeyShare("credit"), KeyShare("merchant")>>
Verify(o)      == LET ws == Sorted(o, "credit", "merchant")
                  IN  <<Exclusive("pending"), Pool, ws[1], ws[2],
                        Exclusive("repository"), Pool>>
Completion(o, purchase) ==
  <<Exclusive("topup"), Exclusive(purchase), Pool>>
    \o SortedSet(o, {"credit", "merchant", "repository"}) \o <<Exclusive("support"), Pool>>
Repay(o)       == <<Exclusive("link"), Exclusive("repository"),
                    Exclusive("subRepository"), Pool, Write("credit")>>
Refund(o)      == LET ws == Sorted(o, "credit", "merchant")
                  IN  <<Exclusive("paid"), Pool, ws[1], ws[2], Pool,
                        Exclusive("repository"), Pool>>
Sweep(o)       == <<Exclusive("merchant"), Pool, Exclusive("railFee"), Pool,
                    Exclusive("paid")>>
Collect(o)     == <<Pool, Exclusive("repository"), Exclusive("subRepository"), Pool,
                    Write("credit")>>
Reclaim(o)     == <<Pool, Exclusive("credit"), Pool, Exclusive("repository")>>
Grant(o)       == <<Pool, Exclusive("repository")>>

\* The scripts of every order and kind.  A top-up completes a purchase of its
\* own; a repeated call completes one that is paid, and locks all the same.
Scripts ==
  [o \in Orders |->
    [withdraw |-> Withdraw(o), transferOut |-> TransferOut(o), transferIn |-> TransferIn(o),
     initiate |-> Initiate(o), verify |-> Verify(o), topup |-> Completion(o, "other"),
     topupAgain |-> Completion(o, "paid"), repay |-> Repay(o), refund |-> Refund(o),
     sweep |-> Sweep(o), collect |-> Collect(o), reclaim |-> Reclaim(o), grant |-> Grant(o)]]

Script(p) == Scripts[order][kind[p]]

----------------------------------------------------------------------------
Conflict(s, t) ==
  /\ s[2] = t[2]
  /\ s[1] = "update" \/ t[1] = "update" \/ (s[1] = "write" /\ t[1] = "write")

Within(p) == phase[p] = "within"
AtStep(p) == Within(p) /\ taken[p] < Len(Script(p))
NextStep(p) == Script(p)[taken[p] + 1]

\* The locks p has, kept until its transaction ends.
Holds(p) == {Script(p)[i] : i \in {j \in 1..taken[p] : Within(p) /\ IsLock(Script(p)[j])}}

\* Mutant: the row is read without a lock.
NoBlockers(p) == {}

Blockers(p) ==
  {o \in Procs \ {p} : \E t \in Holds(o) : IsLock(NextStep(p)) /\ Conflict(NextStep(p), t)}

\* Transactions that wait for each other; o \in S: only a member can free another.
Circle(S) == S # {} /\ \A p \in S : AtStep(p) /\ Blockers(p) \cap S # {}

FreeConnections == Connections - Cardinality({p \in Procs : Within(p)})

----------------------------------------------------------------------------
Init ==
  /\ kind \in Works /\ order \in Orders
  /\ phase = [p \in Procs |-> "asked"] /\ taken = [p \in Procs |-> 0]

MayBegin(p) == phase[p] = "asked" /\ FreeConnections > 0

Begin(p) ==
  /\ MayBegin(p) /\ phase' = [phase EXCEPT ![p] = "within"]
  /\ UNCHANGED <<kind, order, taken>>

Steps(p) ==
  /\ taken' = [taken EXCEPT ![p] = @ + 1]
  /\ UNCHANGED <<kind, order, phase>>

MayLock(p) == AtStep(p) /\ IsLock(NextStep(p)) /\ Blockers(p) = {}

Lock(p) == MayLock(p) /\ Steps(p)

\* Mutant: two reads at once.
MayReadBoth(p) == AtStep(p) /\ ~IsLock(NextStep(p)) /\ FreeConnections > 1

MayRead(p) == AtStep(p) /\ ~IsLock(NextStep(p)) /\ FreeConnections > 0

Read(p) == MayRead(p) /\ Steps(p)

\* Its locks and its connection are released.
Ends(p) ==
  /\ phase' = [phase EXCEPT ![p] = "ended"] /\ taken' = [taken EXCEPT ![p] = 0]
  /\ UNCHANGED <<kind, order>>

MayCommit(p) == Within(p) /\ ~AtStep(p)

Commit(p) == MayCommit(p) /\ Ends(p)

\* The operation is refused at some point of its work and rolled back.
Throw(p) ==
  /\ Within(p) /\ taken[p] > 0
  /\ Ends(p)

DeadlockAbort(p) ==
  /\ \E S \in SUBSET Procs : p \in S /\ Circle(S)
  /\ Ends(p)

Next ==
  \E p \in Procs : Begin(p) \/ Lock(p) \/ Read(p) \/ Commit(p) \/ Throw(p) \/ DeadlockAbort(p)

Spec == Init /\ [][Next]_vars

----------------------------------------------------------------------------
(* Properties.                                                              *)

\* Types; and a row locked FOR UPDATE is no other transaction's.
TypeOK ==
  /\ kind \in [Procs -> Kinds] /\ order \in [Wallets -> 1..6]
  /\ phase \in [Procs -> {"asked", "within", "ended"}]
  /\ taken \in [Procs -> Nat]
  /\ \A p, o \in Procs : p # o => \A s \in Holds(p), t \in Holds(o) : ~Conflict(s, t)

\* Those that lock their payment row first, then wallets in the order of their
\* ids, and a repository last.
RepositoryLast == {"withdraw", "transferOut", "transferIn", "verify", "refund", "reclaim", "grant"}

\* transactions.service.ts:464: wallets are locked in a fixed order "so two
\* concurrent transfers between the same pair of wallets can never deadlock".
\* So it is with any number of them, verifications and refunds among them: a
\* circle of waiting transactions always has a member of another kind.
RepositoryLastNeverCircle ==
  \A S \in SUBSET Procs : Circle(S) => \E p \in S : kind[p] \notin RepositoryLast

\* While operations are at work, one of them can take its next step, or
\* PostgreSQL finds a circle to break: they never wait for one another for
\* ever, as long as there are fewer of them than connections.  (Each step is
\* progress, so all of them end.)
NeverStandStill ==
  (\E p \in Procs : phase[p] # "ended") =>
    \/ \E p \in Procs : MayBegin(p) \/ MayLock(p) \/ MayRead(p) \/ MayCommit(p)
    \/ \E S \in SUBSET Procs : Circle(S)
=============================================================================
