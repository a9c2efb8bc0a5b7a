--------------------------- MODULE Database_proofs ---------------------------
(***************************************************************************)
(* Proofs about what the application has from PostgreSQL: RowLocks, for    *)
(* any number of operations, any orders of the ids and any pool with more  *)
(* connections than operations, and Idempotency, for any requests, keys    *)
(* and asks.                                                               *)
(*                                                                         *)
(* No circle: of the members of a circle take the one that waits for the   *)
(* row of highest rank; whoever has that row waits for one of higher rank. *)
(* No standstill: when nobody can take a step, all that are within their   *)
(* transactions wait for rows, so together they are a circle.              *)
(***************************************************************************)
EXTENDS RowLocks, Idempotency, FiniteSetTheorems, TLAPS

(* Not begun, or ended: no steps, so no locks.                              *)
NothingTaken == \A p \in Procs : ~Within(p) => taken[p] = 0

IInv == TypeOK /\ NothingTaken /\ order \in Orders

(* What the operations do to a row's rank order: payment rows, then wallets *)
(* in the order of their ids, then the repository.                          *)
Rank(o, w) == CASE w \in {"pending", "paid"} -> 0
                [] w = "repository" -> 7
                [] OTHER -> o[w]

Ascends(o, s) ==
  /\ Len(s) \in Nat
  /\ \A i \in 1..Len(s) : IsLock(s[i]) => Rank(o, s[i][2]) \in 0..7
  /\ \A i, j \in 1..Len(s) :
       i < j /\ IsLock(s[i]) /\ IsLock(s[j]) => Rank(o, s[i][2]) < Rank(o, s[j][2])

(* Every script of the class climbs.                                        *)
LEMMA ScriptsAscend ==
  ASSUME NEW o \in Orders, NEW k \in RepositoryLast
  PROVE  Ascends(o, Scripts[o][k])
<1>0. /\ o["credit"] \in 1..6 /\ o["merchant"] \in 1..6
      /\ o["credit"] # o["merchant"]
  BY OrdersAssumption DEF Wallets
<1> USE <1>0 DEF Ascends, Rank, IsLock, Exclusive, Pool, Sorted
<1>1. Ascends(o, Withdraw(o))
  BY DEF Withdraw
<1>2. Ascends(o, TransferOut(o))
  <2>1. CASE o["credit"] < o["merchant"]
    BY <2>1 DEF TransferOut
  <2>2. CASE ~(o["credit"] < o["merchant"])
    BY <2>2 DEF TransferOut
  <2> QED BY <2>1, <2>2
<1>3. Ascends(o, TransferIn(o))
  <2>1. CASE o["merchant"] < o["credit"]
    BY <2>1 DEF TransferIn
  <2>2. CASE ~(o["merchant"] < o["credit"])
    BY <2>2 DEF TransferIn
  <2> QED BY <2>1, <2>2
<1>4. Ascends(o, Verify(o))
  <2>1. CASE o["credit"] < o["merchant"]
    BY <2>1 DEF Verify
  <2>2. CASE ~(o["credit"] < o["merchant"])
    BY <2>2 DEF Verify
  <2> QED BY <2>1, <2>2
<1>5. Ascends(o, Refund(o))
  <2>1. CASE o["credit"] < o["merchant"]
    BY <2>1 DEF Refund
  <2>2. CASE ~(o["credit"] < o["merchant"])
    BY <2>2 DEF Refund
  <2> QED BY <2>1, <2>2
<1>6. Ascends(o, Reclaim(o))
  BY DEF Reclaim
<1>7. Ascends(o, Grant(o))
  BY DEF Grant
<1>8. /\ Scripts[o].withdraw = Withdraw(o) /\ Scripts[o].transferOut = TransferOut(o)
      /\ Scripts[o].transferIn = TransferIn(o) /\ Scripts[o].verify = Verify(o)
      /\ Scripts[o].refund = Refund(o) /\ Scripts[o].reclaim = Reclaim(o)
      /\ Scripts[o].grant = Grant(o)
  BY DEF Scripts
<1> HIDE DEF Ascends
<1> QED BY <1>1, <1>2, <1>3, <1>4, <1>5, <1>6, <1>7, <1>8 DEF RepositoryLast

(* A set of ranks has a highest one.                                        *)
LEMMA Highest ==
  ASSUME NEW T, \A n \in T : n \in 0..7, T # {}
  PROVE  \E m \in T : \A n \in T : n <= m
<1> DEFINE Found    == \E m \in T : \A n \in T : n <= m
           Below(k) == \A n \in T : n <= k
<1>1. ASSUME NEW k \in 0..7 PROVE Below(k) => Found \/ Below(k - 1)
  <2>1. CASE k \in T
    BY <2>1
  <2>2. CASE k \notin T
    <3>1. ASSUME Below(k), NEW n \in T PROVE n <= k - 1
      <4>1. n # k /\ n <= k /\ n \in Int
        BY <2>2, <3>1
      <4> QED BY <4>1
    <3> QED BY <3>1
  <2> QED BY <2>1, <2>2
<1>2. Below(7) /\ ~Below(0 - 1)
  OBVIOUS
<1> HIDE DEF Found, Below
<1>3. Found \/ Below(5)
  <2>1. Found \/ Below(6)
    BY <1>2, <1>1, 7 - 1 = 6
  <2> QED BY <2>1, <1>1, 6 - 1 = 5
<1>4. Found \/ Below(3)
  <2>1. Found \/ Below(4)
    BY <1>3, <1>1, 5 - 1 = 4
  <2> QED BY <2>1, <1>1, 4 - 1 = 3
<1>5. Found \/ Below(1)
  <2>1. Found \/ Below(2)
    BY <1>4, <1>1, 3 - 1 = 2
  <2> QED BY <2>1, <1>1, 2 - 1 = 1
<1>6. Found \/ Below(0 - 1)
  <2>1. Found \/ Below(0)
    BY <1>5, <1>1, 1 - 1 = 0
  <2> QED BY <2>1, <1>1
<1>7. Found
  BY <1>2, <1>6
<1> QED BY <1>7 DEF Found

(* In a circle everybody waits for a lock.                                  *)
LEMMA CircleWaits ==
  ASSUME NEW S \in SUBSET Procs, Circle(S), NEW p \in S
  PROVE  AtStep(p) /\ IsLock(NextStep(p))
BY DEF Circle, Blockers

(* What a blocker has is behind it: it waits for a row of higher rank.      *)
LEMMA BlockerWaitsHigher ==
  ASSUME IInv, NEW S \in SUBSET Procs, Circle(S),
         NEW p \in S, NEW q \in S, q \in Blockers(p), kind[q] \in RepositoryLast
  PROVE  Rank(order, NextStep(p)[2]) < Rank(order, NextStep(q)[2])
<1>1. PICK t \in Holds(q) : Conflict(NextStep(p), t)
  BY DEF Blockers
<1>2. PICK i \in 1..taken[q] : t = Script(q)[i] /\ IsLock(Script(q)[i])
  BY <1>1 DEF Holds
<1>3. Ascends(order, Script(q))
  BY ScriptsAscend DEF IInv, Script
<1>4. AtStep(q) /\ IsLock(Script(q)[taken[q] + 1])
  BY CircleWaits DEF NextStep
<1>5. taken[q] \in Nat /\ taken[q] < Len(Script(q)) /\ Len(Script(q)) \in Nat
  BY <1>3, <1>4 DEF AtStep, IInv, TypeOK, Ascends
<1>6. i \in 1..Len(Script(q)) /\ taken[q] + 1 \in 1..Len(Script(q)) /\ i < taken[q] + 1
  BY <1>5
<1>7. Rank(order, Script(q)[i][2]) < Rank(order, Script(q)[taken[q] + 1][2])
  BY <1>2, <1>3, <1>4, <1>6 DEF Ascends
<1>8. NextStep(p)[2] = Script(q)[i][2]
  BY <1>1, <1>2 DEF Conflict
<1> QED BY <1>7, <1>8 DEF NextStep

(* The rank a member waits for.                                             *)
LEMMA AwaitedRank ==
  ASSUME IInv, NEW S \in SUBSET Procs, Circle(S), NEW p \in S, kind[p] \in RepositoryLast
  PROVE  Rank(order, NextStep(p)[2]) \in 0..7
<1>1. Ascends(order, Script(p))
  BY ScriptsAscend DEF IInv, Script
<1>2. AtStep(p) /\ IsLock(Script(p)[taken[p] + 1])
  BY CircleWaits DEF NextStep
<1>3. taken[p] + 1 \in 1..Len(Script(p))
  BY <1>1, <1>2 DEF AtStep, IInv, TypeOK, Ascends
<1> QED BY <1>1, <1>2, <1>3 DEF Ascends, NextStep

(* No circle among the operations that lock a repository last.              *)
LEMMA NoCircleOfClass == IInv => RepositoryLastNeverCircle
<1> SUFFICES ASSUME IInv, NEW S \in SUBSET Procs, Circle(S),
                    \A p \in S : kind[p] \in RepositoryLast
             PROVE  FALSE
  BY DEF RepositoryLastNeverCircle
<1> DEFINE Awaited == {Rank(order, NextStep(p)[2]) : p \in S}
<1>1. (\A n \in Awaited : n \in 0..7) /\ Awaited # {}
  BY AwaitedRank DEF Circle
<1> HIDE DEF Awaited
<1>2. PICK m \in Awaited : \A n \in Awaited : n <= m
  BY <1>1, Highest
<1>3. PICK p \in S : m = Rank(order, NextStep(p)[2])
  BY <1>2 DEF Awaited
<1>4. PICK q \in S : q \in Blockers(p)
  BY DEF Circle
<1>5. m < Rank(order, NextStep(q)[2])
  BY <1>3, <1>4, BlockerWaitsHigher
<1>6. Rank(order, NextStep(q)[2]) \in Awaited
  BY DEF Awaited
<1>7. Rank(order, NextStep(q)[2]) <= m /\ Rank(order, NextStep(q)[2]) \in 0..7 /\ m \in 0..7
  BY <1>1, <1>2, <1>6
<1> QED BY <1>5, <1>7

(* There is a connection for a read as long as the pool is larger.          *)
LEMMA ConnectionFree == FreeConnections > 0
<1> DEFINE W == {p \in Procs : Within(p)}
<1>1. IsFiniteSet(W) /\ Cardinality(W) <= Cardinality(Procs)
  BY ConnectionsAssumption, FS_Subset
<1>2. Cardinality(W) \in Nat /\ Cardinality(Procs) \in Nat
  BY <1>1, ConnectionsAssumption, FS_CardinalityType
<1> QED BY <1>1, <1>2, ConnectionsAssumption DEF FreeConnections

(* When nobody can take a step, those within are a circle.                  *)
LEMMA StandStillIsCircle == IInv => NeverStandStill
<1> SUFFICES ASSUME IInv, NEW a \in Procs, phase[a] # "ended",
                    \A p \in Procs : ~(MayBegin(p) \/ MayLock(p) \/ MayRead(p) \/ MayCommit(p))
             PROVE  \E S \in SUBSET Procs : Circle(S)
  BY DEF NeverStandStill
<1> DEFINE W == {p \in Procs : Within(p)}
<1>1. a \in W
  BY ConnectionFree DEF MayBegin, IInv, TypeOK, Within
<1>2. ASSUME NEW p \in W PROVE AtStep(p) /\ Blockers(p) \cap W # {}
  <2>1. AtStep(p)
    BY DEF MayCommit
  <2>2. Blockers(p) # {}
    BY <2>1, ConnectionFree DEF MayRead, MayLock
  <2>3. Blockers(p) \subseteq W
    BY DEF Blockers, Holds
  <2> QED BY <2>1, <2>2, <2>3
<1>3. Circle(W)
  BY <1>1, <1>2 DEF Circle
<1> QED BY <1>3

----------------------------------------------------------------------------
(* The invariant.                                                           *)

LEMMA InitIInv == Init => IInv
BY WorksAssumption, OrdersAssumption
   DEF Init, IInv, TypeOK, NothingTaken, Within, Holds

(* Whoever ends has no locks any more, and the others have theirs.          *)
LEMMA EndsIInv ==
  ASSUME IInv, NEW p \in Procs, Ends(p) PROVE IInv'
<1>1. /\ phase' \in [Procs -> {"asked", "within", "ended"}]
      /\ taken' \in [Procs -> Nat] /\ NothingTaken'
  BY DEF IInv, TypeOK, NothingTaken, Ends, Within
<1>2. \A q \in Procs : Holds(q)' \subseteq Holds(q)
  BY DEF IInv, TypeOK, Ends, Holds, Within, Script
<1> QED BY <1>1, <1>2 DEF IInv, TypeOK, Ends

LEMMA BeginIInv ==
  ASSUME IInv, NEW p \in Procs, Begin(p) PROVE IInv'
<1>1. /\ phase' \in [Procs -> {"asked", "within", "ended"}] /\ NothingTaken'
  BY DEF IInv, TypeOK, NothingTaken, Begin, MayBegin, Within
<1>2. taken[p] = 0
  BY DEF IInv, NothingTaken, Begin, MayBegin, Within
<1>3. \A q \in Procs : Holds(q)' \subseteq Holds(q)
  BY <1>2 DEF IInv, TypeOK, Begin, Holds, Within, Script
<1> QED BY <1>1, <1>3 DEF IInv, TypeOK, Begin

LEMMA StepsType ==
  ASSUME IInv, NEW p \in Procs, AtStep(p), Steps(p)
  PROVE  /\ taken' \in [Procs -> Nat] /\ NothingTaken'
         /\ \A q \in Procs \ {p} : Holds(q)' = Holds(q)
         /\ \A t \in Holds(p)' : t \in Holds(p) \/ (t = NextStep(p) /\ IsLock(t))
<1>1. taken' \in [Procs -> Nat] /\ taken'[p] = taken[p] + 1
  BY DEF IInv, TypeOK, Steps
<1>2. NothingTaken'
  BY DEF IInv, TypeOK, NothingTaken, Steps, AtStep, Within
<1>3. \A q \in Procs \ {p} : Holds(q)' = Holds(q)
  BY DEF IInv, TypeOK, Steps, Holds, Within, Script
<1>4. ASSUME NEW t \in Holds(p)' PROVE t \in Holds(p) \/ (t = NextStep(p) /\ IsLock(t))
  <2>1. PICK i \in 1..(taken[p] + 1) : t = Script(p)[i] /\ Within(p) /\ IsLock(Script(p)[i])
    BY <1>1, <1>4 DEF Holds, Within, Steps, Script
  <2>2. CASE i \in 1..taken[p]
    BY <2>1, <2>2 DEF Holds
  <2>3. CASE i = taken[p] + 1
    BY <2>1, <2>3 DEF NextStep
  <2> QED BY <2>1, <2>2, <2>3 DEF IInv, TypeOK
<1> QED BY <1>1, <1>2, <1>3, <1>4

LEMMA ReadIInv ==
  ASSUME IInv, NEW p \in Procs, Read(p) PROVE IInv'
<1>1. AtStep(p) /\ ~IsLock(NextStep(p)) /\ Steps(p)
  BY DEF Read, MayRead
<1>2. /\ taken' \in [Procs -> Nat] /\ NothingTaken'
      /\ \A q \in Procs : Holds(q)' \subseteq Holds(q)
  BY <1>1, StepsType
<1> QED BY <1>1, <1>2 DEF IInv, TypeOK, Steps

LEMMA LockIInv ==
  ASSUME IInv, NEW p \in Procs, Lock(p) PROVE IInv'
<1>1. AtStep(p) /\ IsLock(NextStep(p)) /\ Steps(p) /\ Blockers(p) = {}
  BY DEF Lock, MayLock
<1>2. /\ taken' \in [Procs -> Nat] /\ NothingTaken'
      /\ \A q \in Procs \ {p} : Holds(q)' = Holds(q)
      /\ \A t \in Holds(p)' : t \in Holds(p) \/ (t = NextStep(p) /\ IsLock(t))
  BY <1>1, StepsType
<1>3. ASSUME NEW q \in Procs \ {p}, NEW s \in Holds(p)', NEW t \in Holds(q)'
      PROVE  ~Conflict(s, t) /\ ~Conflict(t, s)
  <2>1. \A x, y : Conflict(x, y) <=> Conflict(y, x)
    BY DEF Conflict
  <2>2. t \in Holds(q)
    BY <1>2, <1>3
  <2>3. CASE s \in Holds(p)
    BY <2>1, <2>2, <2>3 DEF IInv, TypeOK
  <2>4. CASE s = NextStep(p) /\ IsLock(s)
    BY <1>1, <2>1, <2>2, <2>4 DEF Blockers
  <2> QED BY <1>2, <2>3, <2>4
<1>4. \A q, u \in Procs : q # u => \A s \in Holds(q)', t \in Holds(u)' : ~Conflict(s, t)
  <2> SUFFICES ASSUME NEW q \in Procs, NEW u \in Procs, q # u,
                      NEW s \in Holds(q)', NEW t \in Holds(u)'
               PROVE  ~Conflict(s, t)
    OBVIOUS
  <2>1. CASE q = p BY <1>3, <2>1
  <2>2. CASE u = p BY <1>3, <2>2
  <2>3. CASE q # p /\ u # p BY <1>2, <2>3 DEF IInv, TypeOK
  <2> QED BY <2>1, <2>2, <2>3
<1> QED BY <1>1, <1>2, <1>4 DEF IInv, TypeOK, Steps

LEMMA NextIInv == IInv /\ [Next]_vars => IInv'
<1> SUFFICES ASSUME IInv, [Next]_vars PROVE IInv'
  OBVIOUS
<1>1. ASSUME NEW p \in Procs, Begin(p) PROVE IInv'
  BY <1>1, BeginIInv
<1>2. ASSUME NEW p \in Procs, Lock(p) PROVE IInv'
  BY <1>2, LockIInv
<1>3. ASSUME NEW p \in Procs, Read(p) PROVE IInv'
  BY <1>3, ReadIInv
<1>4. ASSUME NEW p \in Procs, Commit(p) \/ Throw(p) \/ DeadlockAbort(p) PROVE IInv'
  BY <1>4, EndsIInv DEF Commit, Throw, DeadlockAbort
<1>5. CASE UNCHANGED vars
  BY <1>5 DEF vars, IInv, TypeOK, NothingTaken, Holds, Within, Script
<1> QED BY <1>1, <1>2, <1>3, <1>4, <1>5 DEF Next

----------------------------------------------------------------------------
(* Types, and what is locked is locked by one transaction, for any number   *)
(* of operations.                                                           *)
THEOREM LocksTypeCorrect == Spec => []TypeOK
<1>1. IInv => TypeOK
  BY DEF IInv
<1> QED BY InitIInv, NextIInv, <1>1, PTL DEF Spec

(* Operations that lock the wallets sorted and the repository last never    *)
(* wait for each other in a circle, however many they are.                  *)
THEOREM NoCircle == Spec => []RepositoryLastNeverCircle
<1> QED BY InitIInv, NextIInv, NoCircleOfClass, PTL DEF Spec

(* With more connections than operations nothing stands still: rows alone   *)
(* never stop the system for good.                                          *)
THEOREM NoStandStill == Spec => []NeverStandStill
<1> QED BY InitIInv, NextIInv, StandStillIsCircle, PTL DEF Spec

----------------------------------------------------------------------------
(* Idempotency.  Its safety invariants are inductive only together: that a  *)
(* key is applied once needs that nobody works on a key whose row is        *)
(* committed, and that needs the key to have one holder.                    *)
KeyedIInv == KeyedTypeOK /\ AppliedOnce /\ AnswersAreOfOneAsk /\ OneWorkerPerKey

(* The initial state satisfies the inductive invariant.                     *)
LEMMA KeyedInitIInv == KeyedInit => KeyedIInv
BY NobodyAssumption, KeyAssumption
   DEF KeyedInit, KeyedIInv, KeyedTypeOK, States, AppliedOnce, AnswersAreOfOneAsk, OneWorkerPerKey

(* Every step keeps it: one lemma step per action.                          *)
LEMMA KeyedNextIInv == KeyedIInv /\ [KeyedNext]_keyedVars => KeyedIInv'
<1> SUFFICES ASSUME KeyedIInv, [KeyedNext]_keyedVars PROVE KeyedIInv'
  OBVIOUS
<1> USE KeyAssumption, AskAssumption, NobodyAssumption
<1>1. ASSUME NEW r \in Requests, Send(r) PROVE KeyedIInv'
  BY <1>1 DEF KeyedIInv, KeyedTypeOK, States, AppliedOnce, AnswersAreOfOneAsk, OneWorkerPerKey, Send, Goto
<1>2. ASSUME NEW r \in Requests, Wait(r) PROVE KeyedIInv'
  BY <1>2 DEF KeyedIInv, KeyedTypeOK, States, AppliedOnce, AnswersAreOfOneAsk, OneWorkerPerKey, Wait, Goto
<1>3. ASSUME NEW r \in Requests, Claim(r) PROVE KeyedIInv'
  BY <1>3 DEF KeyedIInv, KeyedTypeOK, States, AppliedOnce, AnswersAreOfOneAsk, OneWorkerPerKey,
              Claim, AtClaim, Goto
<1>4. ASSUME NEW r \in Requests, Replay(r) PROVE KeyedIInv'
  BY <1>4 DEF KeyedIInv, KeyedTypeOK, States, AppliedOnce, AnswersAreOfOneAsk, OneWorkerPerKey,
              Replay, AtClaim, SameAsk, Goto
<1>5. ASSUME NEW r \in Requests, Refuse(r) PROVE KeyedIInv'
  BY <1>5 DEF KeyedIInv, KeyedTypeOK, States, AppliedOnce, AnswersAreOfOneAsk, OneWorkerPerKey,
              Refuse, AtClaim, Goto
<1>6. ASSUME NEW r \in Requests, CommitWork(r) PROVE
        /\ holder' \in [Keys -> Requests \cup {Nobody}]
        /\ row' \in [Keys -> Requests \cup {Nobody}]
        /\ effects' \in [Keys -> Nat]
        /\ AppliedOnce'
        /\ row[KeyOf[r]] = Nobody /\ row'[KeyOf[r]] = r /\ effects'[KeyOf[r]] = 1
        /\ \A k \in Keys \ {KeyOf[r]} : row'[k] = row[k] /\ effects'[k] = effects[k]
  BY <1>6 DEF KeyedIInv, KeyedTypeOK, AppliedOnce, OneWorkerPerKey, CommitWork, Recorded
<1>7. ASSUME NEW r \in Requests, Finish(r) PROVE KeyedIInv'
  <2>1. CommitWork(r)
    BY <1>7 DEF Finish
  <2>2. KeyedTypeOK'
    BY <1>6, <1>7, <2>1 DEF KeyedIInv, KeyedTypeOK, States, Finish, Goto
  <2>3. AnswersAreOfOneAsk'
    BY <1>6, <1>7, <2>1 DEF KeyedIInv, KeyedTypeOK, AnswersAreOfOneAsk, Finish
  <2>4. OneWorkerPerKey'
    BY <1>6, <1>7, <2>1 DEF KeyedIInv, KeyedTypeOK, States, OneWorkerPerKey, Finish, CommitWork, Recorded, Goto
  <2> QED
    BY <1>6, <2>1, <2>2, <2>3, <2>4 DEF KeyedIInv
<1>8. ASSUME NEW r \in Requests, FinishUnheard(r) PROVE KeyedIInv'
  <2>1. CommitWork(r)
    BY <1>8 DEF FinishUnheard
  <2>2. KeyedTypeOK'
    BY <1>6, <1>8, <2>1 DEF KeyedIInv, KeyedTypeOK, States, FinishUnheard, Goto
  <2>3. AnswersAreOfOneAsk'
    BY <1>6, <1>8, <2>1 DEF KeyedIInv, KeyedTypeOK, AnswersAreOfOneAsk, FinishUnheard
  <2>4. OneWorkerPerKey'
    BY <1>6, <1>8, <2>1 DEF KeyedIInv, KeyedTypeOK, States, OneWorkerPerKey, FinishUnheard, CommitWork, Recorded, Goto
  <2> QED
    BY <1>6, <2>1, <2>2, <2>3, <2>4 DEF KeyedIInv
<1>9. ASSUME NEW r \in Requests, Fail(r) PROVE KeyedIInv'
  BY <1>9 DEF KeyedIInv, KeyedTypeOK, States, AppliedOnce, AnswersAreOfOneAsk, OneWorkerPerKey, Fail, Goto
<1>10. CASE UNCHANGED keyedVars
  BY <1>10 DEF KeyedIInv, KeyedTypeOK, AppliedOnce, AnswersAreOfOneAsk, OneWorkerPerKey, keyedVars
<1> QED
  BY <1>1, <1>2, <1>3, <1>4, <1>5, <1>7, <1>8, <1>9, <1>10 DEF KeyedNext, Enter, End

(* Every reachable state is in the inductive invariant.                     *)
LEMMA KeyedInvariance == KeyedSpec => []KeyedIInv
BY KeyedInitIInv, KeyedNextIInv, PTL DEF KeyedSpec

(* Type correctness of the idempotency model.                               *)
THEOREM IdempotencyTypeCorrect == KeyedSpec => []KeyedTypeOK
BY KeyedInvariance, PTL DEF KeyedIInv

(* However many copies of a request run, crash and are sent again, the work *)
(* of a key is applied at most once, and once if its row is committed.      *)
THEOREM KeyAppliedOnce == KeyedSpec => []AppliedOnce
BY KeyedInvariance, PTL DEF KeyedIInv

(* Every answer a client hears is the response of the one application of    *)
(* its key, asked for by the same user, endpoint and payload.               *)
THEOREM AnswersAgree == KeyedSpec => []AnswersAreOfOneAsk
BY KeyedInvariance, PTL DEF KeyedIInv
=============================================================================
