---------------------------- MODULE Idempotency ----------------------------
(***************************************************************************)
(* TransactionsService.run and IdempotencyService: every client-keyed      *)
(* money operation claims its Idempotency-Key, does its work and stores    *)
(* its response in one DB transaction.  Clients lose answers and send      *)
(* again; several copies of a request run at the same time; processes die. *)
(*                                                                         *)
(* The key is the primary key of idempotency_keys, so PostgreSQL makes a   *)
(* second INSERT of it wait for the transaction that holds the first: it   *)
(* then fails if that one committed and succeeds if it rolled back.  A row *)
(* is IN_PROGRESS only inside the transaction that inserted it, so a       *)
(* reader, which sees committed rows, only ever finds COMPLETED ones.      *)
(***************************************************************************)
EXTENDS Naturals

CONSTANTS
  Requests,   \* concurrent HTTP requests; a retry is the same request sent again
  Keys,       \* Idempotency-Key values
  Asks,       \* who asks for what: user, endpoint and payload hash
  KeyOf,      \* KeyOf[r]: the key request r carries
  AskOf,      \* AskOf[r]: what request r asks for
  Nobody      \* no request

ASSUME KeyAssumption    == KeyOf \in [Requests -> Keys]
ASSUME AskAssumption    == AskOf \in [Requests -> Asks]
ASSUME NobodyAssumption == Nobody \notin Requests

States == {"idle", "sent", "waiting", "working", "answered", "refused", "failed"}

VARIABLES
  pc,      \* pc[r]: where request r stands
  holder,  \* holder[k]: the request whose open transaction inserted k
  row,     \* row[k]: the request whose ask and response the committed row k has
  effects, \* effects[k]: how often the work of a request with key k committed
  answer   \* answer[r]: the request whose response r received last

keyedVars == <<pc, holder, row, effects, answer>>

KeyedInit ==
  /\ pc      = [r \in Requests |-> "idle"]
  /\ holder  = [k \in Keys |-> Nobody]
  /\ row     = [k \in Keys |-> Nobody]
  /\ effects = [k \in Keys |-> 0]
  /\ answer  = [r \in Requests |-> Nobody]

Goto(r, s) == pc' = [pc EXCEPT ![r] = s]

----------------------------------------------------------------------------
(* The client sends, and sends again after an answer, an error or silence.  *)
Send(r) ==
  /\ pc[r] \in {"idle", "answered", "refused", "failed"}
  /\ Goto(r, "sent")
  /\ UNCHANGED <<holder, row, effects, answer>>

(* claim: INSERT ... IN_PROGRESS in a savepoint.                            *)
AtClaim(r) == pc[r] \in {"sent", "waiting"}

Claim(r) ==
  /\ AtClaim(r) /\ holder[KeyOf[r]] = Nobody /\ row[KeyOf[r]] = Nobody
  /\ holder' = [holder EXCEPT ![KeyOf[r]] = r]
  /\ Goto(r, "working")
  /\ UNCHANGED <<row, effects, answer>>

Wait(r) ==    \* the INSERT blocks on the other transaction's uncommitted key
  /\ pc[r] = "sent" /\ holder[KeyOf[r]] # Nobody
  /\ Goto(r, "waiting")
  /\ UNCHANGED <<holder, row, effects, answer>>

SameAskIgnored(r) == row[KeyOf[r]] # Nobody    \* mutant: the stored ask is not compared

SameAsk(r) == row[KeyOf[r]] # Nobody /\ AskOf[row[KeyOf[r]]] = AskOf[r]

(* A unique violation, and the stored response of the same ask.             *)
Replay(r) ==
  /\ AtClaim(r) /\ SameAsk(r)
  /\ answer' = [answer EXCEPT ![r] = row[KeyOf[r]]]
  /\ Goto(r, "answered")
  /\ UNCHANGED <<holder, row, effects>>

(* 409: the key was used for a different request.                           *)
Refuse(r) ==
  /\ AtClaim(r) /\ row[KeyOf[r]] # Nobody /\ ~SameAsk(r)
  /\ Goto(r, "refused")
  /\ UNCHANGED <<holder, row, effects, answer>>

----------------------------------------------------------------------------
(* The work and complete() commit together, or nothing does.                *)

RecordedLater(r) == row    \* mutant: complete() is left to another transaction

RecordedAsk(r) == [row EXCEPT ![KeyOf[r]] = AskOf[r]]    \* mutant: the ask, not the response

Recorded(r) == [row EXCEPT ![KeyOf[r]] = r]

CommitWork(r) ==
  /\ pc[r] = "working"
  /\ holder'  = [holder EXCEPT ![KeyOf[r]] = Nobody]
  /\ effects' = [effects EXCEPT ![KeyOf[r]] = @ + 1]
  /\ row'     = Recorded(r)

Finish(r) ==
  /\ CommitWork(r) /\ Goto(r, "answered")
  /\ answer' = [answer EXCEPT ![r] = r]

FinishUnheard(r) ==    \* committed, but the answer never reaches the client
  CommitWork(r) /\ Goto(r, "failed") /\ UNCHANGED answer

FailHolding(r) ==    \* mutant: the claim survives the rollback of the work
  /\ pc[r] = "working" /\ Goto(r, "failed")
  /\ UNCHANGED <<holder, row, effects, answer>>

(* The work throws or the process dies: the claim is rolled back with it.   *)
Fail(r) ==
  /\ pc[r] = "working" /\ Goto(r, "failed")
  /\ holder' = [holder EXCEPT ![KeyOf[r]] = Nobody]
  /\ UNCHANGED <<row, effects, answer>>

----------------------------------------------------------------------------
Enter(r) == Claim(r) \/ Replay(r) \/ Refuse(r)
End(r)   == Finish(r) \/ FinishUnheard(r) \/ Fail(r)

KeyedNext == \E r \in Requests : Send(r) \/ Wait(r) \/ Enter(r) \/ End(r)

KeyedSpec == KeyedInit /\ [][KeyedNext]_keyedVars

(* A transaction ends; PostgreSQL does not pass over one waiting INSERT for *)
(* ever while others take and release the key (strong fairness).            *)
Fairness == \A r \in Requests : SF_keyedVars(Enter(r)) /\ WF_keyedVars(End(r))

KeyedFairSpec == KeyedSpec /\ Fairness

----------------------------------------------------------------------------
(* Properties.                                                              *)

(* Every variable has its type.                                             *)
KeyedTypeOK ==
  /\ pc \in [Requests -> States]
  /\ holder \in [Keys -> Requests \cup {Nobody}]
  /\ row \in [Keys -> Requests \cup {Nobody}]
  /\ effects \in [Keys -> Nat]
  /\ answer \in [Requests -> Requests \cup {Nobody}]

(* run() applies the work of a key once, however many copies of a request    *)
(* run and fail: it is applied exactly when the committed row says so.       *)
AppliedOnce == \A k \in Keys : effects[k] = (IF row[k] = Nobody THEN 0 ELSE 1)

(* A client that hears an answer hears that of the one application of its    *)
(* key, and that one was asked for by the same user, endpoint and payload.   *)
AnswersAreOfOneAsk ==
  \A r \in Requests : answer[r] # Nobody => /\ row[KeyOf[r]] = answer[r]
                                            /\ AskOf[answer[r]] = AskOf[r]
                                            /\ effects[KeyOf[r]] = 1

(* While a claim is open its key has no committed row, and it belongs to the *)
(* one request that is working; with the others, this is inductive.          *)
OneWorkerPerKey ==
  /\ \A r \in Requests : pc[r] = "working" <=> holder[KeyOf[r]] = r
  /\ \A k \in Keys : holder[k] # Nobody => row[k] = Nobody /\ KeyOf[holder[k]] = k
  /\ \A k \in Keys : row[k] # Nobody => KeyOf[row[k]] = k

(* Every request that is sent gets an end: no copy waits for ever on a key   *)
(* whose holder failed.                                                      *)
EveryRequestEnds ==
  \A r \in Requests : pc[r] = "sent" ~> pc[r] \in {"answered", "refused", "failed"}
============================================================================
