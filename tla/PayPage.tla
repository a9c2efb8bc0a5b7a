------------------------------ MODULE PayPage ------------------------------
(***************************************************************************)
(* The payment page of one charge, open in several browser tabs: captcha,  *)
(* one-time code, session, choice of a wallet, confirmation or cancel at   *)
(* the sandbox gateway, and the verification by the backend; or, when the  *)
(* credit line is short, a top-up paid at the real gateway, which          *)
(* completes the charge by itself.                                         *)
(*                                                                         *)
(* Codes, sessions and captchas are in the memory of the backend, which    *)
(* runs one handler at a time and switches at an await: a step here is     *)
(* what runs between two of them.  The sandbox gateway reads an intent,    *)
(* and saves it later, without a lock.                                     *)
(***************************************************************************)
EXTENDS Naturals, FiniteSets

CONSTANTS
  Users, Tabs,
  Codes,      \* identities of one-time codes: a bound on how many are sent
  Captchas,   \* identities of captchas: a bound likewise
  NoUser, NoCode,
  MaxRestarts \* bound on restarts of the backend

ASSUME NullAssumption == NoUser \notin Users /\ NoCode \notin Codes
ASSUME BoundAssumption == MaxRestarts \in Nat

Intents == {"INITIATED", "AUTHORIZED", "CANCELED", "EXPIRED", "VERIFIED"}
Steps == {"idle", "asking", "sending", "checking", "opening", "choosing",
          "attaching", "agreeing", "topping", "initiating", "linking",
          "confirming", "canceling"}

\* What the gateway's verify saves.
Saves == {"EXPIRED", "VERIFIED"}

VARIABLES
  charge,    \* status and payer of the PURCHASE row
  verifying, \* how far the verification that holds the row is
  intent,    \* status of the gateway's intent, and whether expiresAt is past
  adrift,    \* adrift[s]: saves of status s a verify of the gateway still owes
             \* though the backend that called it restarted
  topup,     \* the charge's support top-ups: "none", "asked" for, one "paid"
  otp,       \* the entry of the charge in otps
  captcha,   \* captcha[c]: "unseen", "live" or "spent"
  session,   \* session[t]: whose session the tab has; NoUser without a valid one
  tab,       \* tab[t]: the handler at work for a tab, and its local user
  restarts,
  sentTo,    \* history: who a code was made for
  passed,    \* history: how often a code was accepted
  confirmed  \* history: the customer's confirmation was accepted

memory  == <<otp, captcha, session>>
gateway == <<intent, adrift, topup, confirmed>>
history == <<sentTo, passed>>
vars == <<charge, verifying, tab, restarts, memory, gateway, history>>

NoEntry == [code |-> NoCode, user |-> NoUser, used |-> FALSE, lapsed |-> FALSE]
AtRest  == [step |-> "idle", user |-> NoUser]

Init ==
  /\ charge = [status |-> "PENDING", payer |-> NoUser] /\ verifying = "no"
  /\ intent = [status |-> "INITIATED", lapsed |-> FALSE]
  /\ adrift = [s \in Saves |-> 0] /\ topup = "none" /\ confirmed = FALSE
  /\ otp = NoEntry /\ captcha = [c \in Captchas |-> "unseen"]
  /\ session = [t \in Tabs |-> NoUser]
  /\ tab = [t \in Tabs |-> AtRest] /\ restarts = 0
  /\ sentTo = [c \in Codes |-> NoUser] /\ passed = [c \in Codes |-> 0]

----------------------------------------------------------------------------
(* What the handlers share.                                                 *)

Pending == charge.status = "PENDING"

Begin(t, step, u) ==
  /\ tab[t].step = "idle" /\ tab' = [tab EXCEPT ![t] = [step |-> step, user |-> u]]
Goes(t, step, u) == tab' = [tab EXCEPT ![t] = [step |-> step, user |-> u]]
Ends(t) == tab' = [tab EXCEPT ![t] = AtRest]

----------------------------------------------------------------------------
(* Captcha and one-time code.                                               *)

RequestCaptcha(c) ==
  /\ captcha[c] = "unseen" /\ captcha' = [captcha EXCEPT ![c] = "live"]
  /\ UNCHANGED <<charge, verifying, tab, restarts, otp, session, gateway, history>>

RequestOtp(t, u) ==
  /\ Pending /\ Begin(t, "asking", u)
  /\ UNCHANGED <<charge, verifying, restarts, memory, gateway, history>>

SolveCaptcha(t, c) ==
  /\ tab[t].step = "asking"
  /\ \/ captcha[c] = "live" /\ captcha' = [captcha EXCEPT ![c] = "spent"]
        /\ (Goes(t, "sending", tab[t].user) \/ Ends(t))    \* or an unknown phone
     \/ UNCHANGED captcha /\ Ends(t)    \* a wrong answer, or one used before
  /\ UNCHANGED <<charge, verifying, restarts, otp, session, gateway, history>>

\* Mutants: a resent code leaves the entry's owner as it was; or has none.
EntryOfFirst(c, u) == [code |-> c, user |-> IF otp.user = NoUser THEN u ELSE otp.user,
                       used |-> FALSE, lapsed |-> FALSE]
EntryUnowned(c, u) == [code |-> c, user |-> NoUser, used |-> FALSE, lapsed |-> FALSE]

Entry(c, u) == [code |-> c, user |-> u, used |-> FALSE, lapsed |-> FALSE]

GenerateOtp(t, c) ==
  /\ tab[t].step = "sending" /\ sentTo[c] = NoUser
  /\ otp' = Entry(c, tab[t].user) /\ sentTo' = [sentTo EXCEPT ![c] = tab[t].user]
  /\ Ends(t)
  /\ UNCHANGED <<charge, verifying, restarts, captcha, session, gateway, passed>>

VerifyOtp(t) ==
  /\ Pending /\ Begin(t, "checking", NoUser)
  /\ UNCHANGED <<charge, verifying, restarts, memory, gateway, history>>

\* Mutant: a code stays good until it lapses.
AcceptedAgain(c) == otp.code = c /\ ~otp.lapsed

Accepted(c) == otp.code = c /\ ~otp.used /\ ~otp.lapsed

CheckOtp(t, c) ==
  /\ tab[t].step = "checking" /\ sentTo[c] # NoUser
  /\ IF Accepted(c)
     THEN /\ otp' = [otp EXCEPT !.used = TRUE] /\ Goes(t, "opening", otp.user)
          /\ passed' = [passed EXCEPT ![c] = @ + 1]
     ELSE UNCHANGED <<otp, passed>> /\ Ends(t)
  /\ UNCHANGED <<charge, verifying, restarts, captcha, session, gateway, sentTo>>

CreateSession(t) ==
  /\ tab[t].step = "opening"
  /\ session' = [session EXCEPT ![t] = tab[t].user] /\ Ends(t)
  /\ UNCHANGED <<charge, verifying, restarts, otp, captcha, gateway, history>>

\* That a used code, or an intent past INITIATED, lapses too changes nothing.
OtpLapses ==
  /\ otp.code # NoCode /\ ~otp.used /\ ~otp.lapsed /\ otp' = [otp EXCEPT !.lapsed = TRUE]
  /\ UNCHANGED <<charge, verifying, tab, restarts, captcha, session, gateway, history>>

SessionLapses(t) ==
  /\ session[t] # NoUser /\ session' = [session EXCEPT ![t] = NoUser]
  /\ UNCHANGED <<charge, verifying, tab, restarts, otp, captcha, gateway, history>>

----------------------------------------------------------------------------
(* Choosing the wallet.                                                     *)

AttachWallet(t) ==
  /\ Pending /\ Begin(t, "choosing", NoUser)
  /\ UNCHANGED <<charge, verifying, restarts, memory, gateway, history>>

ConfirmSupportTopUp(t) ==
  /\ Pending /\ Begin(t, "agreeing", NoUser)
  /\ UNCHANGED <<charge, verifying, restarts, memory, gateway, history>>

Chosen(step) == IF step = "choosing" THEN "attaching" ELSE "topping"

\* Without a session, or with a wallet that cannot be used or is not short, it ends.
ResolveSession(t) ==
  /\ tab[t].step \in {"choosing", "agreeing"}
  /\ \/ session[t] # NoUser /\ Goes(t, Chosen(tab[t].step), session[t])
     \/ Ends(t)
  /\ UNCHANGED <<charge, verifying, restarts, memory, gateway, history>>

\* One UPDATE ... WHERE, which waits for the row.
AttachPurchaseWallet(t) ==
  /\ tab[t].step \in {"attaching", "topping"} /\ verifying = "no"
  /\ charge' = IF Pending /\ charge.payer = NoUser
               THEN [charge EXCEPT !.payer = tab[t].user] ELSE charge
  /\ IF tab[t].step = "attaching" THEN Ends(t) ELSE Goes(t, "initiating", NoUser)
  /\ UNCHANGED <<verifying, restarts, memory, gateway, history>>

Verifiable == Pending /\ charge.payer # NoUser

\* It reads the top-ups and the charge; an open top-up is handed back.
InitiateSupportTopUp(t) ==
  /\ tab[t].step = "initiating"
  /\ (Verifiable /\ Goes(t, "linking", NoUser)) \/ Ends(t)
  /\ UNCHANGED <<charge, verifying, restarts, memory, gateway, history>>

\* The update of expiresAt waits for the row; then the top-up is saved.
SaveSupportTopUp(t) ==
  /\ tab[t].step = "linking" /\ verifying = "no" /\ Ends(t)
  /\ topup' = IF topup = "none" THEN "asked" ELSE topup
  /\ UNCHANGED <<charge, verifying, restarts, memory, intent, adrift, confirmed, history>>

----------------------------------------------------------------------------
(* The sandbox gateway.                                                     *)

EffectiveStatus == IF intent.status = "INITIATED" /\ intent.lapsed THEN "EXPIRED"
                   ELSE intent.status

Confirm(t) ==
  /\ EffectiveStatus = "INITIATED" /\ Begin(t, "confirming", NoUser)
  /\ UNCHANGED <<charge, verifying, restarts, memory, gateway, history>>

Cancel(t) ==
  /\ EffectiveStatus = "INITIATED" /\ Begin(t, "canceling", NoUser)
  /\ UNCHANGED <<charge, verifying, restarts, memory, gateway, history>>

SaveConfirmed(t) ==
  /\ tab[t].step = "confirming" /\ Ends(t)
  /\ intent' = [intent EXCEPT !.status = "AUTHORIZED"] /\ confirmed' = TRUE
  /\ UNCHANGED <<charge, verifying, restarts, memory, adrift, topup, history>>

SaveCanceled(t) ==
  /\ tab[t].step = "canceling" /\ Ends(t)
  /\ intent' = [intent EXCEPT !.status = "CANCELED"]
  /\ UNCHANGED <<charge, verifying, restarts, memory, adrift, topup, confirmed, history>>

IntentLapses ==
  /\ intent.status = "INITIATED" /\ ~intent.lapsed /\ intent' = [intent EXCEPT !.lapsed = TRUE]
  /\ UNCHANGED <<charge, verifying, tab, restarts, memory, adrift, topup, confirmed, history>>

----------------------------------------------------------------------------
(* The backend's verification and the end of a charge.                      *)

VerifyPurchase ==
  /\ verifying = "no" /\ Verifiable /\ verifying' = "holding"
  /\ UNCHANGED <<charge, tab, restarts, memory, gateway, history>>

\* The gateway saves what it read of the intent after an await.
VerifyRead ==
  /\ verifying = "holding"
  /\ verifying' = CASE EffectiveStatus = "AUTHORIZED" -> "VERIFIED"
                    [] EffectiveStatus = "EXPIRED" -> "EXPIRED"
                    [] OTHER -> "no"
  /\ UNCHANGED <<charge, tab, restarts, memory, gateway, history>>

VerifySave ==
  /\ verifying \in Saves /\ intent' = [intent EXCEPT !.status = verifying]
  /\ verifying' = IF verifying = "VERIFIED" THEN "captured" ELSE "no"
  /\ UNCHANGED <<charge, tab, restarts, memory, adrift, topup, confirmed, history>>

SaveAdrift(s) ==
  /\ adrift[s] > 0 /\ adrift' = [adrift EXCEPT ![s] = @ - 1]
  /\ intent' = [intent EXCEPT !.status = s]
  /\ UNCHANGED <<charge, verifying, tab, restarts, memory, topup, confirmed, history>>

VerifySettle ==
  /\ verifying = "captured" /\ verifying' = "no"
  /\ charge' = [charge EXCEPT !.status = "COMPLETED"]
  /\ UNCHANGED <<tab, restarts, memory, gateway, history>>

\* The gateway cannot be reached, or a check of the settlement throws: rolled back.
VerifyReject ==
  /\ verifying \in {"holding", "captured"} /\ verifying' = "no"
  /\ UNCHANGED <<charge, tab, restarts, memory, gateway, history>>

\* The customer pays at the real gateway, whose verification says so.
PayTopUp ==
  /\ topup = "asked" /\ topup' = "paid"
  /\ UNCHANGED <<charge, verifying, tab, restarts, memory, intent, adrift, confirmed, history>>

\* A REVERSED charge too is settled; the row's lock waits for its verification.
CompleteSupportTopUp ==
  /\ topup = "paid" /\ verifying = "no"
  /\ charge.payer # NoUser /\ charge.status # "COMPLETED"
  /\ charge' = [charge EXCEPT !.status = "COMPLETED"]
  /\ UNCHANGED <<verifying, tab, restarts, memory, gateway, history>>

\* cancelPendingPurchase or the timeout sweep
Reverse ==
  /\ Pending /\ verifying = "no" /\ charge' = [charge EXCEPT !.status = "REVERSED"]
  /\ UNCHANGED <<verifying, tab, restarts, memory, gateway, history>>

\* The backend's maps and handlers are gone; the gateway's handlers go on.
AtGateway(t) == tab[t].step \in {"confirming", "canceling"}

Restart ==
  /\ restarts < MaxRestarts /\ restarts' = restarts + 1
  /\ otp' = NoEntry /\ session' = [t \in Tabs |-> NoUser]
  /\ captcha' = [c \in Captchas |-> IF captcha[c] = "live" THEN "spent" ELSE captcha[c]]
  /\ tab' = [t \in Tabs |-> IF AtGateway(t) THEN tab[t] ELSE AtRest]
  /\ verifying' = "no"
  /\ adrift' = IF verifying \in Saves THEN [adrift EXCEPT ![verifying] = @ + 1] ELSE adrift
  /\ UNCHANGED <<charge, intent, topup, confirmed, history>>

Next ==
  \/ \E c \in Captchas : RequestCaptcha(c)
  \/ \E t \in Tabs :
       \/ \E u \in Users : RequestOtp(t, u)
       \/ \E c \in Captchas : SolveCaptcha(t, c)
       \/ \E c \in Codes : GenerateOtp(t, c) \/ CheckOtp(t, c)
       \/ VerifyOtp(t) \/ CreateSession(t) \/ SessionLapses(t)
       \/ AttachWallet(t) \/ ResolveSession(t) \/ AttachPurchaseWallet(t)
       \/ ConfirmSupportTopUp(t) \/ InitiateSupportTopUp(t) \/ SaveSupportTopUp(t)
       \/ Confirm(t) \/ Cancel(t) \/ SaveConfirmed(t) \/ SaveCanceled(t)
  \/ OtpLapses \/ IntentLapses \/ Reverse \/ Restart
  \/ VerifyPurchase \/ VerifyRead \/ VerifySave \/ VerifySettle \/ VerifyReject
  \/ (\E s \in Saves : SaveAdrift(s)) \/ PayTopUp \/ CompleteSupportTopUp

Spec == Init /\ [][Next]_vars

----------------------------------------------------------------------------
(* What must hold.                                                          *)

TypeOK ==
  /\ charge \in [status : {"PENDING", "COMPLETED", "REVERSED"}, payer : Users \cup {NoUser}]
  /\ verifying \in {"no", "holding", "captured"} \cup Saves
  /\ adrift \in [Saves -> Nat] /\ topup \in {"none", "asked", "paid"}
  /\ intent \in [status : Intents, lapsed : BOOLEAN]
  /\ otp = NoEntry \/ otp \in [code : Codes, user : Users, used : BOOLEAN, lapsed : BOOLEAN]
  /\ captcha \in [Captchas -> {"unseen", "live", "spent"}]
  /\ session \in [Tabs -> Users \cup {NoUser}]
  /\ tab \in [Tabs -> [step : Steps, user : Users \cup {NoUser}]]
  /\ restarts \in 0..MaxRestarts /\ confirmed \in BOOLEAN
  /\ sentTo \in [Codes -> Users \cup {NoUser}] /\ passed \in [Codes -> Nat]

\* "a matched code is immediately marked used so replaying it (or racing two
\* verify calls) can't succeed twice": also across resends, tabs and restarts.
CodeUsedOnce == \A c \in Codes : passed[c] <= 1

\* A charge is completed only with the wallet of a customer who entered a code
\* made for them on this page, and only after a confirmation at the sandbox
\* gateway or a top-up of this charge paid at the real one, whatever was
\* resent, overwritten, reversed or lost in between.
ChargedWithConsent ==
  charge.status = "COMPLETED" =>
    /\ confirmed \/ topup = "paid"
    /\ \E c \in Codes : sentTo[c] = charge.payer /\ passed[c] > 0
=============================================================================
