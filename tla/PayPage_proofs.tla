--------------------------- MODULE PayPage_proofs ---------------------------
(***************************************************************************)
(* Proofs about PayPage for any number of users, tabs, codes, captchas and *)
(* restarts: a code opens at most one session, and a charge is completed   *)
(* only with the wallet of someone who entered a code of theirs, after a   *)
(* confirmation or a paid top-up.                                          *)
(*                                                                         *)
(* The invariant follows the right to pay from hand to hand: an accepted   *)
(* code proves its owner (CodeBook), and only who is proven is ever the    *)
(* user of an opening or attaching handler, of a session or of the charge  *)
(* (Holders); what the gateway and the verification have read since, and   *)
(* what the gateway still saves, is only there after a confirmation        *)
(* (Consent).                                                              *)
(***************************************************************************)
EXTENDS PayPage, TLAPS

(* Who has entered a code that was made for them.                           *)
Proven == {u \in Users : \E c \in Codes : sentTo[c] = u /\ passed[c] > 0}

(* A code that was never made was never accepted, and the entry's code, if   *)
(* it is not used, was not accepted yet; the entry is its owner's.          *)
CodeBook ==
  /\ \A c \in Codes : passed[c] <= 1 /\ (sentTo[c] = NoUser => passed[c] = 0)
  /\ otp.code # NoCode => /\ sentTo[otp.code] = otp.user
                          /\ ~otp.used => passed[otp.code] = 0

(* Steps of the handlers that know a user, and of those whose user entered. *)
Entered == {"opening", "attaching", "topping"}
Known == {"asking", "sending"} \cup Entered

(* Who is known to a handler is a user, and who may choose a wallet or has   *)
(* chosen one is proven.                                                    *)
Holders ==
  /\ \A t \in Tabs : tab[t].step \in Known
                       => tab[t].user \in Users
  /\ \A t \in Tabs : tab[t].step \in Entered => tab[t].user \in Proven
  /\ \A t \in Tabs : session[t] # NoUser => session[t] \in Proven
  /\ charge.payer # NoUser => charge.payer \in Proven

(* An intent is AUTHORIZED or VERIFIED, or about to be, and a verification    *)
(* past its read only after a confirmation; a verification has a payer.     *)
Consent ==
  /\ intent.status \in {"AUTHORIZED", "VERIFIED"} => confirmed
  /\ verifying \in {"VERIFIED", "captured"} => confirmed
  /\ adrift["VERIFIED"] > 0 => confirmed
  /\ verifying # "no" => charge.payer # NoUser
  /\ charge.status = "COMPLETED" =>
       (confirmed \/ topup = "paid") /\ charge.payer # NoUser

IInv == TypeOK /\ CodeBook /\ Holders /\ Consent

----------------------------------------------------------------------------
LEMMA InitIInv == Init => IInv
<1> SUFFICES ASSUME Init PROVE IInv
  OBVIOUS
<1>1. TypeOK
  <2>1. /\ charge \in [status : {"PENDING", "COMPLETED", "REVERSED"}, payer : Users \cup {NoUser}]
        /\ intent \in [status : Intents, lapsed : BOOLEAN]
    BY DEF Init, Intents
  <2>2. tab \in [Tabs -> [step : Steps, user : Users \cup {NoUser}]]
    BY DEF Init, Steps, AtRest
  <2>3. /\ captcha \in [Captchas -> {"unseen", "live", "spent"}]
        /\ session \in [Tabs -> Users \cup {NoUser}]
        /\ restarts \in 0..MaxRestarts /\ adrift \in [Saves -> Nat]
        /\ sentTo \in [Codes -> Users \cup {NoUser}] /\ passed \in [Codes -> Nat]
    BY BoundAssumption DEF Init
  <2> QED
    BY <2>1, <2>2, <2>3, Zenon DEF Init, TypeOK
<1>2. CodeBook /\ Holders /\ Consent
  BY NullAssumption DEF Init, CodeBook, Holders, Consent, NoEntry, AtRest, Known, Entered, Saves
<1> QED
  BY <1>1, <1>2 DEF IInv

----------------------------------------------------------------------------
(* Types.                                                                   *)

LEMMA OtpType ==
  ASSUME TypeOK
  PROVE  /\ otp.code # NoCode => otp \in [code : Codes, user : Users, used : BOOLEAN, lapsed : BOOLEAN]
         /\ otp.user \in Users \cup {NoUser} /\ otp.code \in Codes \cup {NoCode}
BY DEF TypeOK, NoEntry

(* A handler's step leaves the other tabs as they were.                     *)
LEMMA TabType ==
  ASSUME TypeOK, NEW t \in Tabs, NEW step \in Steps, NEW u \in Users \cup {NoUser},
         tab' = [tab EXCEPT ![t] = [step |-> step, user |-> u]]
  PROVE  /\ tab' \in [Tabs -> [step : Steps, user : Users \cup {NoUser}]]
         /\ tab'[t] = [step |-> step, user |-> u]
         /\ \A s \in Tabs \ {t} : tab'[s] = tab[s]
BY DEF TypeOK

LEMMA EndsType ==
  ASSUME TypeOK, NEW t \in Tabs, Ends(t)
  PROVE  /\ tab' \in [Tabs -> [step : Steps, user : Users \cup {NoUser}]]
         /\ tab'[t] = AtRest
         /\ \A s \in Tabs \ {t} : tab'[s] = tab[s]
BY TabType DEF Ends, AtRest, Steps

LEMMA PageTypes ==
  ASSUME IInv, NEW t \in Tabs,
         \/ \E u \in Users : RequestOtp(t, u)
         \/ \E c \in Captchas : SolveCaptcha(t, c)
         \/ \E c \in Codes : GenerateOtp(t, c) \/ CheckOtp(t, c)
         \/ VerifyOtp(t) \/ CreateSession(t) \/ SessionLapses(t)
  PROVE  TypeOK'
<1>1. TypeOK /\ Holders /\ tab[t].user \in Users \cup {NoUser}
  BY DEF IInv, TypeOK
<1>2. ASSUME NEW u \in Users, RequestOtp(t, u) PROVE TypeOK'
  <2>1. tab' \in [Tabs -> [step : Steps, user : Users \cup {NoUser}]]
    BY <1>1, <1>2, TabType DEF RequestOtp, Begin, Steps
  <2> QED
    BY <1>1, <1>2, <2>1, Zenon DEF RequestOtp, TypeOK, memory, gateway, history
<1>3. ASSUME NEW c \in Captchas, SolveCaptcha(t, c) PROVE TypeOK'
  <2>1. tab' \in [Tabs -> [step : Steps, user : Users \cup {NoUser}]]
    BY <1>1, <1>3, TabType, EndsType DEF SolveCaptcha, Goes, Steps
  <2>2. captcha' \in [Captchas -> {"unseen", "live", "spent"}]
    BY <1>1, <1>3 DEF SolveCaptcha, TypeOK
  <2> QED
    BY <1>1, <1>3, <2>1, <2>2, Zenon DEF SolveCaptcha, TypeOK, gateway, history
<1>4. ASSUME NEW c \in Codes, GenerateOtp(t, c) PROVE TypeOK'
  <2>1. tab' \in [Tabs -> [step : Steps, user : Users \cup {NoUser}]]
    BY <1>1, <1>4, EndsType DEF GenerateOtp
  <2>2. tab[t].user \in Users
    BY <1>1, <1>4 DEF GenerateOtp, Holders, Known
  <2>3. /\ otp' \in [code : Codes, user : Users, used : BOOLEAN, lapsed : BOOLEAN]
        /\ sentTo' \in [Codes -> Users \cup {NoUser}]
    BY <1>1, <1>4, <2>2 DEF GenerateOtp, Entry, TypeOK
  <2> QED
    BY <1>1, <1>4, <2>1, <2>3, Zenon DEF GenerateOtp, TypeOK, gateway
<1>5. ASSUME NEW c \in Codes, CheckOtp(t, c) PROVE TypeOK'
  <2>1. otp.user \in Users \cup {NoUser}
    BY <1>1, OtpType
  <2>2. tab' \in [Tabs -> [step : Steps, user : Users \cup {NoUser}]]
    BY <1>1, <1>5, <2>1, TabType, EndsType DEF CheckOtp, Goes, Steps
  <2>3. passed' \in [Codes -> Nat]
    BY <1>1, <1>5 DEF CheckOtp, TypeOK
  <2>4. otp' = NoEntry \/ otp' \in [code : Codes, user : Users, used : BOOLEAN, lapsed : BOOLEAN]
    <3>1. CASE Accepted(c)
      <4>1. otp \in [code : Codes, user : Users, used : BOOLEAN, lapsed : BOOLEAN]
        BY <1>1, <3>1, OtpType, NullAssumption DEF Accepted
      <4> QED
        BY <1>5, <3>1, <4>1 DEF CheckOtp
    <3>2. CASE ~Accepted(c)
      BY <1>1, <1>5, <3>2 DEF CheckOtp, TypeOK
    <3> QED
      BY <3>1, <3>2
  <2> QED
    BY <1>1, <1>5, <2>2, <2>3, <2>4, Zenon DEF CheckOtp, TypeOK, gateway
<1>6. CASE VerifyOtp(t)
  <2>1. tab' \in [Tabs -> [step : Steps, user : Users \cup {NoUser}]]
    BY <1>1, <1>6, TabType DEF VerifyOtp, Begin, Steps
  <2> QED
    BY <1>1, <1>6, <2>1, Zenon DEF VerifyOtp, TypeOK, memory, gateway, history
<1>7. CASE CreateSession(t)
  <2>1. tab' \in [Tabs -> [step : Steps, user : Users \cup {NoUser}]]
    BY <1>1, <1>7, EndsType DEF CreateSession
  <2>2. session' \in [Tabs -> Users \cup {NoUser}]
    BY <1>1, <1>7 DEF CreateSession, TypeOK
  <2> QED
    BY <1>1, <1>7, <2>1, <2>2, Zenon DEF CreateSession, TypeOK, gateway, history
<1>8. CASE SessionLapses(t)
  <2>1. session' \in [Tabs -> Users \cup {NoUser}]
    BY <1>1, <1>8 DEF SessionLapses, TypeOK
  <2> QED
    BY <1>1, <1>8, <2>1, Zenon DEF SessionLapses, TypeOK, gateway, history
<1> QED
  BY <1>2, <1>3, <1>4, <1>5, <1>6, <1>7, <1>8

LEMMA WalletTypes ==
  ASSUME IInv, NEW t \in Tabs,
         \/ AttachWallet(t) \/ ResolveSession(t) \/ AttachPurchaseWallet(t)
         \/ ConfirmSupportTopUp(t) \/ InitiateSupportTopUp(t) \/ SaveSupportTopUp(t)
         \/ Confirm(t) \/ Cancel(t) \/ SaveConfirmed(t) \/ SaveCanceled(t)
  PROVE  TypeOK'
<1>1. /\ TypeOK /\ tab[t].user \in Users \cup {NoUser} /\ session[t] \in Users \cup {NoUser}
      /\ NoUser \in Users \cup {NoUser}
  BY DEF IInv, TypeOK
<1>2. tab' \in [Tabs -> [step : Steps, user : Users \cup {NoUser}]]
  BY <1>1, TabType, EndsType DEF AttachWallet, ResolveSession, AttachPurchaseWallet,
     ConfirmSupportTopUp, InitiateSupportTopUp, SaveSupportTopUp, Confirm, Cancel, SaveConfirmed,
     SaveCanceled, Begin, Goes, Chosen, Steps
<1>3. CASE AttachWallet(t) \/ ResolveSession(t) \/ ConfirmSupportTopUp(t)
             \/ InitiateSupportTopUp(t) \/ Confirm(t) \/ Cancel(t)
  BY <1>1, <1>2, <1>3, Zenon DEF AttachWallet, ResolveSession, ConfirmSupportTopUp,
     InitiateSupportTopUp, Confirm, Cancel, TypeOK, memory, gateway, history
<1>4. CASE AttachPurchaseWallet(t)
  <2>1. charge' \in [status : {"PENDING", "COMPLETED", "REVERSED"}, payer : Users \cup {NoUser}]
    BY <1>1, <1>4 DEF AttachPurchaseWallet, TypeOK
  <2> QED
    BY <1>1, <1>2, <1>4, <2>1, Zenon DEF AttachPurchaseWallet, TypeOK, memory, gateway, history
<1>5. CASE SaveConfirmed(t) \/ SaveCanceled(t)
  <2>1. intent' \in [status : Intents, lapsed : BOOLEAN] /\ confirmed' \in BOOLEAN
    BY <1>1, <1>5 DEF SaveConfirmed, SaveCanceled, TypeOK, Intents
  <2> QED
    BY <1>1, <1>2, <1>5, <2>1, Zenon DEF SaveConfirmed, SaveCanceled, TypeOK, memory, history
<1>6. CASE SaveSupportTopUp(t)
  <2>1. topup' \in {"none", "asked", "paid"}
    BY <1>1, <1>6 DEF SaveSupportTopUp, TypeOK
  <2> QED
    BY <1>1, <1>2, <1>6, <2>1, Zenon DEF SaveSupportTopUp, TypeOK, memory, history
<1> QED
  BY <1>3, <1>4, <1>5, <1>6

LEMMA BackendTypes ==
  ASSUME IInv,
         \/ \E c \in Captchas : RequestCaptcha(c)
         \/ OtpLapses \/ IntentLapses \/ Reverse \/ Restart
         \/ VerifyPurchase \/ VerifyRead \/ VerifySave \/ VerifySettle \/ VerifyReject
         \/ (\E s \in Saves : SaveAdrift(s)) \/ PayTopUp \/ CompleteSupportTopUp
  PROVE  TypeOK'
<1>1. TypeOK
  BY DEF IInv
<1>2. ASSUME NEW c \in Captchas, RequestCaptcha(c) PROVE TypeOK'
  <2>1. captcha' \in [Captchas -> {"unseen", "live", "spent"}]
    BY <1>1, <1>2 DEF RequestCaptcha, TypeOK
  <2> QED
    BY <1>1, <1>2, <2>1, Zenon DEF RequestCaptcha, TypeOK, gateway, history
<1>3. CASE OtpLapses
  <2>1. otp' \in [code : Codes, user : Users, used : BOOLEAN, lapsed : BOOLEAN]
    BY <1>1, <1>3, OtpType DEF OtpLapses
  <2> QED
    BY <1>1, <1>3, <2>1, Zenon DEF OtpLapses, TypeOK, gateway, history
<1>4. CASE IntentLapses \/ VerifyRead \/ VerifySave
  <2>1. /\ intent' \in [status : Intents, lapsed : BOOLEAN]
        /\ verifying' \in {"no", "holding", "captured"} \cup Saves
    <3>1. /\ intent \in [status : Intents, lapsed : BOOLEAN]
          /\ verifying \in {"no", "holding", "captured"} \cup Saves
      BY <1>1 DEF TypeOK
    <3>2. CASE IntentLapses
      BY <3>1, <3>2 DEF IntentLapses, gateway
    <3>3. CASE VerifyRead
      BY <3>1, <3>3 DEF VerifyRead, Saves, gateway
    <3>4. CASE VerifySave
      BY <3>1, <3>4 DEF VerifySave, Saves, Intents
    <3> QED
      BY <1>4, <3>2, <3>3, <3>4
  <2> QED
    BY <1>1, <1>4, <2>1, Zenon DEF IntentLapses, VerifyRead, VerifySave, TypeOK, memory,
       gateway, history
<1>5. CASE Reverse \/ VerifyPurchase \/ VerifySettle \/ VerifyReject \/ CompleteSupportTopUp
  <2>1. /\ charge' \in [status : {"PENDING", "COMPLETED", "REVERSED"}, payer : Users \cup {NoUser}]
        /\ verifying' \in {"no", "holding", "captured"} \cup Saves
    BY <1>1, <1>5 DEF Reverse, VerifyPurchase, VerifySettle, VerifyReject,
       CompleteSupportTopUp, TypeOK
  <2> QED
    BY <1>1, <1>5, <2>1, Zenon DEF Reverse, VerifyPurchase, VerifySettle, VerifyReject,
       CompleteSupportTopUp, TypeOK, memory, gateway, history
<1>6. CASE Restart
  <2>1. /\ captcha' \in [Captchas -> {"unseen", "live", "spent"}]
        /\ session' \in [Tabs -> Users \cup {NoUser}]
        /\ verifying' \in {"no", "holding", "captured"} \cup Saves
    BY <1>1, <1>6 DEF Restart, TypeOK
  <2>2. restarts' \in 0..MaxRestarts
    BY <1>1, <1>6, BoundAssumption DEF Restart, TypeOK
  <2>3. tab' \in [Tabs -> [step : Steps, user : Users \cup {NoUser}]]
    BY <1>1, <1>6 DEF Restart, TypeOK, AtRest, Steps
  <2>4. adrift' \in [Saves -> Nat]
    BY <1>1, <1>6 DEF Restart, TypeOK
  <2> QED
    BY <1>1, <1>6, <2>1, <2>2, <2>3, <2>4, Zenon DEF Restart, TypeOK, history
<1>7. ASSUME NEW s \in Saves, SaveAdrift(s) PROVE TypeOK'
  <2>1. adrift' \in [Saves -> Nat]
    BY <1>1, <1>7 DEF SaveAdrift, TypeOK
  <2>2. intent' \in [status : Intents, lapsed : BOOLEAN]
    BY <1>1, <1>7 DEF SaveAdrift, TypeOK, Saves, Intents
  <2> QED
    BY <1>1, <1>7, <2>1, <2>2, Zenon DEF SaveAdrift, TypeOK, memory, history
<1>8. CASE PayTopUp
  BY <1>1, <1>8, Zenon DEF PayTopUp, TypeOK, memory, history
<1> QED
  BY <1>2, <1>3, <1>4, <1>5, <1>6, <1>7, <1>8

LEMMA NextTypes == ASSUME IInv, [Next]_vars PROVE TypeOK'
<1>1. CASE Next
  BY <1>1, PageTypes, WalletTypes, BackendTypes DEF Next
<1>2. CASE UNCHANGED vars
  BY <1>2, Zenon DEF IInv, TypeOK, vars, memory, gateway, history
<1> QED
  BY <1>1, <1>2

----------------------------------------------------------------------------
(* Codes.                                                                   *)

(* A resent code is one nobody was sent before, so nobody entered it yet; a  *)
(* code is accepted once, because that marks the entry that has it.         *)
LEMMA NextCodes ==
  ASSUME IInv, [Next]_vars
  PROVE  CodeBook'
<1>1. TypeOK /\ CodeBook /\ Holders
  BY DEF IInv
<1>2. /\ sentTo \in [Codes -> Users \cup {NoUser}] /\ passed \in [Codes -> Nat]
      /\ otp.code \in Codes \cup {NoCode}
  BY <1>1, OtpType DEF TypeOK
<1>3. ASSUME UNCHANGED <<otp, history>> PROVE CodeBook'
  BY <1>1, <1>3 DEF CodeBook, history
<1>4. ASSUME NEW t \in Tabs, NEW c \in Codes, GenerateOtp(t, c) PROVE CodeBook'
  <2> DEFINE u == tab[t].user
  <2>1. /\ sentTo[c] = NoUser /\ sentTo' = [sentTo EXCEPT ![c] = u] /\ passed' = passed
        /\ otp'.code = c /\ otp'.user = u /\ tab[t].step = "sending"
    BY <1>4 DEF GenerateOtp, Entry
  <2>2. u \in Users /\ passed[c] = 0
    BY <1>1, <2>1 DEF Holders, Known, CodeBook
  <2> HIDE DEF u
  <2>3. \A d \in Codes : passed'[d] <= 1 /\ (sentTo'[d] = NoUser => passed'[d] = 0)
    BY <1>1, <1>2, <2>1, <2>2, NullAssumption DEF CodeBook
  <2>4. sentTo'[otp'.code] = otp'.user /\ passed'[otp'.code] = 0
    BY <1>2, <2>1, <2>2
  <2> QED
    BY <2>3, <2>4 DEF CodeBook
<1>5. ASSUME NEW t \in Tabs, NEW c \in Codes, CheckOtp(t, c) PROVE CodeBook'
  <2>1. CASE ~Accepted(c)
    BY <1>3, <1>5, <2>1 DEF CheckOtp, history
  <2>2. CASE Accepted(c)
    <3>1. /\ otp.code = c /\ ~otp.used /\ sentTo[c] # NoUser /\ sentTo' = sentTo
          /\ passed' = [passed EXCEPT ![c] = passed[c] + 1] /\ otp' = [otp EXCEPT !.used = TRUE]
      BY <1>5, <2>2 DEF CheckOtp, Accepted
    <3>2. passed[c] = 0 /\ sentTo[c] = otp.user
      BY <1>1, <3>1, NullAssumption DEF CodeBook
    <3>3. otp \in [code : Codes, user : Users, used : BOOLEAN, lapsed : BOOLEAN]
      BY <1>1, <3>1, OtpType, NullAssumption
    <3>4. otp'.code = c /\ otp'.user = otp.user /\ otp'.used
      BY <3>1, <3>3
    <3>5. \A d \in Codes : passed'[d] <= 1 /\ (sentTo'[d] = NoUser => passed'[d] = 0)
      BY <1>1, <1>2, <3>1, <3>2 DEF CodeBook
    <3> QED
      BY <3>1, <3>2, <3>4, <3>5 DEF CodeBook
  <2> QED
    BY <2>1, <2>2
<1>6. CASE OtpLapses
  <2>1. otp \in [code : Codes, user : Users, used : BOOLEAN, lapsed : BOOLEAN]
    BY <1>1, <1>6, OtpType DEF OtpLapses
  <2>2. otp'.code = otp.code /\ otp'.user = otp.user /\ otp'.used = otp.used
    BY <1>6, <2>1 DEF OtpLapses
  <2> QED
    BY <1>1, <1>6, <2>2 DEF OtpLapses, CodeBook, history
<1>7. CASE Restart
  <2>1. otp'.code = NoCode /\ UNCHANGED history
    BY <1>7 DEF Restart, NoEntry
  <2> QED
    BY <1>1, <2>1 DEF CodeBook, history
<1>8. CASE \E t \in Tabs : \/ \E u \in Users : RequestOtp(t, u)
                           \/ \E c \in Captchas : SolveCaptcha(t, c)
                           \/ VerifyOtp(t) \/ CreateSession(t) \/ SessionLapses(t)
                           \/ AttachWallet(t) \/ ResolveSession(t) \/ AttachPurchaseWallet(t)
                           \/ ConfirmSupportTopUp(t) \/ InitiateSupportTopUp(t)
                           \/ SaveSupportTopUp(t)
                           \/ Confirm(t) \/ Cancel(t) \/ SaveConfirmed(t) \/ SaveCanceled(t)
  BY <1>3, <1>8 DEF RequestOtp, SolveCaptcha, VerifyOtp, CreateSession, SessionLapses, AttachWallet,
     ResolveSession, AttachPurchaseWallet, ConfirmSupportTopUp, InitiateSupportTopUp,
     SaveSupportTopUp, Confirm, Cancel, SaveConfirmed, SaveCanceled, memory
<1>9. CASE (\E c \in Captchas : RequestCaptcha(c)) \/ IntentLapses \/ Reverse \/ VerifyPurchase
              \/ VerifyRead \/ VerifySave \/ VerifySettle \/ VerifyReject
              \/ (\E s \in Saves : SaveAdrift(s)) \/ PayTopUp \/ CompleteSupportTopUp
              \/ UNCHANGED vars
  BY <1>3, <1>9 DEF RequestCaptcha, IntentLapses, Reverse, VerifyPurchase, VerifyRead, VerifySave,
     VerifySettle, VerifyReject, SaveAdrift, PayTopUp, CompleteSupportTopUp, memory, vars
<1> QED
  BY <1>4, <1>5, <1>6, <1>7, <1>8, <1>9 DEF Next

----------------------------------------------------------------------------
(* Who may choose a wallet.                                                 *)

(* Nobody who entered a code is forgotten.                                  *)
LEMMA ProvenStays ==
  ASSUME IInv, [Next]_vars, NEW u \in Proven
  PROVE  u \in Proven'
<1>1. PICK c \in Codes : sentTo[c] = u /\ passed[c] > 0
  BY DEF Proven
<1>2. /\ sentTo \in [Codes -> Users \cup {NoUser}] /\ passed \in [Codes -> Nat]
      /\ sentTo[c] # NoUser /\ u \in Users
  BY <1>1 DEF IInv, TypeOK, CodeBook, Proven
<1>3. CASE UNCHANGED history
  BY <1>1, <1>2, <1>3 DEF Proven, history
<1>4. ASSUME NEW t \in Tabs, NEW d \in Codes, GenerateOtp(t, d) PROVE sentTo'[c] = u /\ passed'[c] > 0
  BY <1>1, <1>2, <1>4 DEF GenerateOtp
<1>5. ASSUME NEW t \in Tabs, NEW d \in Codes, CheckOtp(t, d) PROVE sentTo'[c] = u /\ passed'[c] > 0
  BY <1>1, <1>2, <1>5 DEF CheckOtp
<1>6. (\E t \in Tabs, d \in Codes : GenerateOtp(t, d) \/ CheckOtp(t, d)) \/ UNCHANGED history
  BY DEF Next, RequestCaptcha, RequestOtp, SolveCaptcha, VerifyOtp, CreateSession, SessionLapses,
     AttachWallet, ResolveSession, AttachPurchaseWallet, ConfirmSupportTopUp, InitiateSupportTopUp,
     SaveSupportTopUp, Confirm, Cancel, SaveConfirmed, SaveCanceled, OtpLapses, IntentLapses,
     Reverse, Restart, VerifyPurchase, VerifyRead, VerifySave, VerifySettle, VerifyReject,
     SaveAdrift, PayTopUp, CompleteSupportTopUp, vars
<1> QED
  BY <1>2, <1>3, <1>4, <1>5, <1>6 DEF Proven

(* Holders of the next state, from what the step does to the handlers, to    *)
(* the sessions and to the payer.                                           *)
LEMMA HoldersStep ==
  ASSUME IInv, [Next]_vars,
         \A s \in Tabs :
           \/ tab'[s] = tab[s] \/ tab'[s] = AtRest
           \/ /\ tab'[s].step \in Known
                    => tab'[s].user \in Users
              /\ tab'[s].step \in Entered => tab'[s].user \in Proven',
         \A s \in Tabs : session'[s] \in {session[s], NoUser} \/ session'[s] \in Proven',
         charge'.payer = charge.payer \/ charge'.payer \in Proven'
  PROVE  Holders'
<1>1. Holders
  BY DEF IInv
<1>2. \A s \in Tabs : tab'[s].step \in Known
                        => tab'[s].user \in Users
  BY <1>1 DEF Holders, AtRest, Known, Entered
<1>3. ASSUME NEW s \in Tabs, tab'[s].step \in Entered
      PROVE  tab'[s].user \in Proven'
  <2>1. CASE tab'[s] = tab[s]
    <3>1. tab[s].user \in Proven
      BY <1>1, <1>3, <2>1 DEF Holders
    <3> QED
      BY <2>1, <3>1, ProvenStays
  <2>2. CASE tab'[s] # tab[s]
    BY <1>3, <2>2 DEF AtRest, Entered
  <2> QED
    BY <2>1, <2>2
<1>4. ASSUME NEW s \in Tabs, session'[s] # NoUser
      PROVE  session'[s] \in Proven'
  <2>1. CASE session'[s] = session[s]
    <3>1. session[s] \in Proven
      BY <1>1, <1>4, <2>1 DEF Holders
    <3> QED
      BY <2>1, <3>1, ProvenStays
  <2> QED
    BY <1>4, <2>1
<1>5. ASSUME charge'.payer # NoUser
      PROVE  charge'.payer \in Proven'
  <2>1. CASE charge'.payer = charge.payer
    <3>1. charge.payer \in Proven
      BY <1>1, <1>5, <2>1 DEF Holders
    <3> QED
      BY <2>1, <3>1, ProvenStays
  <2> QED
    BY <1>5, <2>1
<1> QED
  BY <1>2, <1>3, <1>4, <1>5 DEF Holders

(* A handler that ends, or starts one of the steps that hold nobody.        *)
LEMMA HandlerMoves ==
  ASSUME IInv, [Next]_vars, NEW t \in Tabs, NEW step \in Steps, NEW u \in Users \cup {NoUser},
         tab' = [tab EXCEPT ![t] = [step |-> step, user |-> u]],
         step \in Known => u \in Users,
         step \in Entered => u \in Proven',
         session' = session, charge' = charge
  PROVE  Holders'
<1>1. TypeOK
  BY DEF IInv
<1>2. tab'[t] = [step |-> step, user |-> u] /\ \A s \in Tabs \ {t} : tab'[s] = tab[s]
  BY <1>1, TabType
<1> QED
  BY <1>2, HoldersStep

LEMMA HandlerEnds ==
  ASSUME IInv, [Next]_vars, NEW t \in Tabs, Ends(t),
         \A s \in Tabs : session'[s] \in {session[s], NoUser} \/ session'[s] \in Proven',
         charge'.payer = charge.payer \/ charge'.payer \in Proven'
  PROVE  Holders'
<1>1. TypeOK
  BY DEF IInv
<1>2. tab'[t] = AtRest /\ \A s \in Tabs \ {t} : tab'[s] = tab[s]
  BY <1>1, EndsType
<1> QED
  BY <1>2, HoldersStep

(* The right to choose a wallet is only ever handed on: by an accepted code, *)
(* from the handler to its session, and from the session to the charge.     *)
LEMMA NextHolders ==
  ASSUME IInv, [Next]_vars
  PROVE  Holders'
<1>1. TypeOK /\ CodeBook /\ Holders
  BY DEF IInv
<1>2. NoUser \in Users \cup {NoUser} /\ \A t \in Tabs : tab[t].user \in Users \cup {NoUser}
  BY <1>1 DEF TypeOK
<1>3. ASSUME NEW t \in Tabs, NEW u \in Users, RequestOtp(t, u) PROVE Holders'
  BY <1>1, <1>3, HandlerMoves DEF RequestOtp, Begin, memory, Steps, Entered
<1>4. ASSUME NEW t \in Tabs, NEW c \in Captchas, SolveCaptcha(t, c) PROVE Holders'
  <2>1. tab[t].user \in Users /\ session' = session /\ charge' = charge
    BY <1>1, <1>4 DEF SolveCaptcha, Holders, Known
  <2>2. CASE Ends(t)
    BY <2>1, <2>2, HandlerEnds
  <2>3. CASE Goes(t, "sending", tab[t].user)
    BY <2>1, <2>3, HandlerMoves DEF Goes, Steps, Entered
  <2> QED
    BY <1>4, <2>2, <2>3 DEF SolveCaptcha
<1>5. ASSUME NEW t \in Tabs, NEW c \in Codes, GenerateOtp(t, c) PROVE Holders'
  BY <1>5, HandlerEnds DEF GenerateOtp
<1>6. ASSUME NEW t \in Tabs, NEW c \in Codes, CheckOtp(t, c) PROVE Holders'
  <2>1. session' = session /\ charge' = charge
    BY <1>6 DEF CheckOtp
  <2>2. CASE ~Accepted(c)
    BY <1>6, <2>1, <2>2, HandlerEnds DEF CheckOtp
  <2>3. CASE Accepted(c)
    <3>1. /\ sentTo[c] # NoUser /\ otp.code = c /\ sentTo' = sentTo
          /\ passed' = [passed EXCEPT ![c] = passed[c] + 1]
          /\ tab' = [tab EXCEPT ![t] = [step |-> "opening", user |-> otp.user]]
      BY <1>6, <2>3 DEF CheckOtp, Accepted, Goes
    <3>2. sentTo[c] = otp.user /\ otp.user \in Users /\ passed[c] \in Nat
      BY <1>1, <3>1, OtpType, NullAssumption DEF CodeBook, TypeOK
    <3>3. sentTo'[c] = otp.user /\ passed'[c] > 0
      BY <1>1, <3>1, <3>2 DEF TypeOK
    <3>4. otp.user \in Proven'
      BY <3>2, <3>3 DEF Proven
    <3> QED
      BY <2>1, <3>1, <3>2, <3>4, HandlerMoves DEF Steps
  <2> QED
    BY <2>2, <2>3
<1>7. ASSUME NEW t \in Tabs, CreateSession(t) PROVE Holders'
  <2>1. /\ tab[t].step = "opening" /\ session' = [session EXCEPT ![t] = tab[t].user] /\ Ends(t)
        /\ charge' = charge /\ session \in [Tabs -> Users \cup {NoUser}]
    BY <1>1, <1>7 DEF CreateSession, TypeOK
  <2>2. tab[t].user \in Proven
    BY <1>1, <2>1 DEF Holders, Entered
  <2>3. tab[t].user \in Proven'
    BY <2>2, ProvenStays
  <2>4. \A s \in Tabs : session'[s] \in {session[s], NoUser} \/ session'[s] \in Proven'
    BY <2>1, <2>3
  <2> QED
    BY <2>1, <2>4, HandlerEnds
<1>8. ASSUME NEW t \in Tabs, ResolveSession(t) PROVE Holders'
  <2> DEFINE step == Chosen(tab[t].step)
  <2>1. session' = session /\ charge' = charge /\ step \in Steps
    BY <1>8 DEF ResolveSession, memory, Chosen, Steps
  <2>2. CASE Ends(t)
    BY <2>1, <2>2, HandlerEnds
  <2>3. CASE session[t] # NoUser /\ Goes(t, step, session[t])
    <3>1. tab' = [tab EXCEPT ![t] = [step |-> step, user |-> session[t]]]
      BY <2>3 DEF Goes
    <3>2. session[t] \in Proven /\ session[t] \in Users
      BY <1>1, <2>3 DEF Holders, Proven
    <3>3. session[t] \in Proven'
      BY <3>2, ProvenStays
    <3> HIDE DEF step
    <3> QED
      BY <2>1, <3>1, <3>2, <3>3, HandlerMoves
  <2> QED
    BY <1>8, <2>2, <2>3 DEF ResolveSession
<1>9. ASSUME NEW t \in Tabs, AttachPurchaseWallet(t) PROVE Holders'
  <2>1. tab[t].step \in Entered /\ session' = session
    BY <1>9 DEF AttachPurchaseWallet, memory, Entered
  <2>2. tab[t].user \in Proven
    BY <1>1, <2>1 DEF Holders
  <2>3. tab[t].user \in Proven'
    BY <2>2, ProvenStays
  <2>4. charge'.payer = charge.payer \/ charge'.payer = tab[t].user
    BY <1>1, <1>9 DEF AttachPurchaseWallet, TypeOK
  <2>5. \A q \in Tabs : tab'[q] \in {tab[q], AtRest, [step |-> "initiating", user |-> NoUser]}
    BY <1>1, <1>9 DEF AttachPurchaseWallet, Ends, Goes, TypeOK
  <2> QED
    BY <2>1, <2>3, <2>4, <2>5, HoldersStep DEF Known, Entered
<1>10. ASSUME NEW t \in Tabs,
              VerifyOtp(t) \/ AttachWallet(t) \/ ConfirmSupportTopUp(t) \/ Confirm(t) \/ Cancel(t)
       PROVE  Holders'
  BY <1>1, <1>2, <1>10, HandlerMoves DEF VerifyOtp, AttachWallet, ConfirmSupportTopUp, Confirm,
     Cancel, Begin, memory, Steps, Known, Entered
<1>17. ASSUME NEW t \in Tabs, InitiateSupportTopUp(t) \/ SaveSupportTopUp(t) PROVE Holders'
  <2>1. session' = session /\ charge' = charge
    BY <1>17 DEF InitiateSupportTopUp, SaveSupportTopUp, memory
  <2>2. CASE Ends(t)
    BY <2>1, <2>2, HandlerEnds
  <2>3. CASE Goes(t, "linking", NoUser)
    BY <1>2, <2>1, <2>3, HandlerMoves DEF Goes, Steps, Known, Entered
  <2> QED
    BY <1>17, <2>2, <2>3 DEF InitiateSupportTopUp, SaveSupportTopUp
<1>11. ASSUME NEW t \in Tabs, SaveConfirmed(t) \/ SaveCanceled(t) PROVE Holders'
  BY <1>11, HandlerEnds DEF SaveConfirmed, SaveCanceled, memory
<1>12. ASSUME NEW t \in Tabs, SessionLapses(t) PROVE Holders'
  <2>1. \A s \in Tabs : session'[s] \in {session[s], NoUser}
    BY <1>1, <1>12 DEF SessionLapses, TypeOK
  <2> QED
    BY <1>12, <2>1, HoldersStep DEF SessionLapses
<1>13. CASE Restart
  BY <1>1, <1>13, HoldersStep DEF Restart, TypeOK
<1>14. ASSUME UNCHANGED <<tab, session>>, charge'.payer = charge.payer PROVE Holders'
  BY <1>14, HoldersStep
<1>15. CASE Reverse \/ VerifySettle \/ CompleteSupportTopUp
  BY <1>1, <1>14, <1>15 DEF Reverse, VerifySettle, CompleteSupportTopUp, TypeOK, memory
<1>16. CASE (\E c \in Captchas : RequestCaptcha(c)) \/ OtpLapses \/ IntentLapses
              \/ VerifyPurchase \/ VerifyRead \/ VerifySave \/ VerifyReject
              \/ (\E s \in Saves : SaveAdrift(s)) \/ PayTopUp \/ UNCHANGED vars
  BY <1>14, <1>16 DEF RequestCaptcha, OtpLapses, IntentLapses, VerifyPurchase, VerifyRead,
     VerifySave, VerifyReject, SaveAdrift, PayTopUp, memory, vars
<1> QED
  BY <1>3, <1>4, <1>5, <1>6, <1>7, <1>8, <1>9, <1>10, <1>11, <1>12, <1>13, <1>15, <1>16, <1>17
     DEF Next

----------------------------------------------------------------------------
(* Consent.                                                                 *)

(* The gateway and the verification know of a confirmation what was one.    *)
LEMMA NextConsent ==
  ASSUME IInv, [Next]_vars
  PROVE  Consent'
<1>1. TypeOK /\ Consent
  BY DEF IInv
<1>2. /\ charge \in [status : {"PENDING", "COMPLETED", "REVERSED"}, payer : Users \cup {NoUser}]
      /\ intent \in [status : Intents, lapsed : BOOLEAN]
  BY <1>1 DEF TypeOK
<1>3. ASSUME UNCHANGED <<charge, verifying, gateway>> PROVE Consent'
  BY <1>1, <1>3 DEF Consent, gateway
<1>4. ASSUME NEW t \in Tabs, AttachPurchaseWallet(t) PROVE Consent'
  <2>1. /\ verifying' = "no" /\ UNCHANGED gateway
        /\ charge' = charge \/ (charge' = [charge EXCEPT !.payer = tab[t].user] /\ Pending)
    BY <1>4 DEF AttachPurchaseWallet
  <2>2. charge'.status = "COMPLETED" => charge' = charge
    BY <1>2, <2>1 DEF Pending
  <2> QED
    BY <1>1, <2>1, <2>2 DEF Consent, gateway
<1>5. ASSUME NEW t \in Tabs, SaveConfirmed(t) \/ SaveCanceled(t) PROVE Consent'
  BY <1>1, <1>2, <1>5 DEF SaveConfirmed, SaveCanceled, Consent
<1>6. CASE IntentLapses
  BY <1>1, <1>2, <1>6 DEF IntentLapses, Consent
<1>7. CASE Reverse
  BY <1>1, <1>2, <1>7 DEF Reverse, Consent, gateway
<1>8. CASE VerifyPurchase
  BY <1>1, <1>8 DEF VerifyPurchase, Verifiable, Consent, gateway
<1>9. CASE VerifyRead
  <2>1. EffectiveStatus = "AUTHORIZED" => confirmed
    BY <1>1 DEF EffectiveStatus, Consent
  <2> QED
    BY <1>1, <1>9, <2>1 DEF VerifyRead, Consent, gateway
<1>10. CASE VerifySave
  BY <1>1, <1>2, <1>10 DEF VerifySave, Saves, Consent
<1>11. CASE VerifySettle
  <2>1. /\ charge'.payer = charge.payer /\ charge.payer # NoUser /\ confirmed
        /\ verifying' = "no" /\ UNCHANGED gateway
    BY <1>1, <1>2, <1>11 DEF VerifySettle, Consent
  <2> QED
    BY <1>1, <2>1 DEF Consent, gateway
<1>12. CASE VerifyReject
  BY <1>1, <1>12 DEF VerifyReject, Consent, gateway
<1>13. CASE Restart
  <2>1. adrift'["VERIFIED"] > 0 => verifying = "VERIFIED" \/ adrift["VERIFIED"] > 0
    BY <1>1, <1>13 DEF Restart, TypeOK, Saves
  <2> QED
    BY <1>1, <1>13, <2>1 DEF Restart, Consent
<1>14. ASSUME NEW s \in Saves, SaveAdrift(s) PROVE Consent'
  <2>1. intent'.status = s /\ (s = "VERIFIED" => adrift["VERIFIED"] > 0)
    BY <1>2, <1>14 DEF SaveAdrift
  <2>2. adrift'["VERIFIED"] > 0 => adrift["VERIFIED"] > 0
    BY <1>1, <1>14 DEF SaveAdrift, TypeOK, Saves
  <2> QED
    BY <1>1, <1>14, <2>1, <2>2 DEF SaveAdrift, Saves, Consent
<1>15. CASE PayTopUp
  BY <1>1, <1>15 DEF PayTopUp, Consent
<1>16. CASE CompleteSupportTopUp
  BY <1>1, <1>2, <1>16 DEF CompleteSupportTopUp, Consent, gateway
<1>17. ASSUME NEW t \in Tabs, SaveSupportTopUp(t) PROVE Consent'
  BY <1>1, <1>17 DEF SaveSupportTopUp, Consent
<1>18. CASE \E t \in Tabs : \/ \E u \in Users : RequestOtp(t, u)
                            \/ \E c \in Captchas : SolveCaptcha(t, c)
                            \/ \E c \in Codes : GenerateOtp(t, c) \/ CheckOtp(t, c)
                            \/ VerifyOtp(t) \/ CreateSession(t) \/ SessionLapses(t)
                            \/ AttachWallet(t) \/ ResolveSession(t) \/ ConfirmSupportTopUp(t)
                            \/ InitiateSupportTopUp(t) \/ Confirm(t) \/ Cancel(t)
  BY <1>3, <1>18 DEF RequestOtp, SolveCaptcha, GenerateOtp, CheckOtp, VerifyOtp, CreateSession,
     SessionLapses, AttachWallet, ResolveSession, ConfirmSupportTopUp, InitiateSupportTopUp,
     Confirm, Cancel
<1>19. CASE (\E c \in Captchas : RequestCaptcha(c)) \/ OtpLapses \/ UNCHANGED vars
  BY <1>3, <1>19 DEF RequestCaptcha, OtpLapses, vars
<1> QED
  BY <1>4, <1>5, <1>6, <1>7, <1>8, <1>9, <1>10, <1>11, <1>12, <1>13, <1>14, <1>15, <1>16, <1>17,
     <1>18, <1>19 DEF Next

----------------------------------------------------------------------------
LEMMA Invariance == Spec => []IInv
<1>1. IInv /\ [Next]_vars => IInv'
  BY NextTypes, NextCodes, NextHolders, NextConsent DEF IInv
<1> QED
  BY <1>1, InitIInv, PTL DEF Spec

(* Every variable of the page, the gateway and the backend keeps its type.  *)
THEOREM PageTypeCorrect == Spec => []TypeOK
<1>1. IInv => TypeOK
  BY DEF IInv
<1> QED
  BY <1>1, Invariance, PTL

(* OtpService.verify: "replaying it (or racing two verify calls) can't       *)
(* succeed twice", for any number of tabs, resends and restarts.            *)
THEOREM CodeOpensOneSession == Spec => []CodeUsedOnce
<1>1. IInv => CodeUsedOnce
  BY DEF IInv, CodeBook, CodeUsedOnce
<1> QED
  BY <1>1, Invariance, PTL

(* A completed charge was confirmed at the sandbox gateway, or a top-up of   *)
(* it was paid at the real one, and its payer entered a code made for them, *)
(* whatever was resent, overwritten, reversed or lost.                      *)
THEOREM NoChargeWithoutConsent == Spec => []ChargedWithConsent
<1>1. IInv => ChargedWithConsent
  BY DEF IInv, Holders, Consent, Proven, ChargedWithConsent
<1> QED
  BY <1>1, Invariance, PTL
=============================================================================
