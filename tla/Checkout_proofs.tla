--------------------------- MODULE Checkout_proofs ---------------------------
(***************************************************************************)
(* Proofs about Checkout for any wallets, on the page and in the widget.   *)
(*                                                                         *)
(* Nothing compares two requests in the code: that no two that change      *)
(* something are on their way at once follows from which handler may be at *)
(* which await (Whereabouts), from gatewayBusy, which four handlers share  *)
(* (OneBusy), and from the step shown, as the pay step's buttons look at   *)
(* another flag (PayStep) and a page that opens shows no buttons (Opening).*)
(***************************************************************************)
EXTENDS Checkout, TLAPS

(* The awaits of a handler.                                                 *)
AwaitsOf(h) == CASE h = "mount" -> {"idle", "status", "captcha", "info", "refresh",
                                    "topupVerify", "topupCancel"}
                 [] h = "requestOtp" -> {"idle", "otp", "captcha"}
                 [] h = "verifyOtp" -> {"idle", "check"}
                 [] h = "continue" -> {"idle", "attach", "info", "refresh", "confirm", "verify"}
                 [] h = "topUp" -> {"idle", "topup"}
                 [] h = "act" -> {"idle", "confirm", "cancel", "info"}

Whereabouts == \A h \in Handlers : call[h].at \in AwaitsOf(h)

(* The handlers that set gatewayBusy: one is at work at most, and then it is *)
(* set.                                                                     *)
Guarded == {"requestOtp", "verifyOtp", "continue", "topUp"}

OneBusy ==
  \A h \in Guarded : call[h].at # "idle" => busy /\ \A k \in Guarded \ {h} : call[k].at = "idle"

(* Until the first answer of a page that has been opened nothing else is    *)
(* under way, and there is no deadline to run out.                          *)
Opening ==
  call["mount"].at \in {"status", "topupVerify", "topupCancel"}
    => /\ step = "loading" /\ ~form.known
       /\ \A h \in Handlers \ {"mount"} : call[h].at = "idle"

(* Only the page has a pay step, and comes there when nothing that changes   *)
(* something is under way but what the step's own buttons start.            *)
PayStep ==
  /\ step = "pay" => view = "page" /\ \A h \in Guarded : call[h].at \notin Posts
  /\ call["act"].at \in Posts => step = "pay"

(* A handler that reads the payment gets its status, or no answer.          *)
InfoRead ==
  \A h \in Handlers : call[h].at = "info" => call[h].answer \in {"none", "payable", "closed", "no"}

(* A success is answered only of a completed purchase.                      *)
DoneIsTrue == \A h \in Handlers : call[h].answer = "done" => charge.status = "COMPLETED"

IInv == /\ TypeOK /\ Whereabouts /\ OneBusy /\ Opening /\ PayStep
        /\ InfoRead /\ DoneIsTrue /\ SuccessIsTrue

----------------------------------------------------------------------------
(* The types, in two parts.                                                 *)
Calls == [at : Awaits, with : Wallets \cup {NoWallet, "right", "wrong"}, answer : Answers]
Forms == [captcha : {"none", "shown", "solved", "spent"}, digits : BOOLEAN,
          selected : Wallets \cup {NoWallet}, info : {"none", "payable", "closed"},
          error : BOOLEAN, known : BOOLEAN, expired : BOOLEAN]
RestTypes ==
  /\ view \in {"page", "widget"} /\ step \in Steps /\ form \in Forms
  /\ busy \in BOOLEAN /\ acting \in BOOLEAN /\ told \in {"nothing", "COMPLETED", "FAILED"}
  /\ charge \in [status : {"PENDING", "COMPLETED", "REVERSED"}, payer : BOOLEAN]
  /\ topup \in {"NONE", "PENDING", "PAID", "COMPLETED", "REVERSED"} /\ intent \in Statuses

LEMMA TypesSplit == TypeOK <=> (RestTypes /\ call \in [Handlers -> Calls])
BY DEF TypeOK, RestTypes, Forms, Calls

LEMMA TypesSplitNext == TypeOK' <=> (RestTypes' /\ call' \in [Handlers -> Calls])
BY DEF TypeOK, RestTypes, Forms, Calls

(* A completed charge stays one, as far as a browser can see.               *)
StaysPaid == charge.status = "COMPLETED" => charge'.status = "COMPLETED"

(* One handler has gone on, or was answered.                                *)
LEMMA CallAfter ==
  ASSUME IInv, NEW h \in Handlers, NEW c \in Calls, c.at \in AwaitsOf(h),
         c.at = "info" => c.answer \in {"none", "payable", "closed", "no"},
         c.answer = "done" => charge'.status = "COMPLETED", StaysPaid,
         call' = [call EXCEPT ![h] = c]
  PROVE  /\ call' \in [Handlers -> Calls] /\ Whereabouts' /\ InfoRead' /\ DoneIsTrue'
         /\ call'[h] = c /\ \A k \in Handlers \ {h} : call'[k] = call[k]
<1>1. call \in [Handlers -> Calls]
  BY TypesSplit DEF IInv
<1>2. /\ call' \in [Handlers -> Calls]
      /\ call'[h] = c /\ \A k \in Handlers \ {h} : call'[k] = call[k]
  BY <1>1
<1> HIDE DEF Handlers
<1>3. Whereabouts'
  BY <1>2 DEF IInv, Whereabouts
<1>4. InfoRead'
  BY <1>2 DEF IInv, InfoRead
<1>5. DoneIsTrue'
  BY <1>2 DEF IInv, DoneIsTrue, StaysPaid
<1> QED
  BY <1>2, <1>3, <1>4, <1>5

(* What a handler can have asked, or have ended with.                       *)
LEMMA CallKinds ==
  /\ Idle \in Calls /\ Idle.at = "idle" /\ Idle.answer = "none"
  /\ \A at \in Awaits, with \in Wallets \cup {NoWallet, "right", "wrong"} :
       [at |-> at, with |-> with, answer |-> "none"] \in Calls
  /\ \A h \in Handlers : "idle" \in AwaitsOf(h) /\ AwaitsOf(h) \subseteq Awaits
BY DEF Idle, Calls, Awaits, Posts, Answers, Handlers, AwaitsOf

----------------------------------------------------------------------------
(* The kinds of steps.                                                      *)

(* Of the customer, with no request.                                        *)
LEMMA QuietKeeps ==
  ASSUME IInv, RestTypes', UNCHANGED <<view, call, busy, told, charge>>,
         step' = step \/ ("pay" \notin {step, step'} /\ (step # "loading" \/ form.known)),
         form'.known = form.known \/ step # "loading" \/ form.known
  PROVE  IInv'
<1>1. TypeOK'
  BY TypesSplit, TypesSplitNext DEF IInv
<1>2. Whereabouts' /\ OneBusy' /\ InfoRead' /\ DoneIsTrue' /\ SuccessIsTrue'
  BY DEF IInv, Whereabouts, OneBusy, InfoRead, DoneIsTrue, SuccessIsTrue
<1>3. Opening'
  BY DEF IInv, Opening
<1>4. PayStep'
  BY DEF IInv, PayStep
<1> QED
  BY <1>1, <1>2, <1>3, <1>4 DEF IInv

(* A handler of those that share gatewayBusy begins.                        *)
LEMMA StartKeeps ==
  ASSUME IInv, NEW h \in Guarded, NEW at \in AwaitsOf(h),
         NEW with \in Wallets \cup {NoWallet, "right", "wrong"},
         RestTypes', UNCHANGED <<view, step, told, charge>>, form'.known = form.known,
         step \notin {"loading", "pay"}, ~busy, busy', Asks(h, at, with), at # "info"
  PROVE  IInv'
<1> DEFINE c == [at |-> at, with |-> with, answer |-> "none"]
<1>1. c \in Calls /\ c.at = at /\ c.answer = "none" /\ h \in Handlers
  BY CallKinds DEF Guarded, Handlers
<1>2. call' = [call EXCEPT ![h] = c]
  BY DEF Asks
<1> HIDE DEF c
<1>3. /\ call' \in [Handlers -> Calls] /\ Whereabouts' /\ InfoRead' /\ DoneIsTrue'
      /\ call'[h] = c /\ \A k \in Handlers \ {h} : call'[k] = call[k]
  BY <1>1, <1>2, CallAfter DEF StaysPaid
<1>4. TypeOK' /\ SuccessIsTrue'
  BY <1>3, TypesSplitNext DEF IInv, SuccessIsTrue
<1>5. \A k \in Guarded : call[k].at = "idle"
  BY DEF IInv, OneBusy
<1>6. OneBusy'
  BY <1>3, <1>5 DEF OneBusy, Guarded, Handlers
<1>7. Opening'
  BY <1>3 DEF IInv, Opening, Guarded, Handlers
<1>8. PayStep'
  BY <1>3 DEF IInv, PayStep, Guarded, Handlers
<1> QED
  BY <1>3, <1>4, <1>6, <1>7, <1>8 DEF IInv

(* It ends, and whatever it leaves gatewayBusy as, the others are idle.     *)
LEMMA EndKeeps ==
  ASSUME IInv, NEW h \in Guarded, call[h].at # "idle", Ends(h),
         RestTypes', UNCHANGED <<view, charge>>,
         step' = step \/ (call[h].at \in Posts /\ step' # "pay"),
         told' = "COMPLETED" => charge.status = "COMPLETED"
  PROVE  IInv'
<1>1. h \in Handlers /\ call' = [call EXCEPT ![h] = Idle]
  BY DEF Guarded, Handlers, Ends
<1>2. /\ call' \in [Handlers -> Calls] /\ Whereabouts' /\ InfoRead' /\ DoneIsTrue'
      /\ call'[h] = Idle /\ \A k \in Handlers \ {h} : call'[k] = call[k]
  BY <1>1, CallAfter, CallKinds DEF StaysPaid
<1>3. TypeOK' /\ SuccessIsTrue'
  BY <1>2, TypesSplitNext DEF IInv, SuccessIsTrue
<1>4. \A k \in Guarded : call'[k].at = "idle"
  BY <1>2, CallKinds DEF IInv, OneBusy, Guarded, Handlers
<1>5. OneBusy'
  BY <1>4 DEF OneBusy
<1>6. call'["mount"] = call["mount"] /\ call'["act"] = call["act"]
  BY <1>2 DEF Guarded, Handlers
<1>7. Opening'
  BY <1>1, <1>6 DEF IInv, Opening, Guarded
<1>8. PayStep'
  BY <1>4, <1>6 DEF IInv, PayStep, Posts
<1> QED
  BY <1>2, <1>3, <1>5, <1>7, <1>8 DEF IInv

(* It goes on with another request.                                         *)
LEMMA GoOnKeeps ==
  ASSUME IInv, NEW h \in Guarded, call[h].at # "idle", NEW at \in AwaitsOf(h),
         Asks(h, at, NoWallet), RestTypes', UNCHANGED <<view, busy, told, charge>>,
         \/ step' = step /\ (call[h].at \in Posts \/ at \notin Posts)
         \/ call[h].at \in Posts /\ step' # "pay"
         \/ call[h].at \in Posts /\ view = "page" /\ at \notin Posts
  PROVE  IInv'
<1> DEFINE c == [at |-> at, with |-> NoWallet, answer |-> "none"]
<1>1. c \in Calls /\ c.at = at /\ c.answer = "none" /\ h \in Handlers
  BY CallKinds DEF Guarded, Handlers
<1>2. call' = [call EXCEPT ![h] = c]
  BY DEF Asks
<1> HIDE DEF c
<1>3. /\ call' \in [Handlers -> Calls] /\ Whereabouts' /\ InfoRead' /\ DoneIsTrue'
      /\ call'[h] = c /\ \A k \in Handlers \ {h} : call'[k] = call[k]
  BY <1>1, <1>2, CallAfter DEF StaysPaid
<1>4. TypeOK' /\ SuccessIsTrue'
  BY <1>3, TypesSplitNext DEF IInv, SuccessIsTrue
<1>5. busy /\ \A k \in Guarded \ {h} : call[k].at = "idle" /\ call'[k].at = "idle"
  BY <1>3 DEF IInv, OneBusy, Guarded, Handlers
<1>6. OneBusy'
  BY <1>5 DEF OneBusy
<1>7. call'["mount"] = call["mount"] /\ call'["act"] = call["act"]
  BY <1>3 DEF Guarded, Handlers
<1>8. Opening'
  BY <1>1, <1>7 DEF IInv, Opening, Guarded
<1>9. call[h].at \in Posts => step # "pay" /\ call["act"].at \notin Posts
  BY DEF IInv, PayStep
<1>10. step' = "pay" => view' = "page" /\ at \notin Posts
  BY <1>9 DEF IInv, PayStep
<1>11. PayStep'
  <2>1. "idle" \notin Posts
    BY DEF Posts
  <2>2. call["act"].at \in Posts => step' = "pay"
    BY <1>9 DEF IInv, PayStep
  <2> QED
    BY <1>1, <1>3, <1>5, <1>7, <1>10, <2>1, <2>2 DEF PayStep
<1> QED
  BY <1>3, <1>4, <1>6, <1>8, <1>11 DEF IInv

(* onMounted has had its first answer, or a later one.                      *)
LEMMA MountKeeps ==
  ASSUME IInv, NEW c \in Calls, c.at \in {"idle", "captcha", "info", "refresh"}, c.answer = "none",
         call' = [call EXCEPT !["mount"] = c], RestTypes', UNCHANGED <<view, busy, charge>>,
         \/ step' = step
         \/ /\ call["mount"].at \in {"status", "topupVerify", "topupCancel"}
            /\ step' = "pay" => view = "page",
         told' = "COMPLETED" => charge.status = "COMPLETED"
  PROVE  IInv'
<1>1. "mount" \in Handlers /\ c.at \in AwaitsOf("mount")
  BY DEF Handlers, AwaitsOf
<1>2. /\ call' \in [Handlers -> Calls] /\ Whereabouts' /\ InfoRead' /\ DoneIsTrue'
      /\ call'["mount"] = c /\ \A k \in Handlers \ {"mount"} : call'[k] = call[k]
  BY <1>1, CallAfter DEF StaysPaid
<1>3. TypeOK' /\ SuccessIsTrue'
  BY <1>2, TypesSplitNext DEF IInv, SuccessIsTrue
<1>4. \A k \in Guarded \cup {"act"} : call'[k] = call[k]
  BY <1>2 DEF Guarded, Handlers
<1>5. OneBusy' /\ Opening'
  BY <1>2, <1>4 DEF IInv, OneBusy, Opening
<1>6. CASE step' = step
  BY <1>2, <1>3, <1>4, <1>5, <1>6 DEF IInv, PayStep
<1>7. CASE call["mount"].at \in {"status", "topupVerify", "topupCancel"} /\ (step' = "pay" => view = "page")
  <2>1. \A k \in Guarded \cup {"act"} : call'[k].at = "idle"
    BY <1>4, <1>7 DEF IInv, Opening, Guarded, Handlers
  <2>2. PayStep'
    BY <1>7, <2>1 DEF PayStep, Posts
  <2> QED
    BY <1>2, <1>3, <1>5, <2>2 DEF IInv
<1> QED
  BY <1>6, <1>7

(* The buttons of the pay step.                                             *)
LEMMA ActKeeps ==
  ASSUME IInv, NEW c \in Calls, c.at \in AwaitsOf("act"), c.answer = "none",
         call' = [call EXCEPT !["act"] = c], RestTypes', UNCHANGED <<view, busy, told, charge>>,
         step = "pay" \/ call["act"].at # "idle",
         \/ step' = step /\ (c.at \in Posts => step = "pay")
         \/ step' # "pay" /\ c.at = "idle"
  PROVE  IInv'
<1>1. "act" \in Handlers
  BY DEF Handlers
<1>2. /\ call' \in [Handlers -> Calls] /\ Whereabouts' /\ InfoRead' /\ DoneIsTrue'
      /\ call'["act"] = c /\ \A k \in Handlers \ {"act"} : call'[k] = call[k]
  BY <1>1, CallAfter DEF StaysPaid
<1>3. TypeOK' /\ SuccessIsTrue'
  BY <1>2, TypesSplitNext DEF IInv, SuccessIsTrue
<1>4. \A k \in Guarded \cup {"mount"} : call'[k] = call[k]
  BY <1>2 DEF Guarded, Handlers
<1>5. OneBusy'
  BY <1>4 DEF IInv, OneBusy
<1>6. Opening'
  BY <1>1, <1>4 DEF IInv, Opening
<1>7. PayStep'
  BY <1>2, <1>4 DEF IInv, PayStep, Posts
<1> QED
  BY <1>2, <1>3, <1>5, <1>6, <1>7 DEF IInv

(* A server answers.                                                        *)
LEMMA ServedKeeps ==
  ASSUME IInv, NEW h \in Handlers, NEW a \in Answers, call[h].at # "idle", Replies(h, a),
         Unchanged, RestTypes', form'.known = form.known,
         call[h].at = "info" => a \in {"none", "payable", "closed", "no"},
         a = "done" => charge'.status = "COMPLETED", StaysPaid
  PROVE  IInv'
<1> DEFINE c == [call[h] EXCEPT !.answer = a]
<1>1. call[h] \in Calls /\ call[h].at \in AwaitsOf(h)
  BY TypesSplit DEF IInv, Whereabouts
<1>2. c \in Calls /\ c.at = call[h].at /\ c.answer = a /\ call' = [call EXCEPT ![h] = c]
  BY <1>1, TypesSplit DEF Calls, Replies
<1> HIDE DEF c
<1>3. /\ call' \in [Handlers -> Calls] /\ Whereabouts' /\ InfoRead' /\ DoneIsTrue'
      /\ call'[h] = c /\ \A k \in Handlers \ {h} : call'[k] = call[k]
  BY <1>1, <1>2, CallAfter
<1>4. \A k \in Handlers : call'[k].at = call[k].at
  BY <1>2, <1>3
<1>5. TypeOK' /\ SuccessIsTrue'
  BY <1>3, TypesSplitNext DEF IInv, SuccessIsTrue, Unchanged, flags, StaysPaid
<1>6. OneBusy' /\ Opening' /\ PayStep'
  <2>1. Guarded \subseteq Handlers /\ {"mount", "act"} \subseteq Handlers
    BY DEF Guarded, Handlers
  <2>2. UNCHANGED <<view, step, busy>>
    BY DEF Unchanged, flags
  <2>3. OneBusy'
    BY <1>4, <2>1, <2>2 DEF IInv, OneBusy
  <2>4. Opening'
    BY <1>4, <2>1, <2>2 DEF IInv, Opening
  <2>5. PayStep'
    BY <1>4, <2>1, <2>2 DEF IInv, PayStep
  <2> QED
    BY <2>3, <2>4, <2>5
<1> QED
  BY <1>3, <1>5, <1>6 DEF IInv

----------------------------------------------------------------------------
LEMMA OpenedCalls ==
  ASSUME NEW at \in {"status", "topupVerify", "topupCancel"}
  PROVE  /\ Opened(at) \in [Handlers -> Calls]
         /\ Opened(at)["mount"].at = at /\ \A h \in Handlers \ {"mount"} : Opened(at)[h].at = "idle"
         /\ \A h \in Handlers : Opened(at)[h].answer = "none" /\ Opened(at)[h].at \in AwaitsOf(h)
<1> DEFINE c == [Idle EXCEPT !.at = at]
<1>1. c \in Calls /\ c.at = at /\ c.answer = "none"
  BY DEF Idle, Calls, Awaits, Posts, Answers
<1>2. Idle \in Calls /\ Idle.at = "idle" /\ Idle.answer = "none"
  BY CallKinds
<1>3. "mount" \in Handlers /\ at \in AwaitsOf("mount")
  BY DEF Handlers, AwaitsOf
<1>4. \A h \in Handlers : "idle" \in AwaitsOf(h)
  BY CallKinds
<1>5. Opened(at) = [h \in Handlers |-> IF h = "mount" THEN c ELSE Idle]
  BY DEF Opened
<1> HIDE DEF c, Handlers, AwaitsOf
<1> QED
  BY <1>1, <1>2, <1>3, <1>4, <1>5

(* A page opened anew, by a reload or on the way back from the gateway.     *)
LEMMA OpenedIInv ==
  ASSUME NEW at \in {"status", "topupVerify", "topupCancel"}, RestTypes,
         step = "loading", call = Opened(at), ~form.known, told = "nothing"
  PROVE  IInv
<1>1. /\ call \in [Handlers -> Calls] /\ call["mount"].at = at
      /\ \A h \in Handlers \ {"mount"} : call[h].at = "idle"
      /\ \A h \in Handlers : call[h].answer = "none" /\ call[h].at \in AwaitsOf(h)
  BY OpenedCalls
<1>2. \A h \in Guarded \cup {"act"} : call[h].at = "idle"
  BY <1>1 DEF Guarded, Handlers
<1>3. at # "info"
  OBVIOUS
<1>4. TypeOK
  BY <1>1, TypesSplit
<1>5. Whereabouts /\ InfoRead /\ DoneIsTrue
  BY <1>1 DEF Whereabouts, InfoRead, DoneIsTrue
<1>6. OneBusy /\ Opening /\ PayStep /\ SuccessIsTrue
  BY <1>1, <1>2 DEF OneBusy, Opening, PayStep, SuccessIsTrue, Posts
<1> QED
  BY <1>4, <1>5, <1>6 DEF IInv

LEMMA BlankForm == Blank \in Forms /\ Blank.known = FALSE
BY DEF Blank, Forms

LEMMA InitIInv == Init => IInv
<1> SUFFICES ASSUME Init PROVE IInv
  OBVIOUS
<1>1. RestTypes
  BY ViewAssumption, BlankForm DEF Init, RestTypes, Steps, Statuses
<1> QED
  BY <1>1, BlankForm, OpenedIInv DEF Init

LEMMA OpenKeeps ==
  ASSUME IInv, NEW v \in {"page", "widget"}, NEW at \in {"status", "topupVerify", "topupCancel"},
         Open(v, at)
  PROVE  IInv'
<1>1. RestTypes
  BY TypesSplit DEF IInv
<1>2. RestTypes' /\ step' = "loading" /\ call' = Opened(at) /\ ~form'.known /\ told' = "nothing"
  BY <1>1, BlankForm DEF Open, RestTypes, Steps, server
<1> HIDE DEF RestTypes
<1>3. /\ call' \in [Handlers -> Calls] /\ call'["mount"].at = at
      /\ \A h \in Handlers \ {"mount"} : call'[h].at = "idle"
      /\ \A h \in Handlers : call'[h].answer = "none" /\ call'[h].at \in AwaitsOf(h)
  BY <1>2, OpenedCalls
<1>4. \A h \in Guarded \cup {"act"} : call'[h].at = "idle"
  BY <1>3 DEF Guarded, Handlers
<1>5. TypeOK'
  BY <1>2, <1>3, TypesSplitNext
<1>6. Whereabouts' /\ InfoRead' /\ DoneIsTrue'
  BY <1>3 DEF Whereabouts, InfoRead, DoneIsTrue
<1>7. OneBusy' /\ Opening' /\ PayStep' /\ SuccessIsTrue'
  BY <1>2, <1>3, <1>4 DEF OneBusy, Opening, PayStep, SuccessIsTrue, Posts
<1> QED
  BY <1>5, <1>6, <1>7 DEF IInv

(* The clicks and the clock that ask for nothing.                           *)
LEMMA QuietSteps ==
  ASSUME IInv, \/ SolveCaptcha \/ ClearDigits \/ (\E w \in Wallets : SelectWallet(w))
               \/ BackToWalletSelection \/ Leave \/ PayTopUp \/ Expire
  PROVE  IInv'
<1>1. RestTypes
  BY TypesSplit DEF IInv
<1>2. CASE SolveCaptcha \/ ClearDigits \/ \E w \in Wallets : SelectWallet(w)
  <2>1. form' \in Forms /\ form'.known = form.known
    BY <1>1, <1>2 DEF RestTypes, Forms, SolveCaptcha, ClearDigits, SelectWallet
  <2>2. UNCHANGED <<view, step, call, busy, acting, told, charge, topup, intent>>
    BY <1>2 DEF SolveCaptcha, ClearDigits, SelectWallet, flags, server
  <2>3. RestTypes'
    BY <1>1, <2>1, <2>2 DEF RestTypes
  <2> QED
    BY <2>1, <2>2, <2>3, QuietKeeps
<1>3. CASE BackToWalletSelection \/ PayTopUp
  <2>1. /\ UNCHANGED <<view, form, call, busy, acting, told, charge, intent>>
        /\ step' = step \/ (step = "insufficient-credit" /\ step' = "wallet")
    BY <1>3 DEF BackToWalletSelection, PayTopUp, flags, server
  <2>2. RestTypes'
    BY <1>1, <1>3, <2>1 DEF RestTypes, Steps, BackToWalletSelection, PayTopUp, server
  <2> QED
    BY <2>1, <2>2, QuietKeeps
<1>4. CASE Leave
  <2>1. RestTypes'
    BY <1>1, <1>4, BlankForm DEF RestTypes, Steps, Leave, flags, server
  <2>2. UNCHANGED <<view, call, busy, told, charge>> /\ step = "redirecting" /\ step' = "gone"
    BY <1>4 DEF Leave, flags, server
  <2> QED
    BY <2>1, <2>2, QuietKeeps
<1>5. CASE Expire
  <2>1. form' \in Forms /\ form'.known = form.known /\ form.known
    BY <1>1, <1>5 DEF RestTypes, Forms, Expire
  <2>2. /\ UNCHANGED <<view, call, busy, acting, told, charge, topup, intent>>
        /\ step' = step \/ (view = "widget" /\ step' = "expired")
    BY <1>5 DEF Expire, flags, server
  <2>3. RestTypes'
    BY <1>1, <2>1, <2>2 DEF RestTypes, Steps
  <2>4. step' = step \/ "pay" \notin {step, step'}
    BY <2>2 DEF IInv, PayStep
  <2> QED
    BY <2>1, <2>2, <2>3, <2>4, QuietKeeps
<1> QED
  BY <1>2, <1>3, <1>4, <1>5

(* Those that do; the last digit may, or not.                               *)
LEMMA AskingSteps ==
  ASSUME IInv, RequestOtp \/ VerifyOtp \/ EnterDigits \/ ContinueWithWallet \/ ConfirmTopUp
  PROVE  IInv'
<1>1. RestTypes
  BY TypesSplit DEF IInv
<1>2. /\ "otp" \in AwaitsOf("requestOtp") /\ "check" \in AwaitsOf("verifyOtp")
      /\ "attach" \in AwaitsOf("continue") /\ "topup" \in AwaitsOf("topUp")
      /\ {"requestOtp", "verifyOtp", "continue", "topUp"} \subseteq Guarded
  BY DEF AwaitsOf, Guarded
<1>3. form.selected \in Wallets \cup {NoWallet}
  BY <1>1 DEF RestTypes, Forms
<1>4. CASE RequestOtp
  <2> DEFINE with == IF form.captcha = "solved" THEN "right" ELSE "wrong"
  <2>1. /\ Asks("requestOtp", "otp", with) /\ ~busy /\ busy' /\ step \notin {"loading", "pay"}
        /\ UNCHANGED <<view, step, form, acting, told, charge, topup, intent>>
    BY <1>4 DEF RequestOtp, server
  <2>2. RestTypes'
    BY <1>1, <1>4, <2>1 DEF RestTypes, RequestOtp
  <2>3. with \in Wallets \cup {NoWallet, "right", "wrong"}
    OBVIOUS
  <2> QED
    BY <1>2, <2>1, <2>2, <2>3, StartKeeps
<1>5. CASE VerifyOtp \/ (EnterDigits /\ ~busy)
  <2>1. /\ Asks("verifyOtp", "check", NoWallet) /\ ~busy /\ busy' = TRUE /\ step = "otp"
        /\ UNCHANGED <<view, step, acting, told, charge, topup, intent>>
        /\ form' = form \/ form' = [form EXCEPT !.digits = TRUE]
    BY <1>5 DEF VerifyOtp, EnterDigits, ChecksOtp, MayAutoVerify, server
  <2>2. form' \in Forms /\ form'.known = form.known
    BY <1>1, <2>1 DEF RestTypes, Forms
  <2>3. RestTypes'
    BY <1>1, <2>1, <2>2 DEF RestTypes
  <2> QED
    BY <1>2, <2>1, <2>2, <2>3, StartKeeps
<1>6. CASE EnterDigits /\ busy
  <2>1. /\ UNCHANGED <<view, step, call, busy, acting, told, charge, topup, intent>>
        /\ form' = [form EXCEPT !.digits = TRUE]
    BY <1>6 DEF EnterDigits, MayAutoVerify, server
  <2>2. form' \in Forms /\ form'.known = form.known
    BY <1>1, <2>1 DEF RestTypes, Forms
  <2>3. RestTypes'
    BY <1>1, <2>1, <2>2 DEF RestTypes
  <2> QED
    BY <2>1, <2>2, <2>3, QuietKeeps
<1>7. CASE ContinueWithWallet
  <2>1. /\ Asks("continue", "attach", form.selected) /\ ~busy /\ busy' = TRUE /\ step = "wallet"
        /\ UNCHANGED <<view, step, form, acting, told, charge, topup, intent>>
    BY <1>7 DEF ContinueWithWallet, server
  <2>2. RestTypes'
    BY <1>1, <2>1 DEF RestTypes
  <2> QED
    BY <1>2, <1>3, <2>1, <2>2, StartKeeps
<1>8. CASE ConfirmTopUp
  <2>1. /\ Asks("topUp", "topup", form.selected) /\ ~busy /\ busy' = TRUE
        /\ step = "insufficient-credit"
        /\ UNCHANGED <<view, step, form, acting, told, charge, topup, intent>>
    BY <1>8 DEF ConfirmTopUp, server
  <2>2. RestTypes'
    BY <1>1, <2>1 DEF RestTypes
  <2> QED
    BY <1>2, <1>3, <2>1, <2>2, StartKeeps
<1>9. busy \in BOOLEAN
  BY <1>1 DEF RestTypes
<1> QED
  BY <1>4, <1>5, <1>6, <1>7, <1>8, <1>9

(* The pay step.                                                            *)
LEMMA ActSteps ==
  ASSUME IInv, \/ \E action \in {"confirm", "cancel"} : Act(action) \/ Acted(action)
               \/ InfoLoaded("act")
  PROVE  IInv'
<1>1. RestTypes
  BY TypesSplit DEF IInv
<1>2. /\ Idle \in Calls /\ Idle.at = "idle" /\ Idle.answer = "none"
      /\ "idle" \in AwaitsOf("act") /\ "idle" \notin Posts /\ "info" \notin Posts
      /\ {"confirm", "cancel", "info"} \subseteq AwaitsOf("act") \cap Awaits
      /\ {"confirm", "cancel"} \subseteq Posts
  BY CallKinds DEF AwaitsOf, Posts, Awaits
<1>3. ASSUME NEW action \in {"confirm", "cancel"}, Act(action)
      PROVE  IInv'
  <2> DEFINE c == [at |-> action, with |-> NoWallet, answer |-> "none"]
  <2>1. c \in Calls /\ c.at = action /\ c.answer = "none"
    BY <1>2, CallKinds
  <2>2. /\ call' = [call EXCEPT !["act"] = c] /\ step = "pay" /\ acting' = TRUE
        /\ UNCHANGED <<view, step, form, busy, told, charge, topup, intent>>
    BY <1>3 DEF Act, Asks, server
  <2>3. RestTypes'
    BY <1>1, <2>2 DEF RestTypes
  <2> HIDE DEF c
  <2> QED
    BY <1>2, <2>1, <2>2, <2>3, ActKeeps
<1>4. ASSUME NEW action \in {"confirm", "cancel"}, Acted(action)
      PROVE  IInv'
  <2> DEFINE c == [at |-> "info", with |-> NoWallet, answer |-> "none"]
  <2>1. c \in Calls /\ c.at = "info" /\ c.answer = "none"
    BY <1>2, CallKinds
  <2>2. /\ UNCHANGED <<view, busy, told, charge, topup, intent>>
        /\ call["act"].at # "idle"
        /\ \/ call' = [call EXCEPT !["act"] = Idle] /\ step' = "redirecting" /\ acting' = FALSE
              /\ form' = form
           \/ call' = [call EXCEPT !["act"] = c] /\ form' = [form EXCEPT !.error = TRUE]
              /\ UNCHANGED <<step, acting>>
    BY <1>4 DEF Acted, Asks, Ends, Got, server
  <2> HIDE DEF c
  <2>3. form' \in Forms /\ step' \in Steps
    BY <1>1, <2>2 DEF RestTypes, Forms, Steps
  <2>4. RestTypes'
    BY <1>1, <2>2, <2>3 DEF RestTypes
  <2> QED
    BY <1>2, <2>1, <2>2, <2>4, ActKeeps
<1>5. CASE InfoLoaded("act")
  <2>1. /\ UNCHANGED <<view, step, busy, told, charge, topup, intent>>
        /\ call["act"].at = "info" /\ call["act"].answer # "none"
        /\ call' = [call EXCEPT !["act"] = Idle] /\ acting' = FALSE
        /\ form' = IF call["act"].answer = "no" THEN [form EXCEPT !.error = TRUE]
                   ELSE [form EXCEPT !.info = call["act"].answer]
    BY <1>5 DEF InfoLoaded, Ends, server
  <2>2. call["act"].answer \in {"payable", "closed", "no"}
    BY <2>1 DEF IInv, InfoRead, Handlers
  <2>3. form' \in Forms
    BY <1>1, <2>1, <2>2 DEF RestTypes, Forms
  <2>4. RestTypes'
    BY <1>1, <2>1, <2>3 DEF RestTypes
  <2> QED
    BY <1>2, <2>1, <2>4, ActKeeps
<1> QED
  BY <1>3, <1>4, <1>5

(* onMounted after its awaits.                                              *)
LEMMA MountSteps ==
  ASSUME IInv, \/ MountResumes \/ TopUpResolved
               \/ CaptchaLoaded("mount") \/ InfoLoaded("mount") \/ Refreshed("mount")
  PROVE  IInv'
<1>1. RestTypes
  BY TypesSplit DEF IInv
<1>2. /\ Idle \in Calls /\ Idle.at = "idle" /\ Idle.answer = "none"
      /\ {"captcha", "info", "refresh"} \subseteq Awaits
  BY CallKinds DEF Awaits
<1> DEFINE c(at) == [at |-> at, with |-> NoWallet, answer |-> "none"]
<1>3. \A at \in {"captcha", "info", "refresh"} :
        c(at) \in Calls /\ c(at).at = at /\ c(at).answer = "none"
  BY <1>2, CallKinds
<1>4. CASE MountResumes
  <2>1. /\ UNCHANGED <<view, busy, acting, told, charge, topup, intent>>
        /\ call["mount"].at = "status"
        /\ form' = form \/ form' = [form EXCEPT !.known = TRUE]
        /\ \/ step' = "phone" /\ call' = [call EXCEPT !["mount"] = c("captcha")]
           \/ step' = "pay" /\ view = "page" /\ call' = [call EXCEPT !["mount"] = c("info")]
           \/ step' \in {"confirming", "error"} /\ call' = [call EXCEPT !["mount"] = Idle]
    BY <1>4 DEF MountResumes, EntersPayStep, Asks, Ends, Got, flags, server
  <2>2. form' \in Forms
    BY <1>1, <2>1 DEF RestTypes, Forms
  <2>3. RestTypes'
    BY <1>1, <2>1, <2>2 DEF RestTypes, Steps
  <2>4. told' = "COMPLETED" => charge.status = "COMPLETED"
    BY <2>1 DEF IInv, SuccessIsTrue
  <2> HIDE DEF c
  <2> QED
    BY <1>2, <1>3, <2>1, <2>3, <2>4, MountKeeps
<1>5. CASE TopUpResolved
  <2>1. /\ UNCHANGED <<view, form, busy, acting, charge, topup, intent>>
        /\ call["mount"].at \in {"topupVerify", "topupCancel"}
        /\ call' = [call EXCEPT !["mount"] = c("refresh")]
        /\ step' \in {"redirecting", "topup-result"} /\ told' \in {"COMPLETED", "FAILED"}
        /\ told' = "COMPLETED" => call["mount"].answer = "done"
    BY <1>5 DEF TopUpResolved, Asks, Succeeded, server
  <2>2. told' = "COMPLETED" => charge.status = "COMPLETED"
    BY <2>1 DEF IInv, DoneIsTrue, Handlers
  <2>3. RestTypes'
    BY <1>1, <2>1 DEF RestTypes, Steps
  <2> HIDE DEF c
  <2> QED
    BY <1>3, <2>1, <2>2, <2>3, MountKeeps
<1>6. CASE CaptchaLoaded("mount") \/ Refreshed("mount")
  <2>1. /\ UNCHANGED <<view, step, busy, acting, told, charge, topup, intent>>
        /\ call' = [call EXCEPT !["mount"] = Idle]
    BY <1>6 DEF CaptchaLoaded, Refreshed, Ends, server
  <2>2. form' \in Forms
    <3>1. CASE CaptchaLoaded("mount")
      BY <1>1, <3>1 DEF RestTypes, Forms, CaptchaLoaded
    <3>2. CASE Refreshed("mount")
      <4>1. form.known \in BOOLEAN /\ form \in Forms
        BY <1>1 DEF RestTypes, Forms
      <4>2. (form.known \/ call["mount"].answer # "no") \in BOOLEAN
        BY <4>1
      <4> QED
        BY <3>2, <4>1, <4>2 DEF Forms, Refreshed
    <3> QED
      BY <1>6, <3>1, <3>2
  <2>3. RestTypes'
    BY <1>1, <2>1, <2>2 DEF RestTypes
  <2>4. told' = "COMPLETED" => charge.status = "COMPLETED"
    BY <2>1 DEF IInv, SuccessIsTrue
  <2> QED
    BY <1>2, <2>1, <2>3, <2>4, MountKeeps
<1>7. CASE InfoLoaded("mount")
  <2>1. /\ UNCHANGED <<view, step, busy, acting, told, charge, topup, intent>>
        /\ call["mount"].at = "info" /\ call["mount"].answer # "none"
        /\ call' = [call EXCEPT !["mount"] = c("refresh")]
        /\ form' = IF call["mount"].answer = "no" THEN [form EXCEPT !.error = TRUE]
                   ELSE [form EXCEPT !.info = call["mount"].answer]
    BY <1>7 DEF InfoLoaded, Asks, server
  <2>2. call["mount"].answer \in {"payable", "closed", "no"}
    BY <2>1 DEF IInv, InfoRead, Handlers
  <2>3. form' \in Forms
    BY <1>1, <2>1, <2>2 DEF RestTypes, Forms
  <2>4. RestTypes'
    BY <1>1, <2>1, <2>3 DEF RestTypes
  <2>5. told' = "COMPLETED" => charge.status = "COMPLETED"
    BY <2>1 DEF IInv, SuccessIsTrue
  <2> HIDE DEF c
  <2> QED
    BY <1>3, <2>1, <2>4, <2>5, MountKeeps
<1> QED
  BY <1>4, <1>5, <1>6, <1>7

(* The handlers of identification and of the top-up.                        *)
LEMMA IdentifySteps ==
  ASSUME IInv, OtpRequested \/ OtpVerified \/ TopUpAnswered \/ CaptchaLoaded("requestOtp")
  PROVE  IInv'
<1>1. RestTypes
  BY TypesSplit DEF IInv
<1>2. /\ {"requestOtp", "verifyOtp", "topUp"} \subseteq Guarded
      /\ {"otp", "check", "topup"} \subseteq Posts /\ "captcha" \in AwaitsOf("requestOtp")
  BY DEF Guarded, Posts, AwaitsOf
<1>3. told = "COMPLETED" => charge.status = "COMPLETED"
  BY DEF IInv, SuccessIsTrue
<1>4. CASE OtpRequested
  <2>1. /\ UNCHANGED <<view, acting, told, charge, topup, intent>> /\ call["requestOtp"].at = "otp"
        /\ \/ Ends("requestOtp") /\ busy' = FALSE /\ step' = "otp" /\ form' = [form EXCEPT !.digits = FALSE]
           \/ Asks("requestOtp", "captcha", NoWallet) /\ UNCHANGED <<step, form, busy>>
    BY <1>4 DEF OtpRequested, Got, server
  <2>2. form' \in Forms
    BY <1>1, <2>1 DEF RestTypes, Forms
  <2>3. RestTypes'
    <3>1. step' \in Steps
      BY <1>1, <2>1 DEF RestTypes, Steps
    <3> QED
      BY <1>1, <2>1, <2>2, <3>1 DEF RestTypes
  <2>4. CASE Ends("requestOtp") /\ step' = "otp"
    BY <1>2, <1>3, <2>1, <2>3, <2>4, EndKeeps
  <2>5. CASE Asks("requestOtp", "captcha", NoWallet) /\ UNCHANGED <<step, form, busy>>
    BY <1>2, <2>1, <2>3, <2>5, GoOnKeeps
  <2> QED
    BY <2>1, <2>4, <2>5
<1>5. CASE OtpVerified
  <2>1. /\ UNCHANGED <<view, acting, told, charge, topup, intent>> /\ call["verifyOtp"].at = "check"
        /\ Ends("verifyOtp") /\ busy' = FALSE
        /\ \/ step' = "wallet" /\ form' = [Blank EXCEPT !.known = form.known, !.expired = form.expired]
           \/ UNCHANGED <<step, form>>
    BY <1>5 DEF OtpVerified, Got, server
  <2>2. form' \in Forms
    BY <1>1, <2>1 DEF RestTypes, Forms, Blank
  <2>3. RestTypes'
    <3>1. step' \in Steps
      BY <1>1, <2>1 DEF RestTypes, Steps
    <3> QED
      BY <1>1, <2>1, <2>2, <3>1 DEF RestTypes
  <2> QED
    BY <1>2, <1>3, <2>1, <2>3, EndKeeps
<1>6. CASE TopUpAnswered
  <2>1. /\ UNCHANGED <<view, form, acting, told, charge, topup, intent>> /\ call["topUp"].at = "topup"
        /\ Ends("topUp") /\ busy' \in {busy, FALSE} /\ step' \in {step, "gone"}
    BY <1>6 DEF TopUpAnswered, Got, server, BusyAfterError
  <2>2. RestTypes'
    <3>1. step' \in Steps
      BY <1>1, <2>1 DEF RestTypes, Steps
    <3> QED
      BY <1>1, <2>1, <3>1 DEF RestTypes
  <2> QED
    BY <1>2, <1>3, <2>1, <2>2, EndKeeps
<1>7. CASE CaptchaLoaded("requestOtp")
  <2>1. /\ UNCHANGED <<view, step, acting, told, charge, topup, intent>>
        /\ call["requestOtp"].at = "captcha" /\ Ends("requestOtp") /\ busy' = FALSE
    BY <1>7 DEF CaptchaLoaded, Got, server
  <2>2. form' \in Forms
    BY <1>1, <1>7 DEF RestTypes, Forms, CaptchaLoaded
  <2>3. RestTypes'
    BY <1>1, <2>1, <2>2 DEF RestTypes
  <2> QED
    BY <1>2, <1>3, <2>1, <2>3, EndKeeps
<1> QED
  BY <1>4, <1>5, <1>6, <1>7

(* The choice of a wallet, and what the widget or the page does after it.   *)
LEMMA ContinueSteps ==
  ASSUME IInv, \/ WalletAttached \/ SettlementConfirmed \/ SettlementEnds
               \/ InfoLoaded("continue") \/ Refreshed("continue")
  PROVE  IInv'
<1>1. RestTypes
  BY TypesSplit DEF IInv
<1>2. /\ "continue" \in Guarded /\ {"attach", "confirm", "verify"} \subseteq Posts
      /\ {"confirm", "verify", "info", "refresh"} \subseteq AwaitsOf("continue")
      /\ "info" \notin Posts /\ "refresh" \notin Posts
  BY DEF Guarded, Posts, AwaitsOf
<1>3. told = "COMPLETED" => charge.status = "COMPLETED"
  BY DEF IInv, SuccessIsTrue
<1>4. CASE WalletAttached
  <2>1. /\ UNCHANGED <<view, form, acting, told, charge, topup, intent>>
        /\ call["continue"].at = "attach"
        /\ \/ step' = "pay" /\ view = "page" /\ Asks("continue", "info", NoWallet) /\ busy' = busy
           \/ step' = "confirming" /\ Asks("continue", "confirm", NoWallet) /\ busy' = busy
           \/ step' \in {step, "insufficient-credit"} /\ Ends("continue") /\ busy' = FALSE
    BY <1>4 DEF WalletAttached, EntersPayStep, Got, server
  <2>2. RestTypes'
    <3>1. step' \in Steps
      BY <1>1, <2>1 DEF RestTypes, Steps
    <3> QED
      BY <1>1, <2>1, <3>1 DEF RestTypes
  <2>3. CASE step' = "pay" /\ view = "page" /\ Asks("continue", "info", NoWallet) /\ busy' = busy
    BY <1>2, <2>1, <2>2, <2>3, GoOnKeeps
  <2>4. CASE step' = "confirming" /\ Asks("continue", "confirm", NoWallet) /\ busy' = busy
    BY <1>2, <2>1, <2>2, <2>4, GoOnKeeps
  <2>5. CASE step' \in {step, "insufficient-credit"} /\ Ends("continue") /\ busy' = FALSE
    BY <1>2, <1>3, <2>1, <2>2, <2>5, EndKeeps
  <2> QED
    BY <2>1, <2>3, <2>4, <2>5
<1>5. CASE SettlementConfirmed
  <2>1. /\ UNCHANGED <<view, step, form, busy, acting, told, charge, topup, intent>>
        /\ call["continue"].at = "confirm" /\ Asks("continue", "verify", NoWallet)
    BY <1>5 DEF SettlementConfirmed, Got, flags, server
  <2>2. RestTypes'
    BY <1>1, <2>1 DEF RestTypes
  <2> QED
    BY <1>2, <2>1, <2>2, GoOnKeeps
<1>6. CASE SettlementEnds
  <2>1. /\ UNCHANGED <<view, form, acting, charge, topup, intent>>
        /\ call["continue"].at \in {"confirm", "verify"} /\ Ends("continue") /\ busy' = FALSE
        /\ step' \in {"completed", "failed"} /\ told' \in {"COMPLETED", "FAILED"}
        /\ told' = "COMPLETED" => call["continue"].answer = "done"
    BY <1>6 DEF SettlementEnds, Got, Succeeded, server
  <2>2. told' = "COMPLETED" => charge.status = "COMPLETED"
    BY <2>1 DEF IInv, DoneIsTrue, Handlers
  <2>3. RestTypes'
    BY <1>1, <2>1 DEF RestTypes, Steps
  <2> QED
    BY <1>2, <2>1, <2>2, <2>3, EndKeeps
<1>7. CASE InfoLoaded("continue")
  <2>1. /\ UNCHANGED <<view, step, busy, acting, told, charge, topup, intent>>
        /\ call["continue"].at = "info" /\ call["continue"].answer # "none"
        /\ Asks("continue", "refresh", NoWallet)
        /\ form' = IF call["continue"].answer = "no" THEN [form EXCEPT !.error = TRUE]
                   ELSE [form EXCEPT !.info = call["continue"].answer]
    BY <1>7 DEF InfoLoaded, server
  <2>2. call["continue"].answer \in {"payable", "closed", "no"}
    BY <2>1 DEF IInv, InfoRead, Handlers
  <2>3. form' \in Forms
    BY <1>1, <2>1, <2>2 DEF RestTypes, Forms
  <2>4. RestTypes'
    BY <1>1, <2>1, <2>3 DEF RestTypes
  <2> QED
    BY <1>2, <2>1, <2>4, GoOnKeeps
<1>8. CASE Refreshed("continue")
  <2>1. /\ UNCHANGED <<view, step, acting, told, charge, topup, intent>>
        /\ call["continue"].at = "refresh" /\ Ends("continue") /\ busy' = FALSE
    BY <1>8 DEF Refreshed, server
  <2>2. form \in Forms /\ (form.known \/ call["continue"].answer # "no") \in BOOLEAN
    BY <1>1 DEF RestTypes, Forms
  <2>3. form' \in Forms
    BY <1>8, <2>2 DEF Forms, Refreshed
  <2>4. RestTypes'
    BY <1>1, <2>1, <2>3 DEF RestTypes
  <2> QED
    BY <1>2, <1>3, <2>1, <2>4, EndKeeps
<1> QED
  BY <1>4, <1>5, <1>6, <1>7, <1>8
(* A page opened anew, in the same view or on the callback page.            *)
LEMMA OpenSteps == ASSUME IInv, Reload \/ Return PROVE IInv'
<1>1. view \in {"page", "widget"}
  BY TypesSplit DEF IInv, RestTypes
<1>2. CASE Reload
  <2>1. Open(view, "status")
    BY <1>2 DEF Reload
  <2> QED
    BY <1>1, <2>1, OpenKeeps
<1>3. CASE Return
  <2>1. PICK at \in {"topupVerify", "topupCancel"} : Open("page", at)
    BY <1>3 DEF Return
  <2> QED
    BY <2>1, OpenKeeps
<1> QED
  BY <1>2, <1>3

----------------------------------------------------------------------------
(* The servers.                                                             *)

(* A verification tells of a success when the purchase is completed.        *)
LEMMA VerificationKeeps ==
  ASSUME RestTypes, NEW a, Verification(a)
  PROVE  /\ charge' \in [status : {"PENDING", "COMPLETED", "REVERSED"}, payer : BOOLEAN]
         /\ intent' \in Statuses /\ topup' = topup /\ StaysPaid
         /\ a = "done" => charge'.status = "COMPLETED"
BY DEF RestTypes, Verification, Pending, Statuses, StaysPaid

(* The reads, and a request that is refused or lost.                        *)
LEMMA ReadSteps ==
  ASSUME IInv, NEW h \in Handlers, ServeRead(h) \/ ServeOtp(h) \/ ServeCheck(h) \/ Fail(h)
  PROVE  IInv'
<1>1. RestTypes
  BY TypesSplit DEF IInv
<1>2. charge' = charge /\ UNCHANGED <<view, step, busy, acting, told, topup, intent>> /\ Unchanged
  BY DEF ServeRead, ServeOtp, ServeCheck, Fail, Unchanged, flags, server
<1>3. form' \in Forms /\ form'.known = form.known
  BY <1>1 DEF RestTypes, Forms, ServeRead, ServeOtp, ServeCheck, Fail
<1>4. RestTypes' /\ StaysPaid
  BY <1>1, <1>2, <1>3 DEF RestTypes, StaysPaid
<1>5. PICK a \in {"choose", "attached", "payable", "closed", "yes", "no"} :
        /\ Replies(h, a) /\ call[h].at # "idle"
        /\ call[h].at = "info" => a \in {"payable", "closed", "no"}
  <2>1. CASE ServeRead(h)
    BY <2>1 DEF ServeRead, Waiting, Got, NeedsWalletSelection, PaymentStatus
  <2>2. CASE ServeOtp(h) \/ ServeCheck(h)
    BY <2>2 DEF ServeOtp, ServeCheck, Waiting, Got
  <2>3. CASE Fail(h)
    BY <2>3 DEF Fail
  <2> QED
    BY <2>1, <2>2, <2>3
<1>6. a \in Answers /\ a # "done"
  BY DEF Answers
<1> QED
  BY <1>2, <1>3, <1>4, <1>5, <1>6, ServedKeeps

(* What changes something.                                                  *)
LEMMA ChangeSteps ==
  ASSUME IInv, NEW h \in Handlers,
         \/ ServeAttach(h) \/ ServeTopUp(h) \/ ServeConfirm(h) \/ ServeVerify(h)
         \/ ServeTopUpReturn(h)
  PROVE  IInv'
<1>1. RestTypes
  BY TypesSplit DEF IInv
<1>2. UNCHANGED <<view, step, form, busy, acting, told>> /\ Unchanged
  BY DEF ServeAttach, ServeTopUp, ServeConfirm, ServeVerify, ServeTopUpReturn, Unchanged, flags
<1>3. PICK a \in {"short", "yes", "no", "done", "failed"} :
        /\ Replies(h, a) /\ call[h].at \notin {"idle", "info"}
        /\ charge' \in [status : {"PENDING", "COMPLETED", "REVERSED"}, payer : BOOLEAN]
        /\ topup' \in {"NONE", "PENDING", "PAID", "COMPLETED", "REVERSED"} /\ intent' \in Statuses
        /\ StaysPaid /\ (a = "done" => charge'.status = "COMPLETED")
  <2>1. CASE ServeAttach(h)
    BY <1>1, <2>1 DEF ServeAttach, Waiting, Got, Pending, Attached, RestTypes, StaysPaid
  <2>2. CASE ServeTopUp(h)
    BY <1>1, <2>2 DEF ServeTopUp, Waiting, Got, Pending, Attached, RestTypes, StaysPaid
  <2>3. CASE ServeConfirm(h)
    BY <1>1, <2>3 DEF ServeConfirm, Waiting, Got, Statuses, RestTypes, StaysPaid
  <2>4. CASE ServeVerify(h)
    BY <1>1, <2>4, VerificationKeeps DEF ServeVerify, Waiting, Got, RestTypes
  <2>5. CASE ServeTopUpReturn(h)
    BY <1>1, <2>5 DEF ServeTopUpReturn, Waiting, Got, RestTypes, StaysPaid
  <2> QED
    BY <2>1, <2>2, <2>3, <2>4, <2>5
<1>4. RestTypes'
  BY <1>1, <1>2, <1>3 DEF RestTypes
<1>5. a \in Answers
  BY DEF Answers
<1> QED
  BY <1>2, <1>3, <1>4, <1>5, ServedKeeps

(* What is done of the charge elsewhere.                                    *)
LEMMA ElsewhereKeeps == ASSUME IInv, Elsewhere PROVE IInv'
<1>1. RestTypes /\ call \in [Handlers -> Calls]
  BY TypesSplit DEF IInv
<1>2. UNCHANGED <<view, step, form, call, busy, acting, told>>
  BY DEF Elsewhere, flags
<1>3. /\ charge' \in [status : {"PENDING", "COMPLETED", "REVERSED"}, payer : BOOLEAN]
      /\ topup' \in {"NONE", "PENDING", "PAID", "COMPLETED", "REVERSED"} /\ intent' \in Statuses
      /\ StaysPaid
  <2>1. CASE \E a \in {"done", "failed", "no"} : Verification(a)
    BY <1>1, <2>1, VerificationKeeps DEF RestTypes
  <2>2. CASE ~ \E a \in {"done", "failed", "no"} : Verification(a)
    BY <1>1, <2>2 DEF Elsewhere, Pending, Attached, Statuses, RestTypes, StaysPaid
  <2> QED
    BY <2>1, <2>2
<1>4. TypeOK'
  BY <1>1, <1>2, <1>3, TypesSplitNext DEF RestTypes
<1>5. Whereabouts' /\ OneBusy' /\ Opening' /\ PayStep' /\ InfoRead'
  BY <1>2 DEF IInv, Whereabouts, OneBusy, Opening, PayStep, InfoRead
<1>6. DoneIsTrue' /\ SuccessIsTrue'
  BY <1>2, <1>3 DEF IInv, DoneIsTrue, SuccessIsTrue, StaysPaid
<1> QED
  BY <1>4, <1>5, <1>6 DEF IInv

----------------------------------------------------------------------------
(* A handler only resumes at its own awaits.                                *)
LEMMA OwnAwaits ==
  ASSUME IInv, NEW h \in Handlers
  PROVE  /\ CaptchaLoaded(h) => h \in {"mount", "requestOtp"}
         /\ InfoLoaded(h) => h \in {"mount", "continue", "act"}
         /\ Refreshed(h) => h \in {"mount", "continue"}
<1>1. call[h].at \in AwaitsOf(h)
  BY DEF IInv, Whereabouts
<1>2. /\ CaptchaLoaded(h) => call[h].at = "captcha"
      /\ InfoLoaded(h) => call[h].at = "info"
      /\ Refreshed(h) => call[h].at = "refresh"
  BY DEF CaptchaLoaded, InfoLoaded, Refreshed, Got
<1> QED
  BY <1>1, <1>2 DEF AwaitsOf, Handlers

LEMMA NextIInv == IInv /\ [Next]_vars => IInv'
<1> SUFFICES ASSUME IInv, [Next]_vars PROVE IInv'
  OBVIOUS
<1>1. CASE Customer
  <2>1. CASE \E action \in {"confirm", "cancel"} : Act(action)
    BY <2>1, ActSteps
  <2> QED
    BY <1>1, <2>1, QuietSteps, AskingSteps, OpenSteps DEF Customer
<1>2. CASE Resumes
  <2>1. ASSUME NEW h \in Handlers, CaptchaLoaded(h) \/ InfoLoaded(h) \/ Refreshed(h)
        PROVE  IInv'
    BY <2>1, OwnAwaits, MountSteps, IdentifySteps, ContinueSteps, ActSteps
  <2>2. CASE \E action \in {"confirm", "cancel"} : Acted(action)
    BY <2>2, ActSteps
  <2> QED
    BY <1>2, <2>1, <2>2, MountSteps, IdentifySteps, ContinueSteps DEF Resumes
<1>3. CASE \E h \in Handlers : Serve(h)
  BY <1>3, ReadSteps, ChangeSteps DEF Serve
<1>4. CASE UNCHANGED vars
  BY <1>4 DEF vars, flags, server, IInv, TypeOK, Whereabouts, OneBusy, Opening, PayStep,
              InfoRead, DoneIsTrue, SuccessIsTrue
<1> QED
  BY <1>1, <1>2, <1>3, <1>4, QuietSteps, ElsewhereKeeps DEF Next

(* Every reachable state is in the inductive invariant.                     *)
LEMMA Invariance == Spec => []IInv
BY InitIInv, NextIInv, PTL DEF Spec

(* Two handlers at requests that change something: not onMounted, which     *)
(* only reads or settles a top-up nobody else is at; not two of those that  *)
(* share gatewayBusy; and act is only there on the pay step.                *)
LEMMA OneRequest == IInv => OneRequestAtATime
<1> SUFFICES ASSUME IInv, NEW h \in Handlers, NEW k \in Handlers, h # k,
                    call[h].at \in Posts, call[k].at \in Posts
             PROVE  FALSE
  BY DEF OneRequestAtATime
<1>1. "mount" \in Handlers /\ AwaitsOf("mount") \cap Posts = {} /\ "idle" \notin Posts
  BY DEF AwaitsOf, Posts, Handlers
<1>2. h # "mount" /\ k # "mount"
  BY <1>1 DEF IInv, Whereabouts
<1>3. h \in Guarded \cup {"act"} /\ k \in Guarded \cup {"act"}
  BY <1>2 DEF Handlers, Guarded
<1>4. ~(h \in Guarded /\ k \in Guarded)
  BY <1>1 DEF IInv, OneBusy
<1>5. ~(h = "act" /\ k \in Guarded) /\ ~(h \in Guarded /\ k = "act")
  BY DEF IInv, PayStep
<1> QED
  BY <1>3, <1>4, <1>5

(* Type correctness of the page and the widget.                             *)
THEOREM CheckoutTypeCorrect == Spec => []TypeOK
BY Invariance, PTL DEF IInv

(* Whatever is clicked, entered, reloaded or lost, and whenever the last    *)
(* digit is entered or the time runs out, one request that changes          *)
(* something is on its way at most: gatewayBusy of four handlers and the    *)
(* flag of the pay step, which the handlers do not share, are enough.       *)
THEOREM OneChangeAtATime == Spec => []OneRequestAtATime
BY Invariance, OneRequest, PTL

(* A success that is shown, or emitted to the merchant's page, is one of a  *)
(* purchase that is completed, also after the charge was changed elsewhere. *)
THEOREM ToldSuccessIsTrue == Spec => []SuccessIsTrue
BY Invariance, PTL DEF IInv
----------------------------------------------------------------------------
(* The result.                                                              *)

(* Once it is told the page is past everything that could tell another one. *)
Results == {"completed", "failed", "redirecting", "topup-result", "expired", "gone"}
Past(s, c) ==
  /\ s \in Results /\ \A h \in Guarded : c[h].at = "idle"
  /\ c["mount"].at \notin {"status", "topupVerify", "topupCancel"} /\ c["act"].at \notin Posts

ToldIsLast == told # "nothing" => Past(step, call)

(* What can still happen then tells nothing.                                *)
LEMMA PastKeeps ==
  ASSUME IInv, Past(step, call), Next
  PROVE  Reload \/ Return \/ (told' = told /\ Past(step', call'))
<1>1. /\ step \in Results /\ \A h \in Guarded : call[h].at = "idle"
      /\ call["mount"].at \notin {"status", "topupVerify", "topupCancel"} /\ call["act"].at \notin Posts
      /\ call \in [Handlers -> Calls]
  BY TypesSplit DEF Past, IInv
<1>2. CASE Customer
  <2>1. Leave \/ PayTopUp \/ Reload \/ Return
    BY <1>1, <1>2 DEF Customer, Results, SolveCaptcha, RequestOtp, VerifyOtp, EnterDigits,
       ClearDigits, SelectWallet, ContinueWithWallet, ConfirmTopUp, BackToWalletSelection, Act
  <2>2. CASE Leave \/ PayTopUp
    BY <1>1, <2>2 DEF Leave, PayTopUp, Past, Results, flags
  <2> QED
    BY <2>1, <2>2
<1>3. CASE Resumes
  <2>1. PICK h \in Handlers : CaptchaLoaded(h) \/ InfoLoaded(h) \/ Refreshed(h)
    <3>1. {"requestOtp", "verifyOtp", "continue", "topUp"} \subseteq Guarded
          /\ {"confirm", "cancel"} \subseteq Posts
      BY DEF Guarded, Posts
    <3> QED
      BY <1>1, <1>3, <3>1 DEF Resumes, MountResumes, OtpRequested, OtpVerified, WalletAttached,
         SettlementConfirmed, SettlementEnds, TopUpAnswered, TopUpResolved, Acted, Got
  <2>2. call[h].at # "idle" /\ UNCHANGED <<step, told>>
        /\ (Ends(h) \/ Asks(h, "refresh", NoWallet))
    BY <2>1 DEF CaptchaLoaded, InfoLoaded, Refreshed, Got
  <2>3. call'[h].at \in {"idle", "refresh"}
    BY <1>1, <2>2 DEF Ends, Asks, Idle
  <2>4. \A k \in Handlers \ {h} : call'[k] = call[k]
    BY <1>1, <2>2 DEF Ends, Asks
  <2>5. h \notin Guarded
    BY <1>1, <2>2
  <2>6. Guarded \subseteq Handlers /\ {"mount", "act"} \subseteq Handlers
    BY DEF Guarded, Handlers
  <2>7. "idle" \notin Posts /\ "refresh" \notin Posts
    BY DEF Posts
  <2> QED
    BY <1>1, <2>2, <2>3, <2>4, <2>5, <2>6, <2>7 DEF Past
<1>4. CASE Expire \/ Elsewhere
  BY <1>1, <1>4 DEF Expire, Elsewhere, Past, Results, flags
<1>5. CASE \E h \in Handlers : Serve(h)
  <2>1. PICK h \in Handlers, a \in Answers : Replies(h, a) /\ Unchanged
    <3>1. PICK h \in Handlers : Serve(h)
      BY <1>5
    <3>2. \E a \in Answers : Replies(h, a) /\ Unchanged
      <4>1. {"payable", "closed", "yes", "no", "choose", "attached", "short", "done", "failed"}
              \subseteq Answers
        BY DEF Answers
      <4>2. CASE ServeRead(h) \/ ServeOtp(h) \/ ServeCheck(h) \/ Fail(h)
        BY <4>1, <4>2 DEF ServeRead, ServeOtp, ServeCheck, Fail, NeedsWalletSelection, PaymentStatus
      <4>3. CASE \/ ServeAttach(h) \/ ServeTopUp(h) \/ ServeConfirm(h) \/ ServeVerify(h)
                 \/ ServeTopUpReturn(h)
        BY <4>1, <4>3 DEF ServeAttach, ServeTopUp, ServeConfirm, ServeVerify, ServeTopUpReturn
      <4> QED
        BY <3>1, <4>2, <4>3 DEF Serve
    <3> QED
      BY <3>2
  <2>2. \A k \in Handlers : call'[k].at = call[k].at
    BY <1>1, <2>1 DEF Replies, Calls
  <2>3. Guarded \subseteq Handlers /\ {"mount", "act"} \subseteq Handlers
    BY DEF Guarded, Handlers
  <2>4. UNCHANGED <<step, told>>
    BY <2>1 DEF Unchanged, flags
  <2> QED
    BY <1>1, <2>2, <2>3, <2>4 DEF Past
<1> QED
  BY <1>2, <1>3, <1>4, <1>5 DEF Next

(* Told by the widget's settlement, or on the way back from a top-up.       *)
LEMMA TellsLast ==
  ASSUME IInv, SettlementEnds \/ TopUpResolved
  PROVE  Past(step', call')
<1>1. call \in [Handlers -> Calls]
  BY TypesSplit DEF IInv
<1>2. {"mount", "act", "continue"} \subseteq Handlers /\ Guarded \subseteq Handlers
      /\ "mount" \notin Guarded /\ "act" \notin Guarded /\ "continue" \in Guarded
      /\ {"confirm", "verify"} \subseteq Posts /\ "idle" \notin Posts
  BY DEF Handlers, Guarded, Posts
<1>3. CASE SettlementEnds
  <2>1. call["continue"].at \in {"confirm", "verify"} /\ step' \in Results
        /\ call' = [call EXCEPT !["continue"] = Idle]
    BY <1>3 DEF SettlementEnds, Got, Ends, Results
  <2>2. \A h \in Guarded : call'[h].at = "idle"
    BY <1>1, <1>2, <2>1 DEF IInv, OneBusy, Idle
  <2>3. call'["mount"] = call["mount"] /\ call'["act"] = call["act"]
    BY <1>1, <1>2, <2>1
  <2>4. call["mount"].at \notin {"status", "topupVerify", "topupCancel"}
    BY <1>2, <2>1 DEF IInv, Opening
  <2>5. call["act"].at \notin Posts
    BY <1>2, <2>1 DEF IInv, PayStep
  <2> QED
    BY <2>1, <2>2, <2>3, <2>4, <2>5 DEF Past
<1>4. CASE TopUpResolved
  <2>1. call["mount"].at \in {"topupVerify", "topupCancel"} /\ step' \in Results
        /\ call' = [call EXCEPT !["mount"] = [at |-> "refresh", with |-> NoWallet, answer |-> "none"]]
    BY <1>4 DEF TopUpResolved, Asks, Results
  <2>2. \A h \in Handlers \ {"mount"} : call'[h].at = "idle"
    BY <1>1, <2>1 DEF IInv, Opening
  <2>3. call'["mount"].at = "refresh"
    BY <1>1, <1>2, <2>1
  <2> QED
    BY <1>2, <2>1, <2>2, <2>3 DEF Past
<1> QED
  BY <1>3, <1>4
(* Any other step tells nothing new, and a page opened anew forgets.        *)
LEMMA ToldNext ==
  ASSUME IInv, ToldIsLast, [Next]_vars
  PROVE  ToldIsLast' /\ (told # "nothing" /\ told' # told => Reload \/ Return)
<1>1. CASE Reload \/ Return
  BY <1>1 DEF Reload, Return, Open, ToldIsLast
<1>2. CASE UNCHANGED vars
  BY <1>2 DEF vars, flags, ToldIsLast, Past
<1>3. CASE Next /\ ~(Reload \/ Return) /\ told # "nothing"
  BY <1>3, PastKeeps DEF ToldIsLast
<1>4. CASE SettlementEnds \/ TopUpResolved
  BY <1>3, <1>4, TellsLast DEF ToldIsLast, Next, Resumes
<1>5. CASE /\ Next /\ ~(Reload \/ Return) /\ told = "nothing"
           /\ ~(SettlementEnds \/ TopUpResolved)
  <2>1. told' = told
    <3>1. CASE Customer
      BY <1>5, <3>1 DEF Customer, SolveCaptcha, RequestOtp, VerifyOtp, EnterDigits, ClearDigits,
         SelectWallet, ContinueWithWallet, ConfirmTopUp, BackToWalletSelection, Act, Leave,
         PayTopUp, flags
    <3>2. CASE Resumes
      BY <1>5, <3>2 DEF Resumes, MountResumes, OtpRequested, OtpVerified, WalletAttached,
         SettlementConfirmed, TopUpAnswered, CaptchaLoaded, InfoLoaded, Refreshed, Acted, flags
    <3>3. CASE Expire \/ Elsewhere
      BY <3>3 DEF Expire, Elsewhere, flags
    <3>4. CASE \E h \in Handlers : Serve(h)
      BY <3>4 DEF Serve, ServeRead, ServeOtp, ServeCheck, ServeAttach, ServeTopUp, ServeConfirm,
         ServeVerify, ServeTopUpReturn, Fail, Unchanged, flags
    <3> QED
      BY <1>5, <3>1, <3>2, <3>3, <3>4 DEF Next
  <2> QED
    BY <1>5, <2>1 DEF ToldIsLast
<1> QED
  BY <1>1, <1>2, <1>3, <1>4, <1>5

(* Between two openings of the page one result is told: neither the widget's *)
(* settlement nor the return from a top-up can be answered a second time,   *)
(* and what is still on its way tells nothing.                              *)
THEOREM OneResultIsTold == Spec => ResultStands
<1>1. Init => ToldIsLast
  BY DEF Init, ToldIsLast
<1>2. IInv /\ ToldIsLast /\ [Next]_vars => ToldIsLast'
  BY ToldNext
<1>3. IInv /\ ToldIsLast /\ [Next]_vars => [told # "nothing" /\ told' # told => Reload \/ Return]_vars
  BY ToldNext
<1> QED
  BY Invariance, <1>1, <1>2, <1>3, PTL DEF Spec, ResultStands
=============================================================================
