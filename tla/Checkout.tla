------------------------------ MODULE Checkout ------------------------------
(***************************************************************************)
(* The payment page and the payment widget in a customer's browser, and    *)
(* the requests they make.  Up to the choice of a wallet they do the same; *)
(* then the page confirms at the sandbox gateway and sends the browser     *)
(* away, and the widget confirms and verifies in place.                    *)
(*                                                                         *)
(* A handler is an async function: it runs from one await to the next, and *)
(* in between the customer clicks, the clock runs out and the charge is    *)
(* changed by others.  A request is refused, or its answer is lost, at any *)
(* time.  What the servers do is one step here: PayPage, CreditPurchases   *)
(* and Payments have their insides.                                        *)
(***************************************************************************)
EXTENDS Naturals

CONSTANTS
  Wallets,   \* the customer's wallets
  Short,     \* credit wallets that cannot cover the charge on their own
  NoWallet,
  Views      \* where the charge is opened: "page", "widget"

ASSUME WalletAssumption == Short \subseteq Wallets /\ NoWallet \notin Wallets
ASSUME ViewAssumption == Views \subseteq {"page", "widget"}

Handlers == {"mount", "requestOtp", "verifyOtp", "continue", "topUp", "act"}
Posts == {"otp", "check", "attach", "topup", "confirm", "cancel", "verify"}
Awaits == Posts \cup {"idle", "status", "captcha", "info", "refresh", "topupVerify", "topupCancel"}
Statuses == {"INITIATED", "AUTHORIZED", "VERIFIED", "CLOSED"} \* CANCELED or EXPIRED
Answers == {"none", "payable", "closed", "yes", "no", "choose", "attached", "short", "done", "failed"}

VARIABLES
  view, step, \* which of the two is open, and what it shows
  form,       \* what the customer has entered and what was read of the charge
  call,       \* call[h]: the await a handler is at, what it sent, the answer
  busy, acting, \* gatewayBusy, and busy of the page's last step
  told,       \* the result shown, and emitted to the merchant's page
  charge,     \* status of the PURCHASE row, and whether it has a payer
  topup,      \* status of its last top-up, PAID when only the gateway knows
  intent      \* the gateway's intent

flags  == <<busy, acting, told>>
server == <<charge, topup, intent>>
vars   == <<view, step, form, call, flags, server>>

Idle  == [at |-> "idle", with |-> NoWallet, answer |-> "none"]
Blank == [captcha |-> "none", digits |-> FALSE, selected |-> NoWallet,
          info |-> "none", error |-> FALSE, known |-> FALSE, expired |-> FALSE]

\* A page that has just been opened: onMounted is at its first await.
Opened(at) == [h \in Handlers |-> IF h = "mount" THEN [Idle EXCEPT !.at = at] ELSE Idle]

Init ==
  /\ view \in Views /\ step = "loading" /\ form = Blank /\ call = Opened("status")
  /\ busy = FALSE /\ acting = FALSE /\ told = "nothing"
  /\ charge = [status |-> "PENDING", payer |-> FALSE]
  /\ topup = "NONE"
  /\ intent = "INITIATED"

Asks(h, at, with) == call' = [call EXCEPT ![h] = [at |-> at, with |-> with, answer |-> "none"]]
Ends(h)       == call' = [call EXCEPT ![h] = Idle]
Replies(h, a) == call' = [call EXCEPT ![h].answer = a]
Got(h, at, a) == call[h].at = at /\ call[h].answer = a

----------------------------------------------------------------------------
(* What the customer does.  The page hides its forms once the time is up.   *)

Usable == view = "page" => ~form.expired

SolveCaptcha ==
  /\ step = "phone" /\ Usable /\ form.captcha = "shown"
  /\ form' = [form EXCEPT !.captcha = "solved"]
  /\ UNCHANGED <<view, step, call, flags, server>>

\* The captcha sent may be wrong, missing, or one that was accepted before.
RequestOtp ==
  /\ step \in {"phone", "otp"} /\ Usable /\ ~busy /\ busy' = TRUE
  /\ Asks("requestOtp", "otp", IF form.captcha = "solved" THEN "right" ELSE "wrong")
  /\ UNCHANGED <<view, step, form, acting, told, server>>

ChecksOtp == busy' = TRUE /\ Asks("verifyOtp", "check", NoWallet)

VerifyOtp ==
  /\ step = "otp" /\ Usable /\ form.digits /\ ~busy /\ ChecksOtp
  /\ UNCHANGED <<view, step, form, acting, told, server>>

\* Mutant: the last digit submits the code in any case.
AlwaysAutoVerify == TRUE
MayAutoVerify == ~busy

\* The last digit submits the code, through a watcher.
EnterDigits ==
  /\ step = "otp" /\ Usable /\ ~form.digits /\ form' = [form EXCEPT !.digits = TRUE]
  /\ IF MayAutoVerify THEN ChecksOtp ELSE UNCHANGED <<busy, call>>
  /\ UNCHANGED <<view, step, acting, told, server>>

ClearDigits ==
  /\ step = "otp" /\ Usable /\ form.digits /\ form' = [form EXCEPT !.digits = FALSE]
  /\ UNCHANGED <<view, step, call, flags, server>>

\* Possible also while the choice before is on its way.
SelectWallet(w) ==
  /\ step = "wallet" /\ form.selected # w /\ form' = [form EXCEPT !.selected = w]
  /\ UNCHANGED <<view, step, call, flags, server>>

ContinueWithWallet ==
  /\ step = "wallet" /\ Usable /\ form.selected # NoWallet /\ ~busy /\ busy' = TRUE
  /\ Asks("continue", "attach", form.selected)
  /\ UNCHANGED <<view, step, form, acting, told, server>>

ConfirmTopUp ==
  /\ step = "insufficient-credit" /\ ~busy /\ busy' = TRUE
  /\ Asks("topUp", "topup", form.selected)
  /\ UNCHANGED <<view, step, form, acting, told, server>>

BackToWalletSelection ==
  /\ step = "insufficient-credit" /\ ~busy /\ step' = "wallet"
  /\ UNCHANGED <<view, form, call, flags, server>>

\* Confirm or cancel; after an error the buttons are not shown again.
Act(action) ==
  /\ step = "pay" /\ Usable /\ form.info = "payable" /\ ~form.error
  /\ ~acting /\ acting' = TRUE /\ Asks("act", action, NoWallet)
  /\ UNCHANGED <<view, step, form, busy, told, server>>

\* The timer, or the button.
Leave ==
  /\ step = "redirecting" /\ step' = "gone" /\ form' = Blank
  /\ UNCHANGED <<view, call, flags, server>>

\* A page opened anew: nothing is left of the one before.  A request that was
\* on its way is still handled, as one from elsewhere.
Open(v, at) ==
  /\ view' = v /\ step' = "loading" /\ form' = Blank /\ call' = Opened(at)
  /\ busy' = FALSE /\ acting' = FALSE /\ told' = "nothing"
  /\ UNCHANGED server

Reload == Open(view, "status")

----------------------------------------------------------------------------
(* The handlers after their awaits.                                         *)

\* enterPayStep of the page, in the middle of handler h
EntersPayStep(h) == step' = "pay" /\ Asks(h, "info", NoWallet)

MountResumes ==
  /\ \/ /\ Got("mount", "status", "choose")
        /\ step' = "phone" /\ Asks("mount", "captcha", NoWallet)
        /\ form' = [form EXCEPT !.known = TRUE]
     \/ /\ Got("mount", "status", "attached") /\ form' = [form EXCEPT !.known = TRUE]
        /\ IF view = "page" THEN EntersPayStep("mount")
                            ELSE step' = "confirming" /\ Ends("mount")
     \/ /\ Got("mount", "status", "no") /\ UNCHANGED form
        /\ IF view = "page" THEN EntersPayStep("mount") ELSE step' = "error" /\ Ends("mount")
  /\ UNCHANGED <<view, flags, server>>

\* In onMounted; and in onRequestOtp after an error, before the button is free.
\* When it fails the image goes, and what was entered stays.
CaptchaLoaded(h) ==
  /\ \/ Got(h, "captcha", "yes") /\ form' = [form EXCEPT !.captcha = "shown"]
     \/ /\ Got(h, "captcha", "no")
        /\ form' = [form EXCEPT !.captcha = IF @ = "shown" THEN "none" ELSE @]
  /\ busy' = IF h = "requestOtp" THEN FALSE ELSE busy
  /\ Ends(h) /\ UNCHANGED <<view, step, acting, told, server>>

OtpRequested ==
  /\ \/ /\ Got("requestOtp", "otp", "yes") /\ Ends("requestOtp") /\ busy' = FALSE
        /\ step' = "otp" /\ form' = [form EXCEPT !.digits = FALSE]
     \/ /\ Got("requestOtp", "otp", "no") /\ Asks("requestOtp", "captcha", NoWallet)
        /\ UNCHANGED <<step, form, busy>>
  /\ UNCHANGED <<view, acting, told, server>>

\* What was entered before is not looked at again.
OtpVerified ==
  /\ \/ /\ Got("verifyOtp", "check", "yes")
        /\ step' = "wallet" /\ form' = [Blank EXCEPT !.known = form.known, !.expired = form.expired]
     \/ Got("verifyOtp", "check", "no") /\ UNCHANGED <<step, form>>
  /\ Ends("verifyOtp") /\ busy' = FALSE
  /\ UNCHANGED <<view, acting, told, server>>

WalletAttached ==
  /\ \/ /\ Got("continue", "attach", "yes") /\ UNCHANGED busy
        /\ IF view = "page" THEN EntersPayStep("continue")
                            ELSE step' = "confirming" /\ Asks("continue", "confirm", NoWallet)
     \/ /\ Got("continue", "attach", "short") /\ step' = "insufficient-credit"
        /\ busy' = FALSE /\ Ends("continue")
     \/ /\ Got("continue", "attach", "no") /\ UNCHANGED step
        /\ busy' = FALSE /\ Ends("continue")
  /\ UNCHANGED <<view, form, acting, told, server>>

\* loadPaymentInfo, and then the charge is read once more for its plan.
InfoLoaded(h) ==
  /\ call[h].at = "info" /\ call[h].answer # "none"
  /\ form' = IF call[h].answer = "no" THEN [form EXCEPT !.error = TRUE]
             ELSE [form EXCEPT !.info = call[h].answer]
  /\ IF h = "act" THEN acting' = FALSE /\ Ends(h)
                  ELSE Asks(h, "refresh", NoWallet) /\ UNCHANGED acting
  /\ UNCHANGED <<view, step, busy, told, server>>

Refreshed(h) ==
  /\ call[h].at = "refresh" /\ call[h].answer # "none" /\ Ends(h)
  /\ form' = [form EXCEPT !.known = @ \/ call[h].answer # "no"]
  /\ busy' = IF h = "continue" THEN FALSE ELSE busy
  /\ UNCHANGED <<view, step, acting, told, server>>

Acted(action) ==
  /\ \/ /\ Got("act", action, "yes") /\ Ends("act")
        /\ step' = "redirecting" /\ acting' = FALSE /\ UNCHANGED form
     \/ /\ Got("act", action, "no") /\ Asks("act", "info", NoWallet)
        /\ form' = [form EXCEPT !.error = TRUE] /\ UNCHANGED <<step, acting>>
  /\ UNCHANGED <<view, busy, told, server>>

\* Mutant: an answer without an error is taken for a success.
AnyAnswer(a) == a \in {"done", "failed"}
Succeeded(a) == a = "done"

\* attemptSettlement of the widget: confirmed, then verified.
SettlementConfirmed ==
  /\ Got("continue", "confirm", "yes") /\ Asks("continue", "verify", NoWallet)
  /\ UNCHANGED <<view, step, form, flags, server>>

SettlementEnds ==
  /\ \/ Got("continue", "confirm", "no")
     \/ call["continue"].at = "verify" /\ call["continue"].answer # "none"
  /\ IF Succeeded(call["continue"].answer)
     THEN step' = "completed" /\ told' = "COMPLETED"
     ELSE step' = "failed" /\ told' = "FAILED"
  /\ busy' = FALSE /\ Ends("continue")
  /\ UNCHANGED <<view, form, acting, server>>

\* Mutant: the button stays disabled after an error.
BusyForEver == TRUE
BusyAfterError == FALSE

TopUpAnswered ==
  /\ \/ Got("topUp", "topup", "yes") /\ step' = "gone" /\ UNCHANGED busy
     \/ Got("topUp", "topup", "no") /\ busy' = BusyAfterError /\ UNCHANGED step
  /\ Ends("topUp") /\ UNCHANGED <<view, form, acting, told, server>>

\* resolveTopUpCallback: the browser is back from the gateway.
TopUpResolved ==
  /\ call["mount"].at \in {"topupVerify", "topupCancel"} /\ call["mount"].answer # "none"
  /\ IF Succeeded(call["mount"].answer)
     THEN step' = "redirecting" /\ told' = "COMPLETED"
     ELSE step' = "topup-result" /\ told' = "FAILED"
  /\ Asks("mount", "refresh", NoWallet)
  /\ UNCHANGED <<view, form, busy, acting, server>>

\* The countdown.  The widget shows it in place of its step, whatever is on
\* its way; the page shows it on top.
Expire ==
  /\ form.known /\ ~form.expired /\ form' = [form EXCEPT !.expired = TRUE]
  /\ step' = IF view = "widget" /\ step \notin {"completed", "failed", "gone"}
             THEN "expired" ELSE step
  /\ UNCHANGED <<view, call, flags, server>>

----------------------------------------------------------------------------
(* The servers.                                                             *)

Waiting(h, at) == Got(h, at, "none")
Pending == charge.status = "PENDING"
Unchanged == UNCHANGED <<view, step, flags>>

NeedsWalletSelection == IF charge.payer THEN "attached" ELSE "choose"

\* Mutant: a status the page does not know is passed on.
StatusItself == intent
PaymentStatus == IF intent = "INITIATED" THEN "payable" ELSE "closed"

ServeRead(h) ==
  /\ \/ Waiting(h, "status") /\ Replies(h, NeedsWalletSelection)
     \/ Waiting(h, "info") /\ Replies(h, PaymentStatus)
     \/ (Waiting(h, "captcha") \/ Waiting(h, "refresh")) /\ Replies(h, "yes")
  /\ Unchanged /\ UNCHANGED <<form, server>>

\* A captcha is consumed also for a phone number nobody has.
ServeOtp(h) ==
  /\ Waiting(h, "otp") /\ Pending /\ call[h].with = "right"
  /\ form' = [form EXCEPT !.captcha = "spent"]
  /\ Replies(h, "yes") \/ Replies(h, "no")
  /\ Unchanged /\ UNCHANGED server

ServeCheck(h) ==
  /\ Waiting(h, "check") /\ Pending /\ Replies(h, "yes")
  /\ Unchanged /\ UNCHANGED <<form, server>>

Attached == [charge EXCEPT !.payer = TRUE]

ServeAttach(h) ==
  /\ Waiting(h, "attach") /\ Pending
  /\ IF call[h].with \in Short THEN Replies(h, "short") /\ UNCHANGED charge
     ELSE Replies(h, "yes") /\ charge' = Attached
  /\ Unchanged /\ UNCHANGED <<form, intent, topup>>

\* A PENDING top-up is handed back.
ServeTopUp(h) ==
  /\ Waiting(h, "topup") /\ Pending /\ call[h].with \in Short
  /\ charge' = Attached /\ Replies(h, "yes")
  /\ topup' = IF topup = "PAID" THEN topup ELSE "PENDING"
  /\ Unchanged /\ UNCHANGED <<form, intent>>

ServeConfirm(h) ==
  /\ intent = "INITIATED" /\ Replies(h, "yes")
  /\ \/ Waiting(h, "confirm") /\ intent' = "AUTHORIZED"
     \/ Waiting(h, "cancel") /\ intent' = "CLOSED"
  /\ Unchanged /\ UNCHANGED <<form, charge, topup>>

\* A purchase is verified, with answer a; the settlement may be refused.
Verification(a) ==
  /\ charge.payer
  /\ \/ charge.status = "COMPLETED" /\ a = "done" /\ UNCHANGED <<charge, intent>>
     \/ Pending /\ intent # "AUTHORIZED" /\ a = "failed" /\ UNCHANGED <<charge, intent>>
     \/ /\ Pending /\ intent = "AUTHORIZED" /\ intent' = "VERIFIED"
        /\ \/ a = "done" /\ charge' = [charge EXCEPT !.status = "COMPLETED"]
           \/ a = "no" /\ UNCHANGED charge
  /\ UNCHANGED topup

ServeVerify(h) ==
  /\ Waiting(h, "verify") /\ \E a \in {"done", "failed", "no"} : Verification(a) /\ Replies(h, a)
  /\ Unchanged /\ UNCHANGED form

\* A paid top-up completes its purchase, also one that is reversed.
ServeTopUpReturn(h) ==
  /\ \/ /\ Waiting(h, "topupVerify") /\ Replies(h, "failed")
        /\ topup \in {"PENDING", "REVERSED"} /\ UNCHANGED <<charge, topup>>
     \/ /\ Waiting(h, "topupVerify") /\ Replies(h, "done")
        /\ topup \in {"PAID", "COMPLETED"} /\ topup' = "COMPLETED"
        /\ charge' = [charge EXCEPT !.status = "COMPLETED"]
     \/ /\ Waiting(h, "topupCancel") /\ topup \in {"PENDING", "PAID"} /\ Replies(h, "yes")
        /\ topup' = "REVERSED" /\ UNCHANGED charge
  /\ Unchanged /\ UNCHANGED <<form, intent>>

\* Refused, never arrived, or handled and the answer lost.
Fail(h) ==
  /\ call[h].at # "idle" /\ call[h].answer # "no" /\ Replies(h, "no")
  /\ Unchanged /\ UNCHANGED <<form, server>>

\* At the real gateway, which sends the browser to the callback page.
PayTopUp ==
  /\ step = "gone" /\ topup = "PENDING" /\ topup' = "PAID"
  /\ UNCHANGED <<view, step, form, call, flags, charge, intent>>

Return ==
  /\ step = "gone"
  /\ \/ topup \in {"PENDING", "REVERSED"} /\ Open("page", "topupCancel")
     \/ topup \in {"PAID", "COMPLETED", "REVERSED"} /\ Open("page", "topupVerify")

\* The merchant, the callback page, another tab, the timeout sweep, and time.
\* A refund is left out: the charge was paid, which is what COMPLETED stands for.
Elsewhere ==
  /\ \/ \E a \in {"done", "failed", "no"} : Verification(a)
     \/ /\ Pending /\ charge' = [charge EXCEPT !.status = "REVERSED"]
        /\ UNCHANGED <<intent, topup>>
     \/ /\ topup \in {"PENDING", "PAID"} /\ topup' = "REVERSED"
        /\ UNCHANGED <<charge, intent>>
     \/ /\ Pending /\ charge' = Attached /\ UNCHANGED intent
        /\ UNCHANGED topup \/ (topup # "PAID" /\ topup' = "PENDING")
     \/ intent = "INITIATED" /\ intent' \in {"AUTHORIZED", "CLOSED"} /\ UNCHANGED <<charge, topup>>
  /\ UNCHANGED <<view, step, form, call, flags>>

----------------------------------------------------------------------------
Customer ==
  \/ SolveCaptcha \/ RequestOtp \/ VerifyOtp \/ EnterDigits \/ ClearDigits
  \/ \E w \in Wallets : SelectWallet(w)
  \/ ContinueWithWallet \/ ConfirmTopUp \/ BackToWalletSelection
  \/ \E action \in {"confirm", "cancel"} : Act(action)
  \/ Leave \/ Reload \/ PayTopUp \/ Return

Resumes ==
  \/ MountResumes \/ OtpRequested \/ OtpVerified \/ WalletAttached
  \/ SettlementConfirmed \/ SettlementEnds \/ TopUpAnswered \/ TopUpResolved
  \/ \E h \in Handlers : CaptchaLoaded(h) \/ InfoLoaded(h) \/ Refreshed(h)
  \/ \E action \in {"confirm", "cancel"} : Acted(action)

Serve(h) ==
  \/ ServeRead(h) \/ ServeOtp(h) \/ ServeCheck(h) \/ ServeAttach(h) \/ ServeTopUp(h)
  \/ ServeConfirm(h) \/ ServeVerify(h) \/ ServeTopUpReturn(h) \/ Fail(h)

Next == Customer \/ Resumes \/ Expire \/ Elsewhere \/ \E h \in Handlers : Serve(h)

Spec == Init /\ [][Next]_vars

Answer == \E h \in Handlers : call[h].answer = "none" /\ Serve(h)

\* Requests end, with an answer or an error, and the browser resumes the
\* handler that waits for it.  The customer owes nothing.
FairSpec == Spec /\ WF_vars(Resumes) /\ WF_vars(Answer)

----------------------------------------------------------------------------
(* What must hold.                                                          *)

Steps == {"loading", "phone", "otp", "wallet", "insufficient-credit", "pay", "redirecting",
          "topup-result", "confirming", "completed", "failed", "error", "expired", "gone"}

TypeOK ==
  /\ view \in {"page", "widget"} /\ step \in Steps
  /\ form \in [captcha : {"none", "shown", "solved", "spent"}, digits : BOOLEAN,
              selected : Wallets \cup {NoWallet},
              info : {"none", "payable", "closed"}, error : BOOLEAN, known : BOOLEAN, expired : BOOLEAN]
  /\ call \in [Handlers -> [at : Awaits, with : Wallets \cup {NoWallet, "right", "wrong"},
                           answer : Answers]]
  /\ {busy, acting} \subseteq BOOLEAN /\ told \in {"nothing", "COMPLETED", "FAILED"}
  /\ charge \in [status : {"PENDING", "COMPLETED", "REVERSED"}, payer : BOOLEAN]
  /\ topup \in {"NONE", "PENDING", "PAID", "COMPLETED", "REVERSED"}
  /\ intent \in Statuses

\* Two requests that change something are never on their way at once, though
\* a watcher, two buttons and the tail of another handler may all start one.
OneRequestAtATime ==
  \A h, k \in Handlers : h # k => ~(call[h].at \in Posts /\ call[k].at \in Posts)

\* Whoever is shown or told a success has paid: also when the time ran out, a
\* top-up was late, or the verification found the purchase completed before.
SuccessIsTrue == told = "COMPLETED" => charge.status = "COMPLETED"

\* One result is shown and told to the merchant's page: no answer that comes
\* late, no click and no clock replaces it until the page is opened anew.
ResultStands == [][told # "nothing" /\ told' # told => Reload \/ Return]_vars

\* No answer and no error leaves the buttons disabled, unless the browser is
\* on its way to the gateway.
ButtonsComeBack == (busy \/ acting) ~> ((~busy /\ ~acting) \/ step = "gone")
=============================================================================
