---------------------------- MODULE AuthScreens ----------------------------
(***************************************************************************)
(* The dialogs of Login and SignUp.                                        *)
(*                                                                         *)
(* Both screens call FirebaseAuth and learn the outcome in a completion    *)
(* block.  Nothing disables the buttons meanwhile, and the blocks do not   *)
(* set the flag of a dialog, they toggle it.  SignUp is pushed over Login, *)
(* which keeps its state; resend and verify2 belong to Authenticate and    *)
(* are shared by the two screens and outlive them.                         *)
(*                                                                         *)
(* A call is answered in one step, that of its completion block: what      *)
(* happens to the current user is the matter of module Session.            *)
(***************************************************************************)
EXTENDS Integers

CONSTANTS
  Emails,        \* what the user may type into the e-mail field of SignUp
  MaxCalls       \* bound: calls of FirebaseAuth under way at a time

ASSUME EmailsAssumption == "" \notin Emails
ASSUME MaxCallsAssumption == MaxCalls \in Nat

VARIABLES
  status,           \* Authenticate shows JournalList instead of Login
  show,             \* Authenticate.show: SignUp is pushed over Login
  resend,           \* Authenticate.resend: dialogs offer to send the mail again
  verify2,          \* Authenticate.verify2: ReSentView is shown over Login
  alert,            \* Login.alert and SignUp.alert
  error,            \* Login.error and SignUp.error
  email,            \* SignUp.email
  verify,           \* SignUp.verify: SuccessView is shown
  registerPressed,  \* SignUp.registerPressed
  calls,            \* the calls FirebaseAuth has not answered
  (* History variables of the screens as they are now. *)
  impatient,        \* a button was tapped while a call of the screen was under way
  edited,           \* SignUp.email was edited while createUser was under way
  resent,           \* a mail was sent again from the dialog of SignUp
  mailSkipped,      \* SignUp.createUser did not ask for the verification mail
  profileWrong      \* SignUp.createUser stored another address than the account's

shared == <<status, show, resend, verify2>>
signUpState == <<email, verify, registerPressed>>
signUpHistory == <<edited, resent, mailSkipped, profileWrong>>
vars == <<shared, alert, error, signUpState, calls, impatient, signUpHistory>>

Screens == {"Login", "SignUp"}
Slots == 1 .. MaxCalls

(* "other" stands for every message that no code looks at. *)
Texts == {"", "RESET", "unverified", "other"}

(***************************************************************************)
(* screen is the screen whose state the completion block has captured, or  *)
(* "gone" when SwiftUI has dropped that state.                             *)
(***************************************************************************)
Kinds == {"signIn", "reset", "createUser", "verification", "resend"}
Call(kind, screen, address) == [kind |-> kind, screen |-> screen, email |-> address]
NoCall == Call("none", "none", "")
Calls == [kind : Kinds, screen : Screens \cup {"gone"}, email : Emails \cup {""}]
           \cup {NoCall}

(* Every variable has its type. *)
TypeOK ==
  /\ status \in BOOLEAN /\ show \in BOOLEAN
  /\ resend \in BOOLEAN /\ verify2 \in BOOLEAN
  /\ alert \in [Screens -> BOOLEAN]
  /\ error \in [Screens -> Texts]
  /\ email \in Emails \cup {""}
  /\ verify \in BOOLEAN /\ registerPressed \in BOOLEAN
  /\ calls \in [Slots -> Calls]
  /\ impatient \in [Screens -> BOOLEAN]
  /\ edited \in BOOLEAN /\ resent \in BOOLEAN
  /\ mailSkipped \in BOOLEAN /\ profileWrong \in BOOLEAN

(* The app is started without a signed-in user. *)
Init ==
  /\ status = FALSE /\ show = FALSE
  /\ resend = FALSE /\ verify2 = FALSE
  /\ alert = [s \in Screens |-> FALSE]
  /\ error = [s \in Screens |-> ""]
  /\ email = "" /\ verify = FALSE /\ registerPressed = FALSE
  /\ calls = [i \in Slots |-> NoCall]
  /\ impatient = [s \in Screens |-> FALSE]
  /\ edited = FALSE /\ resent = FALSE
  /\ mailSkipped = FALSE /\ profileWrong = FALSE

-----------------------------------------------------------------------------
(* What is on the screen.  A dialog covers the form and takes its touches. *)

Shown(s) == ~ status /\ (show <=> s = "SignUp")

Covered(s) == IF s = "Login" THEN verify2 ELSE verify

FormOnTop(s) == Shown(s) /\ ~ alert[s] /\ ~ Covered(s)

(* ErrorView of Login, RegisterErrorView of SignUp *)
ErrorViewOnTop(s) == Shown(s) /\ alert[s] /\ ~ Covered(s)

(* registerPressed && !verify && error == "" *)
Spinner == registerPressed /\ ~ verify /\ error["SignUp"] = ""

Waiting(s) == \E i \in Slots : calls[i].screen = s

Registering == \E i \in Slots : calls[i].screen = "SignUp" /\ calls[i].kind # "resend"

-----------------------------------------------------------------------------
(* Steps the actions are made of. *)

Tap(s) == impatient' = [impatient EXCEPT ![s] = @ \/ Waiting(s)]

Start(kind, s, address) ==
  \E i \in Slots :
    /\ calls[i] = NoCall
    /\ calls' = [calls EXCEPT ![i] = Call(kind, s, address)]

(* self.error = text; self.alert.toggle() *)
Say(s, text) ==
  /\ error' = [error EXCEPT ![s] = text]
  /\ alert' = [alert EXCEPT ![s] = ~ @]

SayNothing == UNCHANGED <<alert, error>>

(* The screen of call i hears of it if it is still there. *)
Tell(i, text) ==
  \/ calls[i].screen = "gone" /\ SayNothing
  \/ calls[i].screen # "gone" /\ Say(calls[i].screen, text)

Done(i) == calls' = [calls EXCEPT ![i] = NoCall]

(* The state of the screens ss, SignUp among them, is dropped. *)
Drop(ss) ==
  /\ alert' = [s \in Screens |-> alert[s] /\ s \notin ss]
  /\ error' = [s \in Screens |-> IF s \in ss THEN "" ELSE error[s]]
  /\ impatient' = [s \in Screens |-> impatient[s] /\ s \notin ss]
  /\ email' = "" /\ verify' = FALSE /\ registerPressed' = FALSE
  /\ edited' = FALSE /\ resent' = FALSE
  /\ mailSkipped' = FALSE /\ profileWrong' = FALSE

(* The calls of the screens ss go on without their screen. *)
Orphaned(ss) ==
  [i \in Slots |-> IF calls[i].screen \in ss THEN [calls[i] EXCEPT !.screen = "gone"]
                                             ELSE calls[i]]

-----------------------------------------------------------------------------
(* Login *)

(* A button of Login: the call, or a complaint about an empty field *)
Submit(kind) ==
  /\ FormOnTop("Login") /\ Tap("Login")
  /\ \/ Start(kind, "Login", "") /\ SayNothing
     \/ Say("Login", "other") /\ UNCHANGED calls
  /\ UNCHANGED <<shared, signUpState, signUpHistory>>

Verify == Submit("signIn")

Reset == Submit("reset")

(* "Register": a new SignUp is pushed.  Drop has left it in its first state. *)
PushSignUp ==
  /\ FormOnTop("Login")
  /\ show' = TRUE
  /\ UNCHANGED <<status, resend, verify2, alert, error, signUpState, calls, impatient,
                 signUpHistory>>

(* The completion block of signIn: an error *)
SignInFails(i) ==
  /\ calls[i].kind = "signIn"
  /\ Tell(i, "other") /\ Done(i)
  /\ UNCHANGED <<shared, signUpState, impatient, signUpHistory>>

(* Mutant: alert.toggle() is missing. *)
SignInUnverifiedUnseen(i) ==
  /\ calls[i].kind = "signIn"
  /\ error' = [error EXCEPT !["Login"] = "unverified"]
  /\ Done(i)
  /\ resend' = TRUE
  /\ UNCHANGED <<alert, status, show, verify2, signUpState, impatient, signUpHistory>>

(* ... !isEmailVerified.  resend is never taken back by Cancel. *)
SignInUnverified(i) ==
  /\ calls[i].kind = "signIn"
  /\ Tell(i, "unverified") /\ Done(i)
  /\ resend' = TRUE
  /\ UNCHANGED <<status, show, verify2, signUpState, impatient, signUpHistory>>

(***************************************************************************)
(* ... or the notification "status": JournalList replaces Login and its    *)
(* NavigationLink.  Whether SwiftUI resets the binding of a link that goes *)
(* away while it is active is not for the app to say.                      *)
(***************************************************************************)
SignInVerified(i) ==
  /\ calls[i].kind = "signIn"
  /\ status' = TRUE
  /\ show' \in {show, show /\ status}
  /\ Drop(Screens)
  /\ calls' = [Orphaned(Screens) EXCEPT ![i] = NoCall]
  /\ UNCHANGED <<resend, verify2>>

(* Mutant: a text that ErrorView does not know as RESET. *)
ResetAnsweredSpelledOut(i) ==
  /\ calls[i].kind = "reset"
  /\ Tell(i, "other") \/ Tell(i, "link sent")
  /\ Done(i)
  /\ UNCHANGED <<shared, signUpState, impatient, signUpHistory>>

(* The completion block of sendPasswordReset *)
ResetAnswered(i) ==
  /\ calls[i].kind = "reset"
  /\ Tell(i, "other") \/ Tell(i, "RESET")
  /\ Done(i)
  /\ UNCHANGED <<shared, signUpState, impatient, signUpHistory>>

(* OK of ReSentView *)
ReSentOK ==
  /\ Shown("Login") /\ verify2
  /\ verify2' = FALSE /\ resend' = FALSE
  /\ UNCHANGED <<status, show, alert, error, signUpState, calls, impatient, signUpHistory>>

(* Sign Out in JournalList brings a new Login, under the same Authenticate. *)
SignOut ==
  /\ status
  /\ status' = FALSE
  /\ UNCHANGED <<show, resend, verify2, alert, error, signUpState, calls, impatient,
                 signUpHistory>>

-----------------------------------------------------------------------------
(* SignUp *)

TypeEmail(address) ==
  /\ FormOnTop("SignUp")
  /\ email' = address
  /\ edited' = (edited \/ Registering)
  /\ UNCHANGED <<shared, alert, error, verify, registerPressed, calls, impatient, resent,
                 mailSkipped, profileWrong>>

(* Mutant: the field is cleared for the next account. *)
RegisterClears ==
  /\ FormOnTop("SignUp") /\ Tap("SignUp")
  /\ \/ /\ email # "" /\ Start("createUser", "SignUp", email)
        /\ email' = ""
        /\ SayNothing
     \/ Say("SignUp", "other") /\ UNCHANGED <<calls, email>>
  /\ registerPressed' = TRUE
  /\ UNCHANGED <<shared, verify, signUpHistory>>

(* "Sign Up": register(), then registerPressed = true *)
Register ==
  /\ FormOnTop("SignUp") /\ Tap("SignUp")
  /\ \/ /\ email # "" /\ Start("createUser", "SignUp", email)
        /\ SayNothing
     \/ Say("SignUp", "other") /\ UNCHANGED calls
  /\ registerPressed' = TRUE
  /\ UNCHANGED <<shared, email, verify, signUpHistory>>

(* Mutant: the return after the error is missing. *)
CreateUserFailsGoesOn(i) ==
  /\ calls[i].kind = "createUser"
  /\ Tell(i, "other")
  /\ calls' = [calls EXCEPT ![i].kind = "verification"]
  /\ UNCHANGED <<shared, signUpState, impatient, signUpHistory>>

(* The completion block of Auth.createUser: an error *)
CreateUserFails(i) ==
  /\ calls[i].kind = "createUser"
  /\ Tell(i, "other") /\ Done(i)
  /\ UNCHANGED <<shared, signUpState, impatient, signUpHistory>>

(* Mutant: the verification mail is not asked for. *)
CreateUserSucceedsSilent(i) ==
  /\ calls[i].kind = "createUser"
  /\ Done(i)
  /\ UNCHANGED <<shared, alert, error, signUpState, impatient, signUpHistory>>

(***************************************************************************)
(* ... or SignUp.createUser(): it stores what is in the field now, and     *)
(* asks for the verification mail if error is empty.  What error reads     *)
(* once SwiftUI has dropped the state is not for the app to say.           *)
(***************************************************************************)
CreateUserSucceeds(i) ==
  /\ calls[i].kind = "createUser"
  /\ LET there == calls[i].screen = "SignUp" IN
     /\ \/ /\ there => error["SignUp"] = ""
           /\ calls' = [calls EXCEPT ![i].kind = "verification"]
           /\ UNCHANGED mailSkipped
        \/ /\ there => error["SignUp"] # ""
           /\ Done(i)
           /\ mailSkipped' = (mailSkipped \/ there)
     /\ profileWrong' = (profileWrong \/ (there /\ email # calls[i].email))
  /\ UNCHANGED <<shared, alert, error, signUpState, impatient, edited, resent>>

(* The completion block of sendEmailVerification in SignUp.createUser *)
VerificationSent(i) ==
  /\ calls[i].kind = "verification"
  /\ Done(i)
  /\ verify' = IF calls[i].screen = "SignUp" THEN ~ verify ELSE verify
  /\ UNCHANGED <<shared, alert, error, email, registerPressed, impatient, signUpHistory>>

VerificationFails(i) ==
  /\ calls[i].kind = "verification"
  /\ Tell(i, "other") /\ Done(i)
  /\ UNCHANGED <<shared, signUpState, impatient, signUpHistory>>

(* OK of SuccessView (show.toggle()), or the back button of the navigation bar *)
PopSignUp ==
  /\ Shown("SignUp")
  /\ show' = FALSE
  /\ Drop({"SignUp"})
  /\ calls' = Orphaned({"SignUp"})
  /\ UNCHANGED <<status, resend, verify2>>

-----------------------------------------------------------------------------
(* ErrorView and RegisterErrorView *)

(* Mutant: the dialog stays. *)
CancelStays(s) ==
  /\ ErrorViewOnTop(s) /\ Tap(s)
  /\ error' = [error EXCEPT ![s] = ""]
  /\ registerPressed' = IF s = "SignUp" THEN ~ registerPressed ELSE registerPressed
  /\ UNCHANGED <<shared, alert, email, verify, calls, signUpHistory>>

(* Mutant: registerPressed is not taken back. *)
CancelStillPressed(s) ==
  /\ ErrorViewOnTop(s) /\ Tap(s)
  /\ Say(s, "")
  /\ UNCHANGED <<shared, signUpState, calls, signUpHistory>>

(* Mutant: the message is not cleared. *)
CancelKeepsError(s) ==
  /\ ErrorViewOnTop(s) /\ Tap(s)
  /\ Say(s, error[s])
  /\ registerPressed' = IF s = "SignUp" THEN ~ registerPressed ELSE registerPressed
  /\ UNCHANGED <<shared, email, verify, calls, signUpHistory>>

(* Cancel: error = "", alert.toggle(), in SignUp registerPressed.toggle() *)
Cancel(s) ==
  /\ ErrorViewOnTop(s) /\ Tap(s)
  /\ Say(s, "")
  /\ registerPressed' = IF s = "SignUp" THEN ~ registerPressed ELSE registerPressed
  /\ UNCHANGED <<shared, email, verify, calls, signUpHistory>>

(* "Resend Verification Email", with a current user *)
Resend(s) ==
  /\ ErrorViewOnTop(s) /\ resend /\ Tap(s)
  /\ Start("resend", s, "")
  /\ UNCHANGED <<shared, alert, error, signUpState, signUpHistory>>

(* Mutant: the dialog stays under ReSentView, without a message. *)
ResendSucceedsBlank(i) ==
  /\ calls[i].kind = "resend"
  /\ Done(i)
  /\ error' = [s \in Screens |-> IF s = calls[i].screen THEN "" ELSE error[s]]
  /\ verify2' = TRUE
  /\ resent' = (resent \/ calls[i].screen = "SignUp")
  /\ UNCHANGED <<status, show, resend, alert, signUpState, impatient, edited, mailSkipped,
                 profileWrong>>

(* Its completion block: the dialog goes, its message stays in error. *)
ResendSucceeds(i) ==
  /\ calls[i].kind = "resend"
  /\ Done(i)
  /\ alert' = [s \in Screens |-> IF s = calls[i].screen THEN ~ alert[s] ELSE alert[s]]
  /\ verify2' = TRUE
  /\ resent' = (resent \/ calls[i].screen = "SignUp")
  /\ UNCHANGED <<status, show, resend, error, signUpState, impatient, edited, mailSkipped,
                 profileWrong>>

(* ... and an error, which nobody is told of. *)
ResendFails(i) ==
  /\ calls[i].kind = "resend"
  /\ Done(i)
  /\ UNCHANGED <<shared, alert, error, signUpState, impatient, signUpHistory>>

-----------------------------------------------------------------------------
Answered(i) ==
  \/ SignInFails(i) \/ SignInUnverified(i) \/ SignInVerified(i) \/ ResetAnswered(i)
  \/ CreateUserFails(i) \/ CreateUserSucceeds(i)
  \/ VerificationSent(i) \/ VerificationFails(i)
  \/ ResendSucceeds(i) \/ ResendFails(i)

Next ==
  \/ Verify \/ Reset \/ PushSignUp \/ ReSentOK \/ SignOut
  \/ \E address \in Emails \cup {""} : TypeEmail(address)
  \/ Register \/ PopSignUp
  \/ \E s \in Screens : Cancel(s) \/ Resend(s)
  \/ \E i \in Slots : Answered(i)

Spec == Init /\ [][Next]_vars

(* FirebaseAuth answers every call, with an error if need be. *)
FairSpec == Spec /\ \A i \in Slots : WF_vars(Answered(i))

-----------------------------------------------------------------------------
(* Properties. *)

(***************************************************************************)
(* A user who waits for an answer before the next tap sees no error dialog *)
(* without a message: on no path is alert toggled out of step with error.  *)
(***************************************************************************)
DialogHasText ==
  \A s \in Screens : alert[s] /\ ~ impatient[s] => error[s] # ""

(***************************************************************************)
(* For such a user the spinner of SignUp means that the sign-up is under   *)
(* way: registerPressed, which register sets and Cancel toggles, is not    *)
(* left behind.  Nor do the dialogs of failure and of success meet.        *)
(***************************************************************************)
SpinnerMeansWork ==
  ~ impatient["SignUp"] =>
    /\ Spinner => Registering
    /\ ~ (alert["SignUp"] /\ verify)

(***************************************************************************)
(* SignUp.createUser asks for the verification mail, without which the     *)
(* account is never let in, unless the user was impatient or had a mail    *)
(* sent again from the dialog of SignUp, which leaves its message behind.  *)
(***************************************************************************)
MailUnlessDisturbed == mailSkipped => impatient["SignUp"] \/ resent

(***************************************************************************)
(* The profile SignUp.createUser stores has the address of the account,    *)
(* unless the field was edited while createUser was under way.             *)
(***************************************************************************)
ProfileMatchesAccount == profileWrong => edited

(* A step that changes the message of s leaves the dialog in line with it. *)
OpensDialog(s) ==
  ~ impatient[s] /\ error'[s] # error[s] => (alert'[s] <=> error'[s] # "")

(***************************************************************************)
(* A message a patient user has not seen opens the dialog, and clearing it *)
(* closes the dialog: no answer hides the answer before it.                *)
(***************************************************************************)
MessageOpensDialog == [][\A s \in Screens : OpensDialog(s)]_vars

(***************************************************************************)
(* A sign-up ends in a dialog: success, or a message, unless the user      *)
(* leaves the screen or disturbs it.                                       *)
(***************************************************************************)
SignUpIsAnswered ==
  Registering ~> \/ alert["SignUp"] \/ verify \/ ~ Shown("SignUp")
                 \/ impatient["SignUp"] \/ resent

-----------------------------------------------------------------------------
(* The inductive invariant. *)

FreshLogin == ~ alert["Login"] /\ error["Login"] = "" /\ ~ impatient["Login"]

FreshSignUp ==
  /\ ~ alert["SignUp"] /\ error["SignUp"] = "" /\ ~ impatient["SignUp"]
  /\ email = "" /\ ~ verify /\ ~ registerPressed
  /\ ~ edited /\ ~ resent /\ ~ mailSkipped /\ ~ profileWrong

(* One call at a time; with the dialog open it is resend, otherwise another. *)
Orderly(s) ==
  /\ \A i, j \in Slots : calls[i].screen = s /\ calls[j].screen = s => i = j
  /\ \A i \in Slots : calls[i].screen = s => (alert[s] <=> calls[i].kind = "resend")
  /\ alert[s] => error[s] # ""

(* A screen that is not there has no state and no calls. *)
LoginInv ==
  /\ status => ~ Waiting("Login") /\ FreshLogin
  /\ ~ impatient["Login"] => Orderly("Login")

SignUpInv ==
  /\ status \/ ~ show => ~ Waiting("SignUp") /\ FreshSignUp
  /\ ~ impatient["SignUp"] =>
       /\ Orderly("SignUp")
       /\ Registering \/ alert["SignUp"] => registerPressed /\ ~ verify
       /\ registerPressed => verify \/ Registering \/ error["SignUp"] # ""
       /\ ~ resent /\ ~ alert["SignUp"] => error["SignUp"] = ""
  /\ ~ edited => \A i \in Slots :
       calls[i].screen = "SignUp" /\ calls[i].kind = "createUser" => calls[i].email = email
  /\ MailUnlessDisturbed
  /\ ProfileMatchesAccount

(***************************************************************************)
(* Why the properties hold: a patient user has at most one call under way  *)
(* on a screen, and whether its dialog is open tells which kind it is, so  *)
(* that every toggle finds the flag in the state its author had in mind.   *)
(***************************************************************************)
ScreensInv == LoginInv /\ SignUpInv

=============================================================================
