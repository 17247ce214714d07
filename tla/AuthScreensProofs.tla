-------------------------- MODULE AuthScreensProofs --------------------------
(***************************************************************************)
(* Proofs about AuthScreens, for every set of addresses and every number   *)
(* of calls under way.                                                     *)
(***************************************************************************)
EXTENDS AuthScreens, TLAPS

-----------------------------------------------------------------------------
(* Types. *)

(* A new call is a call. *)
LEMMA CallType ==
  ASSUME NEW s \in Screens, NEW kind \in Kinds, NEW address \in Emails \cup {""}
  PROVE  Call(kind, s, address) \in Calls
BY DEF Call, Calls

(* What the steps that actions are made of do to the types. *)
LEMMA StepTypes ==
  ASSUME TypeOK
  PROVE  /\ \A s \in Screens : Tap(s) => impatient' \in [Screens -> BOOLEAN]
         /\ \A s \in Screens, text \in Texts :
              Say(s, text) => alert' \in [Screens -> BOOLEAN] /\ error' \in [Screens -> Texts]
         /\ \A i \in Slots : Done(i) => calls' \in [Slots -> Calls]
         /\ \A s \in Screens, kind \in Kinds, address \in Emails \cup {""} :
              Start(kind, s, address) => calls' \in [Slots -> Calls]
<1>1. \A s \in Screens : Tap(s) => impatient' \in [Screens -> BOOLEAN]
  BY DEF TypeOK, Tap
<1>2. \A s \in Screens, text \in Texts :
        Say(s, text) => alert' \in [Screens -> BOOLEAN] /\ error' \in [Screens -> Texts]
  BY DEF TypeOK, Say
<1>3. \A i \in Slots : Done(i) => calls' \in [Slots -> Calls]
  BY DEF TypeOK, Done, Calls
<1>4. \A s \in Screens, kind \in Kinds, address \in Emails \cup {""} :
        Start(kind, s, address) => calls' \in [Slots -> Calls]
  <2> SUFFICES ASSUME NEW s \in Screens, NEW kind \in Kinds,
                      NEW address \in Emails \cup {""}, Start(kind, s, address)
               PROVE  calls' \in [Slots -> Calls]
    OBVIOUS
  <2>1. Call(kind, s, address) \in Calls
    BY CallType
  <2> QED
    BY <2>1 DEF TypeOK, Start
<1> QED
  BY <1>1, <1>2, <1>3, <1>4

(* A call that is not NoCall has a kind, a screen or "gone", and an address. *)
LEMMA CallFacts ==
  ASSUME TypeOK, NEW i \in Slots, calls[i].kind \in Kinds
  PROVE  /\ calls[i].screen \in Screens \cup {"gone"}
         /\ calls[i].email \in Emails \cup {""}
<1>1. calls[i] \in Calls
  BY DEF TypeOK
<1>2. NoCall.kind = "none"
  BY DEF NoCall, Call
<1> QED
  BY <1>1, <1>2 DEF Calls, Kinds

(* The screen of a call hears of it, or is gone: the types stay. *)
LEMMA TellType ==
  ASSUME TypeOK, NEW i \in Slots, calls[i].kind \in Kinds, NEW text \in Texts, Tell(i, text)
  PROVE  alert' \in [Screens -> BOOLEAN] /\ error' \in [Screens -> Texts]
<1>1. CASE calls[i].screen = "gone"
  BY <1>1 DEF Tell, SayNothing, TypeOK
<1>2. CASE calls[i].screen # "gone"
  <2>1. calls[i].screen \in Screens
    BY <1>2, CallFacts
  <2> QED
    BY <1>2, <2>1, StepTypes DEF Tell
<1> QED
  BY <1>1, <1>2

(* Dropping screens and leaving their calls alone keeps the types. *)
LEMMA DropTypes ==
  ASSUME TypeOK, NEW ss \in SUBSET Screens
  PROVE  /\ Drop(ss) => /\ alert' \in [Screens -> BOOLEAN]
                        /\ error' \in [Screens -> Texts]
                        /\ impatient' \in [Screens -> BOOLEAN]
         /\ Orphaned(ss) \in [Slots -> Calls]
<1>1. Drop(ss) => /\ alert' \in [Screens -> BOOLEAN]
                  /\ error' \in [Screens -> Texts]
                  /\ impatient' \in [Screens -> BOOLEAN]
  BY DEF TypeOK, Drop, Texts
<1>2. ASSUME NEW i \in Slots, calls[i].screen \in ss
      PROVE  [calls[i] EXCEPT !.screen = "gone"] \in Calls
  <2>1. calls[i].screen # "none"
    BY <1>2 DEF Screens
  <2>2. NoCall.screen = "none"
    BY DEF NoCall, Call
  <2>3. calls[i] \in Calls /\ calls[i] # NoCall
    BY <2>1, <2>2 DEF TypeOK
  <2> QED
    BY <2>3 DEF Calls
<1>3. \A i \in Slots : calls[i] \in Calls
  BY DEF TypeOK
<1> QED
  BY <1>1, <1>2, <1>3 DEF Orphaned

(* Every action keeps the types. *)
LEMMA TypeOKStep == TypeOK /\ [Next]_vars => TypeOK'
<1> SUFFICES ASSUME TypeOK, [Next]_vars PROVE TypeOK'
  OBVIOUS
<1> USE DEF shared, signUpState, signUpHistory
<1>1. ASSUME NEW kind \in {"signIn", "reset"}, Submit(kind) PROVE TypeOK'
  <2>1. "Login" \in Screens /\ kind \in Kinds /\ "other" \in Texts
    BY DEF Screens, Kinds, Texts
  <2>2. impatient' \in [Screens -> BOOLEAN]
    BY <1>1, <2>1, StepTypes DEF Submit
  <2>3. /\ alert' \in [Screens -> BOOLEAN] /\ error' \in [Screens -> Texts]
        /\ calls' \in [Slots -> Calls]
    BY <1>1, <2>1, StepTypes DEF Submit, SayNothing, TypeOK
  <2> QED
    BY <1>1, <2>2, <2>3 DEF Submit, TypeOK
<1>2. CASE PushSignUp \/ ReSentOK \/ SignOut
  BY <1>2 DEF PushSignUp, ReSentOK, SignOut, TypeOK
<1>3. ASSUME NEW address \in Emails \cup {""}, TypeEmail(address) PROVE TypeOK'
  BY <1>3 DEF TypeEmail, TypeOK
<1>4. CASE Register
  <2>1. "SignUp" \in Screens /\ "createUser" \in Kinds /\ "other" \in Texts
    BY DEF Screens, Kinds, Texts
  <2>2. impatient' \in [Screens -> BOOLEAN]
    BY <1>4, <2>1, StepTypes DEF Register
  <2>3. /\ alert' \in [Screens -> BOOLEAN] /\ error' \in [Screens -> Texts]
        /\ calls' \in [Slots -> Calls]
    BY <1>4, <2>1, StepTypes DEF Register, SayNothing, TypeOK
  <2> QED
    BY <1>4, <2>2, <2>3 DEF Register, TypeOK
<1>5. CASE PopSignUp
  <2>1. {"SignUp"} \in SUBSET Screens
    BY DEF Screens
  <2>2. /\ alert' \in [Screens -> BOOLEAN] /\ error' \in [Screens -> Texts]
        /\ impatient' \in [Screens -> BOOLEAN] /\ calls' \in [Slots -> Calls]
    BY <1>5, <2>1, DropTypes DEF PopSignUp
  <2> QED
    BY <1>5, <2>2 DEF PopSignUp, Drop, TypeOK
<1>6. ASSUME NEW s \in Screens, Cancel(s) PROVE TypeOK'
  <2>1. "" \in Texts
    BY DEF Texts
  <2>2. /\ alert' \in [Screens -> BOOLEAN] /\ error' \in [Screens -> Texts]
        /\ impatient' \in [Screens -> BOOLEAN]
    BY <1>6, <2>1, StepTypes DEF Cancel
  <2> QED
    BY <1>6, <2>2 DEF Cancel, TypeOK
<1>7. ASSUME NEW s \in Screens, Resend(s) PROVE TypeOK'
  <2>1. "resend" \in Kinds
    BY DEF Kinds
  <2>2. impatient' \in [Screens -> BOOLEAN] /\ calls' \in [Slots -> Calls]
    BY <1>7, <2>1, StepTypes DEF Resend
  <2> QED
    BY <1>7, <2>2 DEF Resend, TypeOK
<1>8. ASSUME NEW i \in Slots, Answered(i) PROVE TypeOK'
  <2>1. CASE SignInFails(i) \/ SignInUnverified(i) \/ ResetAnswered(i)
               \/ CreateUserFails(i) \/ VerificationFails(i)
    <3>1. calls[i].kind \in Kinds /\ Done(i)
      BY <2>1 DEF SignInFails, SignInUnverified, ResetAnswered, CreateUserFails,
                  VerificationFails, Kinds
    <3>2. \E text \in Texts : Tell(i, text)
      BY <2>1 DEF SignInFails, SignInUnverified, ResetAnswered, CreateUserFails,
                  VerificationFails, Texts
    <3>3. /\ alert' \in [Screens -> BOOLEAN] /\ error' \in [Screens -> Texts]
          /\ calls' \in [Slots -> Calls]
      BY <3>1, <3>2, TellType, StepTypes
    <3> QED
      BY <2>1, <3>3, ZenonT(40) DEF SignInFails, SignInUnverified, ResetAnswered, CreateUserFails,
                        VerificationFails, TypeOK
  <2>2. CASE SignInVerified(i)
    <3>1. /\ alert' \in [Screens -> BOOLEAN] /\ error' \in [Screens -> Texts]
          /\ impatient' \in [Screens -> BOOLEAN] /\ calls' \in [Slots -> Calls]
      BY <2>2, DropTypes DEF SignInVerified, Calls
    <3>2. show' \in BOOLEAN
      BY <2>2 DEF SignInVerified, TypeOK
    <3> QED
      BY <2>2, <3>1, <3>2 DEF SignInVerified, Drop, TypeOK
  <2>3. CASE CreateUserSucceeds(i)
    <3> NoCall.kind = "none"
      BY DEF NoCall, Call
    <3>1. calls[i] \in Calls /\ calls[i] # NoCall
      BY <2>3 DEF CreateUserSucceeds, TypeOK
    <3>2. [calls[i] EXCEPT !.kind = "verification"] \in Calls
      BY <3>1 DEF Calls, Kinds
    <3>3. calls' \in [Slots -> Calls]
      BY <2>3, <3>2, StepTypes DEF CreateUserSucceeds, TypeOK
    <3> QED
      BY <2>3, <3>3 DEF CreateUserSucceeds, TypeOK
  <2>4. CASE VerificationSent(i) \/ ResendFails(i)
    <3>1. calls' \in [Slots -> Calls]
      BY <2>4, StepTypes DEF VerificationSent, ResendFails
    <3> QED
      BY <2>4, <3>1, ZenonT(40) DEF VerificationSent, ResendFails, TypeOK
  <2>5. CASE ResendSucceeds(i)
    <3>1. calls' \in [Slots -> Calls]
      BY <2>5, StepTypes DEF ResendSucceeds
    <3>2. alert' \in [Screens -> BOOLEAN]
      BY <2>5 DEF ResendSucceeds, TypeOK
    <3> QED
      BY <2>5, <3>1, <3>2 DEF ResendSucceeds, TypeOK
  <2> QED
    BY <1>8, <2>1, <2>2, <2>3, <2>4, <2>5 DEF Answered
<1>9. CASE UNCHANGED vars
  BY <1>9 DEF vars, TypeOK
<1> QED
  BY <1>1, <1>2, <1>3, <1>4, <1>5, <1>6, <1>7, <1>8, <1>9 DEF Next, Verify, Reset

(***************************************************************************)
(* The screens keep their types, the calls of FirebaseAuth included.       *)
(***************************************************************************)
THEOREM TypeCorrect == Spec => []TypeOK
<1>1. Init => TypeOK
  BY DEF Init, TypeOK, Calls, Texts
<1> QED
  BY <1>1, TypeOKStep, PTL DEF Spec

-----------------------------------------------------------------------------
(* The inductive invariant. *)

(* A finished call leaves the others as they are. *)
LEMMA DoneFacts ==
  ASSUME TypeOK, NEW i \in Slots, Done(i)
  PROVE  \A s \in Screens, j \in Slots :
           (calls'[j].screen = s) <=> (j # i /\ calls[j].screen = s /\ calls'[j] = calls[j])
<1>1. \A s \in Screens : NoCall.screen # s
  BY DEF NoCall, Call, Screens
<1> QED
  BY <1>1 DEF Done, TypeOK

(* A new call takes one slot, which no screen was waiting for. *)
NewCallAt(i, kind, s, address) ==
  /\ calls[i].screen \notin Screens
  /\ calls'[i].kind = kind /\ calls'[i].screen = s /\ calls'[i].email = address
  /\ \A j \in Slots \ {i} : calls'[j] = calls[j]

(* Start makes one new call. *)
LEMMA StartFacts ==
  ASSUME TypeOK, NEW kind, NEW s, NEW address, Start(kind, s, address)
  PROVE  \E i \in Slots : NewCallAt(i, kind, s, address)
<1>1. PICK i \in Slots : /\ calls[i] = NoCall
                         /\ calls' = [calls EXCEPT ![i] = Call(kind, s, address)]
  BY DEF Start
<1>2. NoCall.screen \notin Screens
  BY DEF NoCall, Call, Screens
<1>3. calls'[i] = Call(kind, s, address) /\ \A j \in Slots \ {i} : calls'[j] = calls[j]
  BY <1>1 DEF TypeOK
<1> QED
  BY <1>1, <1>2, <1>3 DEF Call, NewCallAt

(* Orphaned calls are those of the screens that are left. *)
LEMMA OrphanedFacts ==
  ASSUME TypeOK, NEW ss \in SUBSET Screens, NEW s \in Screens, NEW j \in Slots
  PROVE  Orphaned(ss)[j].screen = s <=>
           s \notin ss /\ calls[j].screen = s /\ Orphaned(ss)[j] = calls[j]
<1>1. CASE calls[j].screen \in ss
  <2>1. calls[j] # NoCall
    <3>1. NoCall.screen \notin Screens
      BY DEF NoCall, Call, Screens
    <3> QED
      BY <1>1, <3>1
  <2>2. calls[j] \in [kind : Kinds, screen : Screens \cup {"gone"}, email : Emails \cup {""}]
    BY <2>1 DEF TypeOK, Calls
  <2>3. Orphaned(ss)[j].screen = "gone"
    BY <1>1, <2>2 DEF Orphaned
  <2> QED
    BY <1>1, <2>3 DEF Screens
<1>2. CASE calls[j].screen \notin ss
  BY <1>2 DEF Orphaned
<1> QED
  BY <1>1, <1>2

(* The first state of the app satisfies the invariant. *)
LEMMA ScreensInvInit == Init => ScreensInv
<1> SUFFICES ASSUME Init PROVE ScreensInv
  OBVIOUS
<1>1. \A i \in Slots, s \in Screens : calls[i].screen # s
  BY DEF Init, NoCall, Call, Screens
<1>2. LoginInv
  BY <1>1 DEF Init, LoginInv, Waiting, FreshLogin, Orderly, Screens
<1>3. SignUpInv
  BY <1>1 DEF Init, SignUpInv, Waiting, FreshSignUp, Orderly, Registering,
              MailUnlessDisturbed, ProfileMatchesAccount, Screens
<1> QED
  BY <1>2, <1>3 DEF ScreensInv

(* A step that is none of screen s's business. *)
CallsKept(s) ==
  \A i \in Slots : /\ calls'[i].screen = s <=> calls[i].screen = s
                   /\ calls[i].screen = s => calls'[i] = calls[i]

Untouched(s) ==
  /\ alert'[s] = alert[s] /\ error'[s] = error[s] /\ impatient'[s] = impatient[s]
  /\ CallsKept(s)

(* Such a step keeps Login's part of the invariant ... *)
LEMMA LoginUntouched ==
  ASSUME LoginInv, Untouched("Login"), status' => status
  PROVE  LoginInv'
BY DEF LoginInv, Untouched, CallsKept, Waiting, FreshLogin, Orderly

(* ... and SignUp's. *)
LEMMA SignUpUntouched ==
  ASSUME SignUpInv, Untouched("SignUp"), UNCHANGED <<signUpState, signUpHistory>>,
         status' \/ ~ show' => status \/ ~ show
  PROVE  SignUpInv'
<1>1. /\ UNCHANGED <<email, verify, registerPressed, edited, resent, mailSkipped, profileWrong>>
      /\ Registering' <=> Registering
      /\ Waiting("SignUp")' <=> Waiting("SignUp")
      /\ Orderly("SignUp") => Orderly("SignUp")'
  BY DEF Untouched, CallsKept, Registering, Waiting, Orderly, signUpState, signUpHistory
<1>2. FreshSignUp' <=> FreshSignUp
  BY <1>1 DEF FreshSignUp, Untouched
<1>3. \A i \in Slots : /\ calls'[i].screen = "SignUp" <=> calls[i].screen = "SignUp"
                       /\ calls[i].screen = "SignUp" => calls'[i] = calls[i]
  BY DEF Untouched, CallsKept
<1> QED
  BY <1>1, <1>2, <1>3 DEF SignUpInv, Untouched, MailUnlessDisturbed, ProfileMatchesAccount

(* A tap by a patient user starts a call ... *)
LEMMA StartOrderly ==
  ASSUME TypeOK, NEW s \in Screens, NEW kind, NEW address,
         Tap(s), Start(kind, s, address), UNCHANGED <<alert, error>>,
         alert[s] <=> kind = "resend", alert[s] => error[s] # "", ~ impatient'[s]
  PROVE  Orderly(s)'
<1>1. \A i \in Slots : calls[i].screen # s
  BY DEF Tap, TypeOK, Waiting
<1>2. PICK i \in Slots : NewCallAt(i, kind, s, address)
  BY StartFacts
<1> QED
  BY <1>1, <1>2, ZenonT(40) DEF Orderly, NewCallAt

(* ... or writes a message and toggles the dialog. *)
LEMMA SayOrderly ==
  ASSUME TypeOK, NEW s \in Screens, NEW text, Tap(s), Say(s, text), UNCHANGED calls,
         alert[s] \/ text # "", ~ impatient'[s]
  PROVE  Orderly(s)'
<1>1. \A i \in Slots : calls'[i].screen # s
  BY DEF Tap, TypeOK, Waiting
<1>2. error'[s] = text /\ alert'[s] = ~ alert[s]
  BY DEF Say, TypeOK
<1> QED
  BY <1>1, <1>2 DEF Orderly

(* The one call of a patient user is answered. *)
LEMMA DoneOrderly ==
  ASSUME TypeOK, NEW s \in Screens, NEW i \in Slots, calls[i].screen = s, Done(i),
         Orderly(s), alert'[s] => error'[s] # ""
  PROVE  Orderly(s)' /\ ~ Waiting(s)'
<1>1. \A j \in Slots : calls'[j].screen # s
  <2> SUFFICES ASSUME NEW j \in Slots, calls'[j].screen = s PROVE FALSE
    OBVIOUS
  <2>1. NoCall.screen # s
    BY DEF NoCall, Call, Screens
  <2>2. j # i /\ calls'[j] = calls[j]
    BY <2>1 DEF Done, TypeOK
  <2> QED
    BY <2>2 DEF Orderly
<1> QED
  BY <1>1 DEF Orderly, Waiting

(* What Tap(s), Say(s, text) and Start(kind, s, address) do to another screen. *)
LEMMA OthersUntouched ==
  ASSUME TypeOK, NEW s \in Screens, NEW r \in Screens, r # s
  PROVE  /\ Tap(s) => impatient'[r] = impatient[r]
         /\ \A text : Say(s, text) => alert'[r] = alert[r] /\ error'[r] = error[r]
         /\ \A kind, address : Start(kind, s, address) => CallsKept(r)
<1>1. Tap(s) => impatient'[r] = impatient[r]
  BY DEF Tap, TypeOK
<1>2. \A text : Say(s, text) => alert'[r] = alert[r] /\ error'[r] = error[r]
  BY DEF Say, TypeOK
<1>3. ASSUME NEW kind, NEW address, Start(kind, s, address)
      PROVE  CallsKept(r)
  <2>1. PICK k \in Slots : NewCallAt(k, kind, s, address)
    BY <1>3, StartFacts
  <2> QED
    BY <2>1 DEF NewCallAt, CallsKept
<1> QED
  BY <1>1, <1>2, <1>3

(* A finished call of another screen, or of none. *)
LEMMA DoneKept ==
  ASSUME TypeOK, NEW r \in Screens, NEW i \in Slots, calls[i].screen # r, Done(i)
  PROVE  CallsKept(r)
<1>1. NoCall.screen # r
  BY DEF NoCall, Call, Screens
<1> QED
  BY <1>1 DEF Done, TypeOK, CallsKept

(* The buttons of Login. *)
LEMMA SubmitStep ==
  ASSUME TypeOK, ScreensInv, NEW kind \in {"signIn", "reset"}, Submit(kind)
  PROVE  ScreensInv'
<1> USE DEF shared
<1>0. "Login" \in Screens /\ "SignUp" \in Screens
  BY DEF Screens
<1>1. Untouched("SignUp")
  <2>1. impatient'["SignUp"] = impatient["SignUp"]
    BY <1>0, OthersUntouched DEF Submit
  <2>2. alert'["SignUp"] = alert["SignUp"] /\ error'["SignUp"] = error["SignUp"]
    BY <1>0, OthersUntouched DEF Submit, SayNothing
  <2>3. CallsKept("SignUp")
    <3>1. UNCHANGED calls => CallsKept("SignUp")
      BY DEF CallsKept
    <3> QED
      BY <1>0, <3>1, OthersUntouched DEF Submit
  <2> QED
    BY <2>1, <2>2, <2>3 DEF Untouched
<1>2. SignUpInv'
  BY <1>1, SignUpUntouched DEF Submit, ScreensInv
<1>3. ~ status' /\ ~ alert["Login"]
  BY DEF Submit, FormOnTop, Shown
<1>4. ASSUME ~ impatient'["Login"] PROVE Orderly("Login")'
  <2>1. CASE Start(kind, "Login", "") /\ SayNothing
    BY <1>0, <1>3, <1>4, <2>1, StartOrderly DEF Submit, SayNothing
  <2>2. CASE Say("Login", "other") /\ UNCHANGED calls
    BY <1>0, <1>4, <2>2, SayOrderly DEF Submit
  <2> QED
    BY <2>1, <2>2 DEF Submit
<1> QED
  BY <1>2, <1>3, <1>4 DEF ScreensInv, LoginInv

(* Steps that concern neither screen. *)
LEMMA SharedStep ==
  ASSUME TypeOK, ScreensInv, PushSignUp \/ ReSentOK \/ SignOut
  PROVE  ScreensInv'
<1>1. Untouched("Login") /\ Untouched("SignUp")
  BY DEF PushSignUp, ReSentOK, SignOut, Untouched, CallsKept
<1>2. /\ status' => status
      /\ status' \/ ~ show' => status \/ ~ show
      /\ UNCHANGED <<signUpState, signUpHistory>>
  BY DEF PushSignUp, ReSentOK, SignOut
<1> QED
  BY <1>1, <1>2, LoginUntouched, SignUpUntouched DEF ScreensInv

(***************************************************************************)
(* The completion blocks that tell their screen: the dialog of a patient   *)
(* user is closed when its one call is not resend, so the toggle opens it. *)
(***************************************************************************)
LEMMA TellStep ==
  ASSUME TypeOK, ScreensInv, NEW i \in Slots, calls[i].kind \in Kinds \ {"resend"},
         NEW text, text # "", Tell(i, text), Done(i),
         UNCHANGED <<status, show, signUpState, impatient, signUpHistory>>
  PROVE  ScreensInv'
<1>0. /\ "Login" \in Screens /\ "SignUp" \in Screens
      /\ calls[i].screen \in {"Login", "SignUp", "gone"}
  BY CallFacts DEF Screens
<1>1. ASSUME NEW s \in Screens, NEW r \in Screens, r # s, calls[i].screen = s
      PROVE  /\ Untouched(r)
             /\ ~ impatient[s] /\ Orderly(s) => alert'[s] /\ error'[s] = text /\ Orderly(s)'
  <2>1. Say(s, text)
    BY <1>1 DEF Tell, Screens
  <2>2. Untouched(r)
    BY <1>1, <2>1, OthersUntouched, DoneKept DEF Untouched
  <2>3. error'[s] = text /\ alert'[s] = ~ alert[s]
    BY <2>1 DEF Say, TypeOK
  <2>4. Orderly(s) => ~ alert[s]
    BY <1>1 DEF Orderly
  <2>5. Orderly(s) => Orderly(s)'
    BY <1>1, <2>3, DoneOrderly
  <2> QED
    BY <2>2, <2>3, <2>4, <2>5
<1>2. CASE calls[i].screen = "gone"
  <2>1. Untouched("Login") /\ Untouched("SignUp")
    BY <1>0, <1>2, DoneKept DEF Untouched, Tell, SayNothing
  <2> QED
    BY <2>1, LoginUntouched, SignUpUntouched DEF ScreensInv
<1>3. CASE calls[i].screen = "Login"
  <2>1. ~ status
    BY <1>3 DEF ScreensInv, LoginInv, Waiting
  <2>2. LoginInv'
    BY <1>0, <1>1, <1>3, <2>1 DEF ScreensInv, LoginInv
  <2> QED
    BY <1>0, <1>1, <1>3, <2>2, SignUpUntouched DEF ScreensInv
<1>4. CASE calls[i].screen = "SignUp"
  <2>1. Untouched("Login")
    BY <1>0, <1>1, <1>4
  <2>2. ~ (status \/ ~ show)
    BY <1>4 DEF ScreensInv, SignUpInv, Waiting
  <2>3. Registering
    BY <1>4 DEF Registering
  <2>4. \A j \in Slots : calls'[j].screen = "SignUp" => calls'[j] = calls[j]
    BY <1>0, DoneFacts
  <2>5. ASSUME ~ impatient'["SignUp"]
        PROVE  /\ Orderly("SignUp")'
               /\ alert'["SignUp"] /\ error'["SignUp"] # ""
               /\ registerPressed' /\ ~ verify'
    BY <1>0, <1>1, <1>4, <2>3, <2>5 DEF ScreensInv, SignUpInv, signUpState
  <2>6. SignUpInv'
    BY <2>2, <2>4, <2>5 DEF ScreensInv, SignUpInv, MailUnlessDisturbed,
                            ProfileMatchesAccount, signUpState, signUpHistory
  <2> QED
    BY <2>1, <2>6, LoginUntouched DEF ScreensInv
<1> QED
  BY <1>0, <1>2, <1>3, <1>4

(* The e-mail field of SignUp. *)
LEMMA TypeEmailStep ==
  ASSUME TypeOK, ScreensInv, NEW address, TypeEmail(address)
  PROVE  ScreensInv'
<1> USE DEF shared
<1>2. ~ status' /\ show'
  BY DEF TypeEmail, FormOnTop, Shown
<1>3. Orderly("SignUp") => Orderly("SignUp")'
  BY DEF TypeEmail, Orderly
<1>4. Registering' <=> Registering
  BY DEF TypeEmail, Registering
<1>5. ASSUME ~ edited', NEW i \in Slots, calls'[i].screen = "SignUp",
             calls'[i].kind = "createUser"
      PROVE  FALSE
  BY <1>5 DEF TypeEmail, Registering
<1>6. SignUpInv'
  BY <1>2, <1>3, <1>4, <1>5 DEF ScreensInv, SignUpInv, TypeEmail, MailUnlessDisturbed,
                                ProfileMatchesAccount
<1>7. LoginInv'
  BY LoginUntouched DEF ScreensInv, TypeEmail, Untouched, CallsKept
<1> QED
  BY <1>6, <1>7 DEF ScreensInv

(* "Sign Up". *)
LEMMA RegisterStep ==
  ASSUME TypeOK, ScreensInv, Register
  PROVE  ScreensInv'
<1> USE DEF shared, signUpHistory
<1>0. "Login" \in Screens /\ "SignUp" \in Screens /\ "Login" # "SignUp"
  BY DEF Screens
<1>1. Untouched("Login")
  <2>1. UNCHANGED calls => CallsKept("Login")
    BY DEF CallsKept
  <2>2. CallsKept("Login")
    BY <1>0, <2>1, OthersUntouched DEF Register
  <2>3. impatient'["Login"] = impatient["Login"]
    BY <1>0, OthersUntouched DEF Register
  <2>4. alert'["Login"] = alert["Login"] /\ error'["Login"] = error["Login"]
    BY <1>0, OthersUntouched DEF Register, SayNothing
  <2> QED
    BY <2>2, <2>3, <2>4 DEF Untouched
<1>2. LoginInv'
  BY <1>1, LoginUntouched DEF Register, ScreensInv
<1>3. ~ status' /\ show' /\ ~ alert["SignUp"] /\ ~ verify'
  BY <1>0 DEF Register, FormOnTop, Shown, Covered
<1>4. /\ ~ impatient'["SignUp"] => ~ impatient["SignUp"]
      /\ impatient["SignUp"] => impatient'["SignUp"]
  BY <1>0 DEF Register, Tap, TypeOK
<1>5. CASE email # "" /\ Start("createUser", "SignUp", email) /\ SayNothing
  <2>1. PICK k \in Slots : NewCallAt(k, "createUser", "SignUp", email)
    BY <1>5, StartFacts
  <2>2. Registering'
    BY <2>1 DEF Registering, NewCallAt
  <2>3. ~ impatient'["SignUp"] => Orderly("SignUp")'
    BY <1>0, <1>3, <1>5, StartOrderly DEF Register, SayNothing
  <2>4. ~ edited => \A i \in Slots :
          calls'[i].screen = "SignUp" /\ calls'[i].kind = "createUser" => calls'[i].email = email
    BY <2>1 DEF NewCallAt, ScreensInv, SignUpInv
  <2>5. UNCHANGED <<alert, error>>
    BY <1>5 DEF SayNothing
  <2>6. SignUpInv'
    BY <1>3, <1>4, <2>2, <2>3, <2>4, <2>5 DEF ScreensInv, SignUpInv, Register,
       MailUnlessDisturbed, ProfileMatchesAccount
  <2> QED
    BY <1>2, <2>6 DEF ScreensInv
<1>6. CASE Say("SignUp", "other") /\ UNCHANGED calls
  <2>1. alert'["SignUp"] /\ error'["SignUp"] # ""
    BY <1>0, <1>3, <1>6 DEF Say, TypeOK
  <2>2. ~ impatient'["SignUp"] => Orderly("SignUp")'
    BY <1>0, <1>6, SayOrderly DEF Register
  <2>3. SignUpInv'
    BY <1>3, <1>4, <1>6, <2>1, <2>2 DEF ScreensInv, SignUpInv, Register,
       MailUnlessDisturbed, ProfileMatchesAccount
  <2> QED
    BY <1>2, <2>3 DEF ScreensInv
<1> QED
  BY <1>5, <1>6 DEF Register

(* A new SignUp satisfies its part of the invariant. *)
LEMMA DroppedSignUp ==
  ASSUME FreshSignUp', \A i \in Slots : calls'[i].screen # "SignUp"
  PROVE  SignUpInv'
<1>1. ~ Waiting("SignUp")' /\ ~ Registering' /\ Orderly("SignUp")'
  BY DEF Waiting, Registering, Orderly, FreshSignUp
<1> QED
  BY <1>1 DEF SignUpInv, FreshSignUp, MailUnlessDisturbed, ProfileMatchesAccount

(* SignUp is popped. *)
LEMMA PopSignUpStep ==
  ASSUME TypeOK, ScreensInv, PopSignUp
  PROVE  ScreensInv'
<1>0. {"SignUp"} \in SUBSET Screens /\ "Login" \in Screens /\ "SignUp" \in Screens
  BY DEF Screens
<1>1. \A i \in Slots : calls'[i].screen # "SignUp"
  BY <1>0, OrphanedFacts DEF PopSignUp
<1>2. FreshSignUp'
  BY <1>0 DEF PopSignUp, Drop, FreshSignUp
<1>3. \A i \in Slots : (calls'[i].screen = "Login") <=>
                         (calls[i].screen = "Login" /\ calls'[i] = calls[i])
  BY <1>0, OrphanedFacts DEF PopSignUp
<1>4. \A i \in Slots : calls[i].screen = "Login" => calls'[i] = calls[i]
  BY DEF PopSignUp, Orphaned
<1>5. /\ alert'["Login"] <=> alert["Login"]
      /\ error'["Login"] = error["Login"]
      /\ impatient'["Login"] <=> impatient["Login"]
  BY <1>0 DEF PopSignUp, Drop
<1>6. LoginInv'
  BY <1>3, <1>4, <1>5 DEF ScreensInv, LoginInv, PopSignUp, FreshLogin, Waiting, Orderly
<1> QED
  BY <1>1, <1>2, <1>6, DroppedSignUp DEF ScreensInv

(* JournalList replaces both screens. *)
LEMMA SignInVerifiedStep ==
  ASSUME TypeOK, ScreensInv, NEW i \in Slots, SignInVerified(i)
  PROVE  ScreensInv'
<1>0. Screens \in SUBSET Screens /\ "Login" \in Screens /\ "SignUp" \in Screens
  BY DEF Screens
<1>1. ASSUME NEW s \in Screens, NEW j \in Slots PROVE calls'[j].screen # s
  <2>1. NoCall.screen # s
    BY DEF NoCall, Call, Screens
  <2>2. Orphaned(Screens)[j].screen # s
    BY <1>0, OrphanedFacts
  <2>3. Orphaned(Screens) \in [Slots -> Calls]
    BY <1>0, DropTypes
  <2> QED
    BY <2>1, <2>2, <2>3 DEF SignInVerified
<1>2. FreshSignUp' /\ FreshLogin'
  BY <1>0 DEF SignInVerified, Drop, FreshSignUp, FreshLogin
<1>3. LoginInv'
  BY <1>0, <1>1, <1>2 DEF LoginInv, FreshLogin, Waiting, Orderly
<1> QED
  BY <1>0, <1>1, <1>2, <1>3, DroppedSignUp DEF ScreensInv

(* Cancel on either dialog. *)
LEMMA CancelStep ==
  ASSUME TypeOK, ScreensInv, NEW s \in Screens, Cancel(s)
  PROVE  ScreensInv'
<1> USE DEF shared, signUpHistory
<1>0. "Login" \in Screens /\ "SignUp" \in Screens /\ s \in {"Login", "SignUp"}
  BY DEF Screens
<1>1. alert[s] /\ ~ status'
  BY DEF Cancel, ErrorViewOnTop, Shown
<1>2. ~ alert'[s] /\ error'[s] = ""
  BY <1>1 DEF Cancel, Say, TypeOK
<1>3. ~ impatient'[s] => ~ impatient[s] /\ ~ Waiting(s) /\ Orderly(s)'
  BY <1>1, SayOrderly DEF Cancel, Tap, TypeOK
<1>4. ASSUME NEW r \in Screens, r # s PROVE Untouched(r)
  BY <1>4, OthersUntouched DEF Cancel, Untouched, CallsKept
<1>5. CASE s = "Login"
  <2>1. UNCHANGED signUpState
    BY <1>5 DEF Cancel, signUpState
  <2>2. SignUpInv'
    BY <1>0, <1>4, <1>5, <2>1, SignUpUntouched DEF Cancel, ScreensInv
  <2> QED
    BY <1>1, <1>3, <1>5, <2>2 DEF ScreensInv, LoginInv
<1>6. CASE s = "SignUp"
  <2>1. LoginInv'
    BY <1>0, <1>4, <1>6, LoginUntouched DEF Cancel, ScreensInv
  <2>2. registerPressed' = ~ registerPressed /\ show'
    BY <1>6 DEF Cancel, ErrorViewOnTop, Shown
  <2>3. impatient["SignUp"] => impatient'["SignUp"]
    BY <1>6 DEF Cancel, Tap, TypeOK
  <2>4. ~ impatient'["SignUp"] => ~ Registering' /\ ~ registerPressed'
    BY <1>1, <1>3, <1>6, <2>2 DEF ScreensInv, SignUpInv, Registering, Waiting, Cancel
  <2>5. SignUpInv'
    BY <1>1, <1>2, <1>3, <1>6, <2>2, <2>3, <2>4 DEF ScreensInv, SignUpInv, Cancel,
       MailUnlessDisturbed, ProfileMatchesAccount
  <2> QED
    BY <2>1, <2>5 DEF ScreensInv
<1> QED
  BY <1>0, <1>5, <1>6

(* "Resend Verification Email" on either dialog. *)
LEMMA ResendStep ==
  ASSUME TypeOK, ScreensInv, NEW s \in Screens, Resend(s)
  PROVE  ScreensInv'
<1> USE DEF shared, signUpState, signUpHistory
<1>0. "Login" \in Screens /\ "SignUp" \in Screens /\ s \in {"Login", "SignUp"}
  BY DEF Screens
<1>1. alert[s] /\ ~ status'
  BY DEF Resend, ErrorViewOnTop, Shown
<1>2. /\ ~ impatient'[s] => ~ impatient[s] /\ ~ Waiting(s)
      /\ impatient[s] => impatient'[s]
  BY DEF Resend, Tap, TypeOK
<1>3. ~ impatient'[s] /\ error[s] # "" => Orderly(s)'
  BY <1>1, StartOrderly DEF Resend
<1>4. ASSUME NEW r \in Screens, r # s PROVE Untouched(r)
  BY <1>4, OthersUntouched DEF Resend, Untouched
<1>5. CASE s = "Login"
  <2>1. SignUpInv'
    BY <1>0, <1>4, <1>5, SignUpUntouched DEF Resend, ScreensInv
  <2>2. ~ impatient'["Login"] => error["Login"] # ""
    BY <1>1, <1>2, <1>5 DEF ScreensInv, LoginInv, Orderly
  <2> QED
    BY <1>1, <1>3, <1>5, <2>1, <2>2 DEF ScreensInv, LoginInv
<1>6. CASE s = "SignUp"
  <2>1. LoginInv'
    BY <1>0, <1>4, <1>6, LoginUntouched DEF Resend, ScreensInv
  <2>2. PICK k \in Slots : NewCallAt(k, "resend", "SignUp", "")
    BY <1>6, StartFacts DEF Resend
  <2>3. Registering' => Registering
    BY <2>2 DEF Registering, NewCallAt
  <2>4. ~ impatient'["SignUp"] => error["SignUp"] # ""
    BY <1>1, <1>2, <1>6 DEF ScreensInv, SignUpInv, Orderly
  <2>5. ~ edited => \A i \in Slots :
          calls'[i].screen = "SignUp" /\ calls'[i].kind = "createUser" => calls'[i].email = email
    BY <2>2 DEF NewCallAt, ScreensInv, SignUpInv
  <2>6. show'
    BY <1>6 DEF Resend, ErrorViewOnTop, Shown
  <2>7. SignUpInv'
    BY <1>1, <1>2, <1>3, <1>6, <2>3, <2>4, <2>5, <2>6 DEF ScreensInv, SignUpInv, Resend,
       MailUnlessDisturbed, ProfileMatchesAccount
  <2> QED
    BY <2>1, <2>7 DEF ScreensInv
<1> QED
  BY <1>0, <1>5, <1>6

(* The answer to resend, good or bad. *)
LEMMA ResentStep ==
  ASSUME TypeOK, ScreensInv, NEW i \in Slots, ResendSucceeds(i) \/ ResendFails(i)
  PROVE  ScreensInv'
<1> USE DEF shared, signUpState, signUpHistory
<1>0. /\ "Login" \in Screens /\ "SignUp" \in Screens
      /\ calls[i].screen \in {"Login", "SignUp", "gone"}
  BY CallFacts DEF Screens, ResendSucceeds, ResendFails, Kinds
<1>1. /\ Done(i) /\ calls[i].kind = "resend"
      /\ UNCHANGED <<status, show, signUpState, error, impatient, edited, mailSkipped,
                     profileWrong>>
      /\ resent => resent'
  <2>1. CASE ResendSucceeds(i)
    BY <2>1 DEF ResendSucceeds
  <2>2. CASE ResendFails(i)
    BY <2>2 DEF ResendFails
  <2> QED
    BY <2>1, <2>2
<1>2. ASSUME NEW r \in Screens, calls[i].screen # r PROVE Untouched(r)
  BY <1>1, <1>2, DoneKept DEF ResendSucceeds, ResendFails, Untouched, TypeOK
<1>3. calls[i].screen # "SignUp" => UNCHANGED signUpHistory
  BY DEF ResendSucceeds, ResendFails, TypeOK
<1>4. LoginInv'
  <2>1. CASE calls[i].screen # "Login"
    BY <1>0, <1>1, <1>2, <2>1, LoginUntouched DEF ScreensInv
  <2>2. CASE calls[i].screen = "Login"
    <3>1. ~ status'
      BY <1>1, <2>2 DEF ScreensInv, LoginInv, Waiting
    <3>2. Orderly("Login") => alert["Login"] /\ error["Login"] # ""
      BY <1>1, <2>2 DEF Orderly
    <3>3. Orderly("Login") => Orderly("Login")'
      BY <1>0, <1>1, <2>2, <3>2, DoneOrderly
    <3> QED
      BY <1>1, <3>1, <3>3 DEF ScreensInv, LoginInv
  <2> QED
    BY <2>1, <2>2
<1>5. SignUpInv'
  <2>1. CASE calls[i].screen # "SignUp"
    BY <1>0, <1>1, <1>2, <1>3, <2>1, SignUpUntouched DEF ScreensInv
  <2>2. CASE calls[i].screen = "SignUp"
    <3>1. ~ (status' \/ ~ show')
      BY <1>1, <2>2 DEF ScreensInv, SignUpInv, Waiting
    <3>2. Orderly("SignUp") => alert["SignUp"] /\ error["SignUp"] # ""
      BY <1>1, <2>2 DEF Orderly
    <3>3. Orderly("SignUp") => Orderly("SignUp")' /\ ~ Waiting("SignUp")'
      BY <1>0, <1>1, <2>2, <3>2, DoneOrderly
    <3>4. alert["SignUp"] => alert'["SignUp"] \/ resent'
      BY <1>0, <2>2 DEF ResendSucceeds, ResendFails
    <3>5. \A j \in Slots : calls'[j].screen = "SignUp" => calls'[j] = calls[j]
      BY <1>0, <1>1, DoneFacts
    <3>6. ~ Waiting("SignUp")' => ~ Registering'
      BY DEF Waiting, Registering
    <3> QED
      BY <1>1, <3>1, <3>2, <3>3, <3>4, <3>5, <3>6 DEF ScreensInv, SignUpInv,
         MailUnlessDisturbed, ProfileMatchesAccount
  <2> QED
    BY <2>1, <2>2
<1> QED
  BY <1>4, <1>5 DEF ScreensInv

(* SignUp.createUser: the call goes on as the request for the mail, or ends. *)
LEMMA CreateUserSucceedsStep ==
  ASSUME TypeOK, ScreensInv, NEW i \in Slots, CreateUserSucceeds(i)
  PROVE  ScreensInv'
<1> USE DEF shared, signUpState
<1>0. /\ "Login" \in Screens /\ "SignUp" \in Screens
      /\ calls[i].screen \in {"Login", "SignUp", "gone"}
  BY CallFacts DEF Screens, CreateUserSucceeds, Kinds
<1>1. /\ calls[i].kind = "createUser"
      /\ UNCHANGED <<status, show, alert, error, signUpState, impatient, edited, resent>>
  BY DEF CreateUserSucceeds
<1>2. \/ Done(i) \/ calls' = [calls EXCEPT ![i].kind = "verification"]
  BY DEF CreateUserSucceeds
<1>3. \A j \in Slots : j # i => calls'[j] = calls[j]
  BY <1>2 DEF Done, TypeOK
<1>4. /\ Done(i) => calls'[i] = NoCall
      /\ calls' = [calls EXCEPT ![i].kind = "verification"] =>
           calls'[i].screen = calls[i].screen /\ calls'[i].kind = "verification"
  <2>1. NoCall.kind # "createUser"
    BY DEF NoCall, Call
  <2>2. calls[i] \in [kind : Kinds, screen : Screens \cup {"gone"}, email : Emails \cup {""}]
    BY <1>1, <2>1 DEF TypeOK, Calls
  <2> QED
    BY <1>2, <2>2 DEF Done, TypeOK
<1>5. \/ calls'[i] = NoCall
      \/ calls'[i].screen = calls[i].screen /\ calls'[i].kind = "verification"
  BY <1>2, <1>4
<1>6. \A s \in Screens : NoCall.screen # s
  BY DEF NoCall, Call, Screens
<1>7. ASSUME NEW s \in Screens, Orderly(s) PROVE Orderly(s)'
  BY <1>1, <1>3, <1>5, <1>6, <1>7, ZenonT(40) DEF Orderly
<1>8. ASSUME NEW s \in Screens, ~ Waiting(s) PROVE ~ Waiting(s)'
  BY <1>3, <1>5, <1>6, <1>8 DEF Waiting
<1>9. LoginInv'
  BY <1>0, <1>1, <1>7, <1>8 DEF ScreensInv, LoginInv, FreshLogin
<1>10. \A j \in Slots : calls'[j].screen = "SignUp" /\ calls'[j].kind = "createUser" =>
                         calls'[j] = calls[j]
  BY <1>0, <1>3, <1>5, <1>6
<1>11. CASE calls[i].screen # "SignUp"
  <2>1. UNCHANGED <<mailSkipped, profileWrong>>
    BY <1>11 DEF CreateUserSucceeds, TypeOK
  <2>2. Registering' <=> Registering
    BY <1>0, <1>3, <1>5, <1>6, <1>11 DEF Registering
  <2>3. FreshSignUp' <=> FreshSignUp
    BY <1>1, <2>1 DEF FreshSignUp
  <2>4. SignUpInv'
    BY <1>0, <1>1, <1>7, <1>8, <1>10, <2>1, <2>2, <2>3 DEF ScreensInv, SignUpInv,
       MailUnlessDisturbed, ProfileMatchesAccount
  <2> QED
    BY <1>9, <2>4 DEF ScreensInv
<1>12. CASE calls[i].screen = "SignUp"
  <2>1. Registering /\ Waiting("SignUp")
    BY <1>1, <1>12 DEF Registering, Waiting
  <2>2. profileWrong' => profileWrong \/ edited
    BY <1>1, <1>12 DEF CreateUserSucceeds, ScreensInv, SignUpInv
  <2>3. ~ impatient["SignUp"] => ~ alert["SignUp"]
    BY <1>1, <1>12 DEF ScreensInv, SignUpInv, Orderly
  <2>4. CASE error["SignUp"] = ""
    <3>1. UNCHANGED mailSkipped /\ calls' = [calls EXCEPT ![i].kind = "verification"]
      BY <1>12, <2>4 DEF CreateUserSucceeds
    <3>2. calls'[i].screen = "SignUp" /\ calls'[i].kind = "verification"
      BY <1>4, <1>12, <3>1
    <3>3. Registering'
      BY <3>2 DEF Registering
    <3>4. SignUpInv'
      BY <1>0, <1>1, <1>7, <1>10, <2>1, <2>2, <3>1, <3>3 DEF ScreensInv, SignUpInv,
         MailUnlessDisturbed, ProfileMatchesAccount
    <3> QED
      BY <1>9, <3>4 DEF ScreensInv
  <2>5. CASE error["SignUp"] # ""
    <3>1. impatient["SignUp"] \/ resent
      BY <2>3, <2>5 DEF ScreensInv, SignUpInv
    <3>2. Registering' => Registering
      BY <2>1
    <3>3. SignUpInv'
      BY <1>0, <1>1, <1>7, <1>10, <2>1, <2>2, <2>5, <3>1, <3>2 DEF ScreensInv, SignUpInv,
         MailUnlessDisturbed, ProfileMatchesAccount
    <3> QED
      BY <1>9, <3>3 DEF ScreensInv
  <2> QED
    BY <2>4, <2>5
<1> QED
  BY <1>11, <1>12

(* The verification mail was sent. *)
LEMMA VerificationSentStep ==
  ASSUME TypeOK, ScreensInv, NEW i \in Slots, VerificationSent(i)
  PROVE  ScreensInv'
<1> USE DEF shared, signUpHistory
<1>0. /\ "Login" \in Screens /\ "SignUp" \in Screens
      /\ calls[i].screen \in {"Login", "SignUp", "gone"}
  BY CallFacts DEF Screens, VerificationSent, Kinds
<1>1. ASSUME NEW r \in Screens, calls[i].screen # r PROVE Untouched(r)
  BY <1>1, DoneKept DEF VerificationSent, Untouched
<1>2. LoginInv'
  <2>1. CASE calls[i].screen # "Login"
    BY <1>0, <1>1, <2>1, LoginUntouched DEF ScreensInv, VerificationSent
  <2>2. CASE calls[i].screen = "Login"
    <3>1. ~ status'
      BY <2>2 DEF ScreensInv, LoginInv, Waiting, VerificationSent
    <3>2. Orderly("Login") => ~ alert["Login"]
      BY <2>2 DEF Orderly, VerificationSent
    <3>3. Orderly("Login") => Orderly("Login")'
      BY <1>0, <2>2, <3>2, DoneOrderly DEF VerificationSent
    <3> QED
      BY <3>1, <3>3 DEF ScreensInv, LoginInv, VerificationSent
  <2> QED
    BY <2>1, <2>2
<1>3. CASE calls[i].screen # "SignUp"
  <2>1. UNCHANGED signUpState
    BY <1>3 DEF VerificationSent, signUpState
  <2>2. SignUpInv'
    BY <1>0, <1>1, <1>3, <2>1, SignUpUntouched DEF ScreensInv, VerificationSent
  <2> QED
    BY <1>2, <2>2 DEF ScreensInv
<1>4. CASE calls[i].screen = "SignUp"
  <2>1. ~ (status' \/ ~ show')
    BY <1>4 DEF ScreensInv, SignUpInv, Waiting, VerificationSent
  <2>2. Registering
    BY <1>4 DEF Registering, VerificationSent
  <2>3. Orderly("SignUp") => ~ alert["SignUp"]
    BY <1>4 DEF Orderly, VerificationSent
  <2>4. Orderly("SignUp") => Orderly("SignUp")' /\ ~ Waiting("SignUp")'
    BY <1>0, <1>4, <2>3, DoneOrderly DEF VerificationSent
  <2>5. ~ Waiting("SignUp")' => ~ Registering'
    BY DEF Waiting, Registering
  <2>6. \A j \in Slots : calls'[j].screen = "SignUp" => calls'[j] = calls[j]
    BY <1>0, DoneFacts DEF VerificationSent
  <2>7. ~ impatient["SignUp"] => verify'
    BY <1>4, <2>2 DEF ScreensInv, SignUpInv, VerificationSent
  <2>8. SignUpInv'
    BY <2>1, <2>2, <2>3, <2>4, <2>5, <2>6, <2>7 DEF ScreensInv, SignUpInv, VerificationSent,
       MailUnlessDisturbed, ProfileMatchesAccount
  <2> QED
    BY <1>2, <2>8 DEF ScreensInv
<1> QED
  BY <1>3, <1>4

(* Every action keeps the invariant. *)
LEMMA ScreensInvStep == TypeOK /\ ScreensInv /\ [Next]_vars => ScreensInv'
<1> SUFFICES ASSUME TypeOK, ScreensInv, [Next]_vars PROVE ScreensInv'
  OBVIOUS
<1>1. CASE Verify \/ Reset
  BY <1>1, SubmitStep DEF Verify, Reset
<1>2. CASE PushSignUp \/ ReSentOK \/ SignOut
  BY <1>2, SharedStep
<1>3. CASE \E address \in Emails \cup {""} : TypeEmail(address)
  BY <1>3, TypeEmailStep
<1>4. CASE Register \/ PopSignUp
  BY <1>4, RegisterStep, PopSignUpStep
<1>5. CASE \E s \in Screens : Cancel(s) \/ Resend(s)
  BY <1>5, CancelStep, ResendStep
<1>6. ASSUME NEW i \in Slots, Answered(i) PROVE ScreensInv'
  <2>1. CASE SignInFails(i) \/ SignInUnverified(i) \/ ResetAnswered(i)
               \/ CreateUserFails(i) \/ VerificationFails(i)
    <3>1. /\ calls[i].kind \in Kinds \ {"resend"} /\ Done(i)
          /\ UNCHANGED <<status, show, signUpState, impatient, signUpHistory>>
      BY <2>1 DEF SignInFails, SignInUnverified, ResetAnswered, CreateUserFails,
                  VerificationFails, Kinds, shared
    <3>2. \E text \in Texts \ {""} : Tell(i, text)
      BY <2>1 DEF SignInFails, SignInUnverified, ResetAnswered, CreateUserFails,
                  VerificationFails, Texts
    <3> QED
      BY <3>1, <3>2, TellStep
  <2>2. CASE SignInVerified(i)
    BY <2>2, SignInVerifiedStep
  <2>3. CASE CreateUserSucceeds(i)
    BY <2>3, CreateUserSucceedsStep
  <2>4. CASE VerificationSent(i)
    BY <2>4, VerificationSentStep
  <2>5. CASE ResendSucceeds(i) \/ ResendFails(i)
    BY <2>5, ResentStep
  <2> QED
    BY <1>6, <2>1, <2>2, <2>3, <2>4, <2>5 DEF Answered
<1>7. CASE UNCHANGED vars
  <2>1. Untouched("Login") /\ Untouched("SignUp")
    BY <1>7 DEF vars, Untouched, CallsKept
  <2> QED
    BY <1>7, <2>1, LoginUntouched, SignUpUntouched DEF ScreensInv, vars, shared
<1> QED
  BY <1>1, <1>2, <1>3, <1>4, <1>5, <1>6, <1>7 DEF Next

(***************************************************************************)
(* Toggling is safe for a patient user: the invariant that ties the        *)
(* dialogs of Login and SignUp to the calls under way holds throughout.    *)
(***************************************************************************)
THEOREM ScreensCorrect == Spec => []ScreensInv
BY ScreensInvInit, ScreensInvStep, TypeCorrect, PTL DEF Spec

(***************************************************************************)
(* No dialog of Login or SignUp is blank for a patient user.               *)
(***************************************************************************)
THEOREM DialogCorrect == Spec => []DialogHasText
<1>1. ScreensInv => DialogHasText
  BY DEF ScreensInv, LoginInv, SignUpInv, Orderly, DialogHasText, Screens
<1> QED
  BY <1>1, ScreensCorrect, PTL

(***************************************************************************)
(* The spinner of SignUp means that the sign-up is under way, and failure  *)
(* and success are not shown together, for a patient user.                 *)
(***************************************************************************)
THEOREM SignUpSpinnerCorrect == Spec => []SpinnerMeansWork
<1>1. ScreensInv => SpinnerMeansWork
  BY DEF ScreensInv, SignUpInv, SpinnerMeansWork, Spinner
<1> QED
  BY <1>1, ScreensCorrect, PTL

(***************************************************************************)
(* A new account gets its verification mail, unless the user was impatient *)
(* or sent a mail again from the dialog of SignUp.                         *)
(***************************************************************************)
THEOREM MailCorrect == Spec => []MailUnlessDisturbed
<1>1. ScreensInv => MailUnlessDisturbed
  BY DEF ScreensInv, SignUpInv
<1> QED
  BY <1>1, ScreensCorrect, PTL

(***************************************************************************)
(* A new profile has the address of its account, unless the field was      *)
(* edited while createUser was under way.                                  *)
(***************************************************************************)
THEOREM ProfileCorrect == Spec => []ProfileMatchesAccount
<1>1. ScreensInv => ProfileMatchesAccount
  BY DEF ScreensInv, SignUpInv
<1> QED
  BY <1>1, ScreensCorrect, PTL

-----------------------------------------------------------------------------
(* The action property. *)

(* A message is written where the dialog is closed, or cleared where it is open. *)
LEMMA SayOpens ==
  ASSUME TypeOK, NEW s \in Screens, NEW text, Say(s, text),
         ~ impatient[s] => (alert[s] <=> text = "")
  PROVE  \A r \in Screens : OpensDialog(r)
<1>1. error'[s] = text /\ (alert'[s] <=> ~ alert[s])
  BY DEF Say, TypeOK
<1>2. \A r \in Screens : r # s => error'[r] = error[r]
  BY DEF Say, TypeOK
<1> QED
  BY <1>1, <1>2 DEF OpensDialog

(* Every step writes and clears messages together with the dialog. *)
LEMMA OpensDialogStep ==
  TypeOK /\ ScreensInv /\ [Next]_vars => [\A s \in Screens : OpensDialog(s)]_vars
<1> SUFFICES ASSUME TypeOK, ScreensInv, Next PROVE \A s \in Screens : OpensDialog(s)
  OBVIOUS
<1>0. UNCHANGED error => \A s \in Screens : OpensDialog(s)
  BY DEF OpensDialog
<1>1. ASSUME NEW kind, Submit(kind) PROVE \A s \in Screens : OpensDialog(s)
  <2>1. "Login" \in Screens /\ ~ alert["Login"]
    BY <1>1 DEF Submit, FormOnTop, Screens
  <2> QED
    BY <1>0, <1>1, <2>1, SayOpens DEF Submit, SayNothing
<1>2. CASE PushSignUp \/ ReSentOK \/ SignOut \/ \E address \in Emails \cup {""} : TypeEmail(address)
  BY <1>0, <1>2 DEF PushSignUp, ReSentOK, SignOut, TypeEmail
<1>3. CASE Register
  <2>1. "SignUp" \in Screens /\ ~ alert["SignUp"]
    BY <1>3 DEF Register, FormOnTop, Screens
  <2> QED
    BY <1>0, <1>3, <2>1, SayOpens DEF Register, SayNothing
<1>4. ASSUME NEW ss \in SUBSET Screens, Drop(ss) PROVE \A s \in Screens : OpensDialog(s)
  BY <1>4 DEF Drop, OpensDialog
<1>5. CASE PopSignUp
  <2>1. {"SignUp"} \in SUBSET Screens
    BY DEF Screens
  <2> QED
    BY <1>4, <1>5, <2>1 DEF PopSignUp
<1>6. ASSUME NEW s \in Screens, Cancel(s) PROVE \A r \in Screens : OpensDialog(r)
  BY <1>6, SayOpens DEF Cancel, ErrorViewOnTop
<1>7. ASSUME NEW s \in Screens, Resend(s) PROVE \A r \in Screens : OpensDialog(r)
  BY <1>0, <1>7 DEF Resend
<1>8. ASSUME NEW i \in Slots, Answered(i) PROVE \A s \in Screens : OpensDialog(s)
  <2>1. CASE SignInFails(i) \/ SignInUnverified(i) \/ ResetAnswered(i)
               \/ CreateUserFails(i) \/ VerificationFails(i)
    <3>1. calls[i].kind \in Kinds \ {"resend"}
      BY <2>1 DEF SignInFails, SignInUnverified, ResetAnswered, CreateUserFails,
                  VerificationFails, Kinds
    <3>2. PICK text \in Texts \ {""} : Tell(i, text)
      BY <2>1 DEF SignInFails, SignInUnverified, ResetAnswered, CreateUserFails,
                  VerificationFails, Texts
    <3>3. CASE calls[i].screen = "gone"
      BY <1>0, <3>2, <3>3 DEF Tell, SayNothing
    <3>4. CASE calls[i].screen # "gone"
      <4> DEFINE s == calls[i].screen
      <4>1. s \in Screens /\ Say(s, text)
        BY <3>1, <3>2, <3>4, CallFacts DEF Tell
      <4>2. ~ impatient[s] => Orderly(s)
        BY <4>1 DEF ScreensInv, LoginInv, SignUpInv, Screens
      <4>3. Orderly(s) => ~ alert[s]
        BY <3>1 DEF Orderly
      <4> QED
        BY <3>2, <4>1, <4>2, <4>3, SayOpens
    <3> QED
      BY <3>3, <3>4
  <2>2. CASE SignInVerified(i)
    BY <1>4, <2>2 DEF SignInVerified
  <2>3. CASE CreateUserSucceeds(i) \/ VerificationSent(i) \/ ResendSucceeds(i) \/ ResendFails(i)
    BY <1>0, <2>3 DEF CreateUserSucceeds, VerificationSent, ResendSucceeds, ResendFails
  <2> QED
    BY <1>8, <2>1, <2>2, <2>3 DEF Answered
<1> QED
  BY <1>1, <1>2, <1>3, <1>5, <1>6, <1>7, <1>8 DEF Next, Verify, Reset

(***************************************************************************)
(* No answer hides the answer before it: what a patient user is told opens *)
(* the dialog, and clearing the message closes it.                         *)
(***************************************************************************)
THEOREM MessagesCorrect == Spec => MessageOpensDialog
BY OpensDialogStep, TypeCorrect, ScreensCorrect, PTL DEF Spec, MessageOpensDialog

=============================================================================
