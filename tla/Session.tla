------------------------------ MODULE Session ------------------------------
(***************************************************************************)
(* Who is signed in, according to whom.                                    *)
(*                                                                         *)
(* Three places remember it: FIRAuth.currentUser, kept in the keychain and *)
(* changed on the auth work queue; "status" in UserDefaults; and           *)
(* Authenticate.status with the JournalList it shows, which die with the   *)
(* process.  Log in, sign up and sign out change them in several steps,    *)
(* the requests of Log in and Sign Up may overlap, the backend may revoke  *)
(* a token, and the process may be killed between any two steps.           *)
(*                                                                         *)
(* `user!`, `uid!` and `try!` end the process when they meet nil or an     *)
(* error: the action Trap.  The dialogs of the screens and the documents   *)
(* in Firestore are not part of this module.                               *)
(***************************************************************************)
EXTENDS Integers, Sequences, FiniteSets

CONSTANTS
  Users,         \* the accounts
  NoUser,        \* nil
  MaxRequests    \* bound: requests under way at a time, up to the end of
                 \* their completion blocks

ASSUME UsersAssumption == NoUser \notin Users
ASSUME MaxRequestsAssumption == MaxRequests \in Nat \ {0}

VARIABLES
  accounts,      \* the auth backend's view of every user
  currentUser,   \* FIRAuth.currentUser (keychain)
  emailVerified, \* currentUser.isEmailVerified, as loaded at sign-in
  stored,        \* UserDefaults "status"
  main,          \* the main thread: "idle", inside the action of Sign Out,
                 \* or "dead" (no process)
  status,        \* Authenticate.status
  rendered,      \* Authenticate.body has been evaluated for this state
  list,          \* the user whose JournalList is on the screen
  sent,          \* the requests the backend has not answered
  callbacks,     \* the completion blocks on the main queue
  (* History variables. *)
  trap,          \* the first force unwrap that has failed
  misfiled,      \* an entry was saved for a user other than list
  overlapped,    \* two requests were under way at once
  revoked,       \* the backend has revoked the current user's token
  cutShort       \* the process was killed inside the action of Sign Out

authVars == <<accounts, currentUser, emailVerified>>
viewVars == <<main, status, rendered, list>>
requestVars == <<sent, callbacks>>
historyVars == <<trap, misfiled, overlapped, revoked, cutShort>>
vars == <<authVars, stored, viewVars, requestVars, historyVars>>

Slots == 1 .. MaxRequests
Kinds == {"signIn", "createUser"}
Idle == [kind |-> "none", user |-> NoUser]
Request == [kind : Kinds, user : Users] \cup {Idle}
Callback == [kind : Kinds, err : BOOLEAN]
UserOrNil == Users \cup {NoUser}

(* Every variable has its type. *)
TypeOK ==
  /\ accounts \in [Users -> {"none", "unverified", "verified"}]
  /\ currentUser \in UserOrNil
  /\ emailVerified \in BOOLEAN
  /\ stored \in BOOLEAN
  /\ main \in {"idle", "signingOut", "dead"}
  /\ status \in BOOLEAN
  /\ rendered \in BOOLEAN
  /\ list \in UserOrNil
  /\ sent \in [Slots -> Request]
  /\ callbacks \in Seq(Callback)
  /\ trap \in {"none", "getData", "Login", "SignUp", "SaveData", "signOut"}
  /\ misfiled \in BOOLEAN
  /\ overlapped \in BOOLEAN
  /\ revoked \in BOOLEAN
  /\ cutShort \in BOOLEAN

(* A new installation; some accounts exist from other devices. *)
Init ==
  /\ accounts \in [Users -> {"none", "unverified", "verified"}]
  /\ currentUser = NoUser
  /\ emailVerified = FALSE
  /\ stored = FALSE
  /\ main = "dead"
  /\ status = FALSE
  /\ rendered = FALSE
  /\ list = NoUser
  /\ sent = [s \in Slots |-> Idle]
  /\ callbacks = <<>>
  /\ trap = "none"
  /\ misfiled = FALSE
  /\ overlapped = FALSE
  /\ revoked = FALSE
  /\ cutShort = FALSE

-----------------------------------------------------------------------------
(* The process. *)

(* What dies with the process. *)
LoseProcess ==
  /\ main' = "dead"
  /\ status' = FALSE
  /\ rendered' = FALSE
  /\ list' = NoUser
  /\ sent' = [s \in Slots |-> Idle]
  /\ callbacks' = <<>>

(* A force unwrap meets nil. *)
Trap(place) ==
  /\ LoseProcess
  /\ trap' = IF trap = "none" THEN place ELSE trap
  /\ UNCHANGED <<authVars, stored, misfiled, overlapped, revoked, cutShort>>

(* The system or the user ends the process. *)
Kill ==
  /\ main # "dead"
  /\ LoseProcess
  /\ cutShort' = (cutShort \/ main = "signingOut")
  /\ UNCHANGED <<authVars, stored, trap, misfiled, overlapped, revoked>>

(* Mutant: the stored status is not read. *)
LaunchForgets ==
  /\ main = "dead"
  /\ main' = "idle"
  /\ UNCHANGED <<authVars, stored, status, rendered, list, requestVars, historyVars>>

(* The app starts: @State var status = UserDefaults ... "status" *)
Launch ==
  /\ main = "dead"
  /\ main' = "idle"
  /\ status' = stored
  /\ UNCHANGED <<authVars, stored, rendered, list, requestVars, historyVars>>

(* Mutant: the JournalList stays when Login is shown. *)
RenderLoginOverList ==
  /\ main = "idle" /\ ~ rendered /\ ~ status
  /\ rendered' = TRUE
  /\ UNCHANGED <<authVars, stored, main, status, list, requestVars, historyVars>>

(***************************************************************************)
(* Authenticate.body shows JournalList or Login.  A new JournalList makes  *)
(* a new getData, whose init unwraps the uid of the current user.          *)
(***************************************************************************)
RenderLogin ==
  /\ main = "idle" /\ ~ rendered /\ ~ status
  /\ rendered' = TRUE
  /\ list' = NoUser
  /\ UNCHANGED <<authVars, stored, main, status, requestVars, historyVars>>

RenderJournalList ==
  /\ main = "idle" /\ ~ rendered /\ status
  /\ \/ currentUser = NoUser /\ Trap("getData")
     \/ /\ currentUser # NoUser
        /\ rendered' = TRUE
        /\ list' = currentUser
        /\ UNCHANGED <<authVars, stored, main, status, requestVars, historyVars>>

-----------------------------------------------------------------------------
(* Log in and sign up. *)

UnderWay == callbacks # <<>> \/ \E s \in Slots : sent[s] # Idle

(* Login.verify and SignUp.register, with the fields filled in *)
Send(kind, user) ==
  /\ main = "idle" /\ rendered /\ ~ status
  /\ Cardinality({s \in Slots : sent[s] # Idle}) + Len(callbacks) < MaxRequests
  /\ \E s \in Slots :
       /\ sent[s] = Idle
       /\ sent' = [sent EXCEPT ![s] = [kind |-> kind, user |-> user]]
  /\ overlapped' = (overlapped \/ UnderWay)
  /\ UNCHANGED <<authVars, stored, viewVars, callbacks, trap, misfiled, revoked, cutShort>>

LogIn(user) == Send("signIn", user)

SignUp(user) == Send("createUser", user)

(* Mutant: the kind is looked up in the slot that was just cleared. *)
AnswerAfterReset(s, isError) ==
  /\ sent' = [sent EXCEPT ![s] = Idle]
  /\ callbacks' = Append(callbacks, [kind |-> sent'[s].kind, err |-> isError])
  /\ UNCHANGED <<stored, viewVars, historyVars>>

(* The request is over; its completion block goes to the main queue. *)
Answer(s, isError) ==
  /\ sent' = [sent EXCEPT ![s] = Idle]
  /\ callbacks' = Append(callbacks, [kind |-> sent[s].kind, err |-> isError])
  /\ UNCHANGED <<stored, viewVars, historyVars>>

(***************************************************************************)
(* The backend accepts the request.  On the auth work queue the current    *)
(* user is replaced; the completion block is posted to the main queue and  *)
(* runs later.                                                             *)
(***************************************************************************)
SignInSucceeds(s) ==
  LET user == sent[s].user IN
  /\ sent[s].kind = "signIn" /\ accounts[user] # "none"
  /\ currentUser' = user
  /\ emailVerified' = (accounts[user] = "verified")
  /\ Answer(s, FALSE)
  /\ UNCHANGED accounts

CreateUserSucceeds(s) ==
  LET user == sent[s].user IN
  /\ sent[s].kind = "createUser" /\ accounts[user] = "none"
  /\ accounts' = [accounts EXCEPT ![user] = "unverified"]
  /\ currentUser' = user
  /\ emailVerified' = FALSE
  /\ Answer(s, FALSE)

(* Wrong password, unknown or known address, no network. *)
RequestFails(s) ==
  /\ sent[s] # Idle
  /\ Answer(s, TRUE)
  /\ UNCHANGED authVars

(* The account is created but the answer does not reach the device. *)
CreateUserAnswerLost(s) ==
  /\ sent[s].kind = "createUser" /\ accounts[sent[s].user] = "none"
  /\ accounts' = [accounts EXCEPT ![sent[s].user] = "unverified"]
  /\ Answer(s, TRUE)
  /\ UNCHANGED <<currentUser, emailVerified>>

NextCallback(kind) ==
  /\ main = "idle" /\ callbacks # <<>> /\ Head(callbacks).kind = kind

(***************************************************************************)
(* The completion block only shows a dialog.  evaluated is what is left of *)
(* rendered: Login sets resend, a @State of Authenticate, for an           *)
(* unverified user, and SwiftUI may evaluate Authenticate.body again.      *)
(***************************************************************************)
OnlyDialog(evaluated) ==
  /\ callbacks' = Tail(callbacks)
  /\ rendered' \in evaluated
  /\ UNCHANGED <<authVars, stored, main, status, list, sent, historyVars>>

(* The notification "status" after UserDefaults was set to true *)
PostSignedIn ==
  /\ stored' = TRUE
  /\ status' = TRUE
  /\ callbacks' = Tail(callbacks)
  /\ rendered' \in {rendered /\ status, FALSE}
  /\ UNCHANGED <<authVars, main, list, sent, historyVars>>

(* Mutant: isEmailVerified is not asked. *)
LoginCallbackNoGate ==
  /\ NextCallback("signIn")
  /\ \/ Head(callbacks).err /\ OnlyDialog({rendered})
     \/ ~ Head(callbacks).err /\ currentUser = NoUser /\ Trap("Login")
     \/ ~ Head(callbacks).err /\ currentUser # NoUser /\ PostSignedIn

(***************************************************************************)
(* The completion block of signIn looks at the user that is current when   *)
(* it runs.                                                                *)
(***************************************************************************)
LoginCallback ==
  /\ NextCallback("signIn")
  /\ \/ Head(callbacks).err /\ OnlyDialog({rendered})
     \/ ~ Head(callbacks).err /\ currentUser = NoUser /\ Trap("Login")
     \/ /\ ~ Head(callbacks).err /\ currentUser # NoUser /\ ~ emailVerified
        /\ OnlyDialog({rendered, FALSE})
     \/ ~ Head(callbacks).err /\ currentUser # NoUser /\ emailVerified /\ PostSignedIn

(* The completion block of createUser: SignUp.createUser unwraps user!.uid *)
SignUpCallback ==
  /\ NextCallback("createUser")
  /\ \/ Head(callbacks).err /\ OnlyDialog({rendered})
     \/ ~ Head(callbacks).err /\ currentUser = NoUser /\ Trap("SignUp")
     \/ ~ Head(callbacks).err /\ currentUser # NoUser /\ OnlyDialog({rendered})

-----------------------------------------------------------------------------
(* The journal list. *)

(* The main thread is idle and the JournalList reacts to a touch. *)
ListOnScreen == main = "idle" /\ rendered /\ list # NoUser

(* EditView.SaveData writes for the user that is current now. *)
SaveData ==
  /\ ListOnScreen
  /\ \/ currentUser = NoUser /\ Trap("SaveData")
     \/ /\ currentUser # NoUser
        /\ misfiled' = (misfiled \/ currentUser # list)
        /\ UNCHANGED <<authVars, stored, viewVars, requestVars, trap, overlapped,
                       revoked, cutShort>>

(***************************************************************************)
(* Sign Out: try! Auth.auth().signOut(), which fails if the keychain does, *)
(* and then, in StoreSignedOut, the rest: a kill may come between the two. *)
(***************************************************************************)
SignOut ==
  /\ ListOnScreen
  /\ \/ currentUser # NoUser /\ Trap("signOut")
     \/ /\ currentUser' = NoUser
        /\ emailVerified' = FALSE
        /\ main' = "signingOut"
        /\ UNCHANGED <<accounts, stored, status, rendered, list, requestVars, historyVars>>

(* Mutant: Sign Out does not write UserDefaults. *)
StoreSignedOutForgets ==
  /\ main = "signingOut"
  /\ status' = FALSE
  /\ main' = "idle"
  /\ rendered' = FALSE
  /\ UNCHANGED <<authVars, stored, list, requestVars, historyVars>>

(* ... UserDefaults and the notification "status" *)
StoreSignedOut ==
  /\ main = "signingOut"
  /\ stored' = FALSE
  /\ status' = FALSE
  /\ main' = "idle"
  /\ rendered' = FALSE
  /\ UNCHANGED <<authVars, list, requestVars, historyVars>>

-----------------------------------------------------------------------------
(* The backend and the user's mailbox. *)

(***************************************************************************)
(* FIRUser signOutIfTokenIsInvalidWithError: a refresh of the token (by    *)
(* Firestore, say) is refused and the user is signed out by force.         *)
(***************************************************************************)
Revoke ==
  /\ main # "dead" /\ currentUser # NoUser
  /\ currentUser' = NoUser
  /\ emailVerified' = FALSE
  /\ revoked' = TRUE
  /\ UNCHANGED <<accounts, stored, viewVars, requestVars, trap, misfiled, overlapped,
                 cutShort>>

(* The user follows the link of the verification mail. *)
FollowLink(user) ==
  /\ accounts[user] = "unverified"
  /\ accounts' = [accounts EXCEPT ![user] = "verified"]
  /\ UNCHANGED <<currentUser, emailVerified, stored, viewVars, requestVars, historyVars>>

Next ==
  \/ Kill \/ Launch \/ RenderLogin \/ RenderJournalList
  \/ \E user \in Users : LogIn(user) \/ SignUp(user) \/ FollowLink(user)
  \/ \E s \in Slots : SignInSucceeds(s) \/ CreateUserSucceeds(s) \/ RequestFails(s)
                        \/ CreateUserAnswerLost(s)
  \/ LoginCallback \/ SignUpCallback
  \/ SaveData \/ SignOut \/ StoreSignedOut
  \/ Revoke

Spec == Init /\ [][Next]_vars

-----------------------------------------------------------------------------
(* Properties. *)

(***************************************************************************)
(* The stored status and the keychain agree, so that the next launch finds *)
(* a user to show, and no force unwrap of the session fails, unless        *)
(* requests overlapped, a token was revoked or Sign Out was cut short.     *)
(* (try! signOut() depends on the keychain alone.)                         *)
(***************************************************************************)
NoTrapUnlessDisturbed ==
  ~ overlapped /\ ~ revoked /\ ~ cutShort =>
    /\ trap \in {"none", "signOut"}
    /\ stored /\ main # "signingOut" => currentUser # NoUser

(***************************************************************************)
(* "Email has not yet been verified" keeps users with an unverified        *)
(* address out: without overlapping requests no restart, revocation or     *)
(* late answer shows such a user a JournalList.                            *)
(***************************************************************************)
GateUnlessOverlapped ==
  ~ overlapped /\ list # NoUser => accounts[list] = "verified"

(***************************************************************************)
(* An entry is saved for the user whose list is on the screen: SaveData    *)
(* asks for the current user, JournalList has asked when it was made.      *)
(***************************************************************************)
SavedWhereShown == misfiled => overlapped

(* What `uid!` in getData.init asserts: JournalList is made for a user. *)
GetDataFindsUser == trap # "getData"

(* What "Email has not yet been verified" says, for every use of the app. *)
OnlyVerifiedUsersListed == list # NoUser => accounts[list] = "verified"

-----------------------------------------------------------------------------
(* The inductive invariant. *)

(* The screen follows UserDefaults, and dies with the process. *)
ScreenFollows ==
  /\ main = "dead" => ~ UnderWay /\ ~ status /\ ~ rendered /\ list = NoUser
  /\ main # "dead" => (status <=> stored)
  /\ rendered /\ ~ status => list = NoUser

(* Once verified, a user stays verified. *)
VerifiedStays == emailVerified => currentUser # NoUser /\ accounts[currentUser] = "verified"

(* Without overlap, one request at a time, and none once somebody is in. *)
OneRequest ==
  /\ Len(callbacks) <= 1
  /\ callbacks # <<>> => \A s \in Slots : sent[s] = Idle
  /\ \A s, t \in Slots : sent[s] # Idle /\ sent[t] # Idle => s = t
  /\ status \/ list # NoUser => ~ UnderWay

(* Who is let in has a verified address, and no other user takes the place. *)
GateHolds ==
  /\ stored /\ currentUser # NoUser => emailVerified
  /\ list # NoUser => accounts[list] = "verified" /\ currentUser \in {list, NoUser}

(* The keychain has the user that UserDefaults and the callback count on. *)
UserThere ==
  /\ stored /\ main # "signingOut" => currentUser # NoUser
  /\ callbacks # <<>> => Head(callbacks).err \/ currentUser # NoUser

(***************************************************************************)
(* Why the properties hold: as long as requests do not overlap, nothing is *)
(* under way while a list is on the screen, so that nobody replaces the    *)
(* current user behind its back.                                           *)
(***************************************************************************)
SessionInv ==
  /\ ScreenFollows /\ VerifiedStays
  /\ ~ overlapped => OneRequest /\ GateHolds
  /\ ~ overlapped /\ ~ revoked /\ ~ cutShort => UserThere
  /\ NoTrapUnlessDisturbed
  /\ SavedWhereShown

=============================================================================
