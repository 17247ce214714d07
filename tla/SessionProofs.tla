---------------------------- MODULE SessionProofs ----------------------------
(***************************************************************************)
(* Proofs about Session, for every set of users and every number of        *)
(* requests under way.                                                     *)
(***************************************************************************)
EXTENDS Session, TLAPS

-----------------------------------------------------------------------------
(* Types. *)

(* A request that is not Idle has a kind and a user. *)
LEMMA RequestFacts ==
  ASSUME TypeOK, NEW s \in Slots, sent[s] # Idle
  PROVE  sent[s].kind \in Kinds /\ sent[s].user \in Users
BY DEF TypeOK, Request

(* An idle slot is of no kind. *)
LEMMA IdleFacts == Idle.kind \notin Kinds
BY DEF Idle, Kinds

(* An answered request leaves its slot and puts one callback on the queue. *)
LEMMA AnswerTypes ==
  ASSUME TypeOK, NEW s \in Slots, sent[s] # Idle, NEW isError \in BOOLEAN, Answer(s, isError)
  PROVE  sent' \in [Slots -> Request] /\ callbacks' \in Seq(Callback)
<1>1. [kind |-> sent[s].kind, err |-> isError] \in Callback
  BY RequestFacts DEF Callback
<1>2. Idle \in Request
  BY DEF Request
<1> QED
  BY <1>1, <1>2 DEF Answer, TypeOK

(* The head of a queue is a callback and its tail a queue. *)
LEMMA QueueTypes ==
  ASSUME TypeOK, callbacks # <<>>
  PROVE  Head(callbacks) \in Callback /\ Tail(callbacks) \in Seq(Callback)
BY DEF TypeOK

(* No request and no callback. *)
LEMMA NothingUnderWayTypes ==
  [s \in Slots |-> Idle] \in [Slots -> Request] /\ <<>> \in Seq(Callback)
<1>1. Idle \in Request
  BY DEF Request
<1>2. <<>> \in Seq(Callback)
  OBVIOUS
<1> QED
  BY <1>1, <1>2

(* A process that ends leaves nothing of the wrong type. *)
LEMMA LoseProcessTypes ==
  ASSUME LoseProcess
  PROVE  /\ main' = "dead" /\ status' \in BOOLEAN /\ rendered' \in BOOLEAN
         /\ list' \in UserOrNil
         /\ sent' \in [Slots -> Request] /\ callbacks' \in Seq(Callback)
BY NothingUnderWayTypes DEF LoseProcess, UserOrNil

(* A failed force unwrap keeps the types. *)
LEMMA TrapType ==
  ASSUME TypeOK, NEW place \in {"getData", "Login", "SignUp", "SaveData", "signOut"}, Trap(place)
  PROVE  TypeOK'
BY LoseProcessTypes DEF Trap, TypeOK, authVars

(* Every action keeps the types. *)
LEMMA TypeOKStep == TypeOK /\ [Next]_vars => TypeOK'
<1> SUFFICES ASSUME TypeOK, [Next]_vars PROVE TypeOK'
  OBVIOUS
<1> USE DEF authVars, viewVars, requestVars, historyVars
<1>1. CASE Kill
  BY <1>1, LoseProcessTypes DEF Kill, TypeOK
<1>2. CASE Launch \/ RenderLogin
  <2>1. CASE Launch
    BY <2>1 DEF Launch, TypeOK
  <2>2. CASE RenderLogin
    BY <2>2 DEF RenderLogin, TypeOK, UserOrNil
  <2> QED
    BY <1>2, <2>1, <2>2
<1>3. CASE RenderJournalList
  BY <1>3, TrapType DEF RenderJournalList, TypeOK
<1>4. ASSUME NEW user \in Users, LogIn(user) \/ SignUp(user) PROVE TypeOK'
  <2>1. PICK kind \in Kinds : Send(kind, user)
    BY <1>4 DEF LogIn, SignUp, Kinds
  <2>2. [kind |-> kind, user |-> user] \in Request
    BY DEF Request
  <2>3. sent' \in [Slots -> Request] /\ overlapped' \in BOOLEAN
    BY <2>1, <2>2 DEF Send, TypeOK, UnderWay
  <2> QED
    BY <2>1, <2>3 DEF Send, TypeOK
<1>5. ASSUME NEW user \in Users, FollowLink(user) PROVE TypeOK'
  BY <1>5 DEF FollowLink, TypeOK
<1>6. ASSUME NEW s \in Slots, SignInSucceeds(s) \/ CreateUserSucceeds(s) \/ RequestFails(s)
                                \/ CreateUserAnswerLost(s)
      PROVE  TypeOK'
  <2>1. sent[s] # Idle
    BY <1>6, IdleFacts DEF SignInSucceeds, CreateUserSucceeds, RequestFails,
                           CreateUserAnswerLost, Kinds
  <2>2. PICK isError \in BOOLEAN : Answer(s, isError)
    BY <1>6 DEF SignInSucceeds, CreateUserSucceeds, RequestFails, CreateUserAnswerLost
  <2>3. sent' \in [Slots -> Request] /\ callbacks' \in Seq(Callback)
    BY <2>1, <2>2, AnswerTypes
  <2>4. UNCHANGED <<stored, main, status, rendered, list, trap, misfiled, overlapped, revoked,
                    cutShort>>
    BY <2>2 DEF Answer
  <2>5. /\ accounts' \in [Users -> {"none", "unverified", "verified"}]
        /\ currentUser' \in UserOrNil /\ emailVerified' \in BOOLEAN
    BY <1>6, <2>1, RequestFacts DEF SignInSucceeds, CreateUserSucceeds, RequestFails,
       CreateUserAnswerLost, TypeOK, UserOrNil
  <2> QED
    BY <2>3, <2>4, <2>5 DEF TypeOK
<1>7. ASSUME NEW evaluated \in SUBSET BOOLEAN, OnlyDialog(evaluated), callbacks # <<>>
      PROVE  TypeOK'
  BY <1>7, QueueTypes DEF OnlyDialog, TypeOK
<1>8. ASSUME PostSignedIn, callbacks # <<>> PROVE TypeOK'
  BY <1>8, QueueTypes DEF PostSignedIn, TypeOK
<1>9. CASE LoginCallback
  <2>1. {rendered} \in SUBSET BOOLEAN /\ {rendered, FALSE} \in SUBSET BOOLEAN
    BY DEF TypeOK
  <2> QED
    BY <1>7, <1>8, <1>9, <2>1, TrapType DEF LoginCallback, NextCallback
<1>10. CASE SignUpCallback
  <2>1. {rendered} \in SUBSET BOOLEAN
    BY DEF TypeOK
  <2> QED
    BY <1>7, <1>10, <2>1, TrapType DEF SignUpCallback, NextCallback
<1>11. CASE SaveData
  <2>1. CASE Trap("SaveData")
    BY <2>1, TrapType
  <2>2. CASE ~ Trap("SaveData")
    <3>1. misfiled' \in BOOLEAN
      BY <1>11, <2>2 DEF SaveData
    <3>2. UNCHANGED <<authVars, stored, viewVars, requestVars, trap, overlapped, revoked, cutShort>>
      BY <1>11, <2>2 DEF SaveData
    <3> QED
      BY <3>1, <3>2 DEF TypeOK
  <2> QED
    BY <2>1, <2>2
<1>12. CASE SignOut
  BY <1>12, TrapType DEF SignOut, TypeOK, UserOrNil
<1>13. CASE StoreSignedOut
  BY <1>13 DEF StoreSignedOut, TypeOK
<1>14. CASE Revoke
  BY <1>14 DEF Revoke, TypeOK, UserOrNil
<1>15. CASE UNCHANGED vars
  BY <1>15 DEF vars, TypeOK
<1> QED
  BY <1>1, <1>2, <1>3, <1>4, <1>5, <1>6, <1>9, <1>10, <1>11, <1>12, <1>13, <1>14, <1>15
     DEF Next

(***************************************************************************)
(* The session keeps its types: whoever is current or listed is a user or  *)
(* nil, and every request and callback is one the app has made.            *)
(***************************************************************************)
THEOREM TypeCorrect == Spec => []TypeOK
<1>1. Init => TypeOK
  BY NothingUnderWayTypes DEF Init, TypeOK, UserOrNil
<1> QED
  BY <1>1, TypeOKStep, PTL DEF Spec

-----------------------------------------------------------------------------
(* The inductive invariant. *)

(* Nothing has disturbed the session. *)
Calm == ~ overlapped /\ ~ revoked /\ ~ cutShort

(* The invariant holds of a new installation. *)
LEMMA SessionInvInit == Init => SessionInv
<1> SUFFICES ASSUME Init PROVE SessionInv
  OBVIOUS
<1>1. ~ UnderWay
  BY DEF Init, UnderWay
<1>2. OneRequest
  BY <1>1 DEF Init, OneRequest
<1> QED
  BY <1>1, <1>2 DEF Init, SessionInv, ScreenFollows, VerifiedStays, GateHolds, UserThere,
     NoTrapUnlessDisturbed, SavedWhereShown

(* The process ends: the keychain and UserDefaults stay as they are. *)
LEMMA LoseStep ==
  ASSUME TypeOK, SessionInv, LoseProcess,
         UNCHANGED <<accounts, currentUser, emailVerified, stored, misfiled, overlapped, revoked>>,
         Calm' => Calm /\ main # "signingOut" /\ trap' \in {"none", "signOut"}
  PROVE  SessionInv'
<1>1. /\ \A s \in Slots : sent'[s] = Idle
      /\ callbacks' = <<>> /\ ~ status' /\ ~ rendered' /\ list' = NoUser /\ main' = "dead"
  BY DEF LoseProcess
<1>2. ~ UnderWay'
  BY <1>1 DEF UnderWay
<1>3. OneRequest'
  BY <1>1, <1>2 DEF OneRequest
<1>4. ScreenFollows' /\ VerifiedStays' /\ SavedWhereShown'
  BY <1>1, <1>2 DEF SessionInv, ScreenFollows, VerifiedStays, SavedWhereShown
<1>5. ~ overlapped' => GateHolds'
  BY <1>1 DEF SessionInv, GateHolds
<1>6. Calm' => UserThere' /\ trap' \in {"none", "signOut"}
  BY <1>1 DEF SessionInv, UserThere, Calm
<1> QED
  BY <1>3, <1>4, <1>5, <1>6 DEF SessionInv, NoTrapUnlessDisturbed, UserThere, Calm

(* A force unwrap ends the process. *)
LEMMA TrapStep ==
  ASSUME TypeOK, SessionInv, NEW place, Trap(place), main = "idle", Calm => place = "signOut"
  PROVE  SessionInv'
<1>1. Calm' => Calm /\ main # "signingOut" /\ trap' \in {"none", "signOut"}
  BY DEF Trap, Calm, SessionInv, NoTrapUnlessDisturbed
<1> QED
  BY <1>1, LoseStep DEF Trap, authVars

(* Kill, and the launch that follows. *)
LEMMA ProcessStep ==
  ASSUME TypeOK, SessionInv, Kill \/ Launch
  PROVE  SessionInv'
<1> USE DEF authVars, viewVars, requestVars, historyVars
<1>1. CASE Kill
  <2>1. Calm' => Calm /\ main # "signingOut" /\ trap' \in {"none", "signOut"}
    BY <1>1 DEF Kill, Calm, SessionInv, NoTrapUnlessDisturbed
  <2> QED
    BY <1>1, <2>1, LoseStep DEF Kill
<1>2. CASE Launch
  <2>1. ~ UnderWay /\ ~ rendered /\ list = NoUser
    BY <1>2 DEF Launch, SessionInv, ScreenFollows
  <2>2. UnderWay' <=> UnderWay
    BY <1>2 DEF Launch, UnderWay
  <2>3. OneRequest => OneRequest'
    BY <1>2, <2>1, <2>2 DEF Launch, OneRequest
  <2>4. ScreenFollows' /\ VerifiedStays' /\ (GateHolds => GateHolds')
    BY <1>2, <2>1 DEF Launch, SessionInv, ScreenFollows, VerifiedStays, GateHolds
  <2>5. UserThere => UserThere'
    BY <1>2 DEF Launch, UserThere
  <2>6. NoTrapUnlessDisturbed' /\ SavedWhereShown'
    BY <1>2 DEF Launch, SessionInv, NoTrapUnlessDisturbed, SavedWhereShown
  <2> QED
    BY <1>2, <2>3, <2>4, <2>5, <2>6 DEF Launch, SessionInv
<1> QED
  BY <1>1, <1>2

(* Authenticate.body. *)
LEMMA RenderStep ==
  ASSUME TypeOK, SessionInv, RenderLogin \/ RenderJournalList
  PROVE  SessionInv'
<1> USE DEF authVars, viewVars, requestVars, historyVars
<1>1. CASE currentUser = NoUser /\ RenderJournalList
  <2>1. main = "idle" /\ Trap("getData") /\ status
    BY <1>1 DEF RenderJournalList
  <2>2. ~ Calm
    BY <1>1, <2>1 DEF SessionInv, ScreenFollows, UserThere, Calm
  <2> QED
    BY <2>1, <2>2, TrapStep
<1>2. CASE RenderLogin \/ (currentUser # NoUser /\ RenderJournalList)
  <2>1. /\ main = "idle" /\ rendered' = TRUE
        /\ ~ status => list' = NoUser
        /\ status => list' = currentUser /\ currentUser # NoUser
        /\ UNCHANGED <<accounts, currentUser, emailVerified, stored, main, status, sent,
                       callbacks, trap, misfiled, overlapped, revoked, cutShort>>
    BY <1>2 DEF RenderLogin, RenderJournalList
  <2>2. UnderWay' <=> UnderWay
    BY <2>1 DEF UnderWay
  <2>3. OneRequest => OneRequest'
    BY <2>1, <2>2 DEF OneRequest
  <2>4. ScreenFollows' /\ VerifiedStays'
    BY <2>1 DEF SessionInv, ScreenFollows, VerifiedStays
  <2>5. GateHolds => GateHolds'
    BY <2>1 DEF SessionInv, ScreenFollows, VerifiedStays, GateHolds
  <2>6. /\ UserThere => UserThere'
        /\ NoTrapUnlessDisturbed' /\ SavedWhereShown'
    BY <2>1 DEF SessionInv, UserThere, NoTrapUnlessDisturbed, SavedWhereShown
  <2> QED
    BY <2>1, <2>3, <2>4, <2>5, <2>6 DEF SessionInv
<1> QED
  BY <1>1, <1>2 DEF RenderJournalList

(* Login.verify and SignUp.register: without overlap, the first request. *)
LEMMA SendStep ==
  ASSUME TypeOK, SessionInv, NEW kind \in Kinds, NEW user \in Users, Send(kind, user)
  PROVE  SessionInv'
<1> USE DEF authVars, viewVars
<1>1. /\ main = "idle" /\ rendered /\ ~ status /\ list = NoUser /\ ~ stored
      /\ UNCHANGED <<accounts, currentUser, emailVerified, stored, main, status, rendered, list,
                     callbacks, trap, misfiled, revoked, cutShort>>
      /\ overlapped' = (overlapped \/ UnderWay)
  BY DEF Send, SessionInv, ScreenFollows
<1>2. PICK s \in Slots : sent' = [sent EXCEPT ![s] = [kind |-> kind, user |-> user]]
  BY DEF Send
<1>3. ASSUME ~ overlapped' PROVE OneRequest' /\ callbacks' = <<>>
  <2>1. callbacks' = <<>> /\ \A t \in Slots : sent[t] = Idle
    BY <1>1, <1>3 DEF UnderWay
  <2>2. \A t \in Slots : sent'[t] # Idle => t = s
    BY <1>2, <2>1 DEF TypeOK
  <2> QED
    BY <1>1, <2>1, <2>2 DEF OneRequest
<1>4. ScreenFollows' /\ VerifiedStays' /\ SavedWhereShown'
  BY <1>1 DEF SessionInv, ScreenFollows, VerifiedStays, SavedWhereShown
<1>5. ~ overlapped' => GateHolds' /\ UserThere'
  BY <1>1, <1>3 DEF GateHolds, UserThere
<1>6. NoTrapUnlessDisturbed'
  BY <1>1 DEF SessionInv, NoTrapUnlessDisturbed
<1> QED
  BY <1>3, <1>4, <1>5, <1>6 DEF SessionInv

(* An answer: without overlap, to the only request, with nobody signed in. *)
LEMMA AnswerStep ==
  ASSUME TypeOK, SessionInv, NEW s \in Slots, sent[s] # Idle, NEW isError \in BOOLEAN,
         Answer(s, isError), VerifiedStays', isError \/ currentUser' # NoUser
  PROVE  SessionInv'
<1> USE DEF viewVars, historyVars
<1>1. /\ sent' = [sent EXCEPT ![s] = Idle]
      /\ callbacks' = Append(callbacks, [kind |-> sent[s].kind, err |-> isError])
      /\ UNCHANGED <<stored, main, status, rendered, list, trap, misfiled, overlapped, revoked,
                     cutShort>>
  BY DEF Answer
<1>2. UnderWay /\ main # "dead"
  BY DEF UnderWay, SessionInv, ScreenFollows
<1>3. ScreenFollows' /\ SavedWhereShown'
  BY <1>1, <1>2 DEF SessionInv, ScreenFollows, SavedWhereShown
<1>4. ASSUME ~ overlapped
      PROVE  /\ callbacks = <<>> /\ ~ status' /\ list' = NoUser /\ ~ stored'
             /\ \A t \in Slots : sent'[t] = Idle
  <2>1. OneRequest
    BY <1>4 DEF SessionInv
  <2>2. callbacks = <<>> /\ \A t \in Slots : sent'[t] = Idle
    BY <1>1, <2>1 DEF OneRequest, TypeOK
  <2>3. ~ status' /\ list' = NoUser /\ ~ stored'
    BY <1>1, <1>2, <2>1 DEF OneRequest, SessionInv, ScreenFollows
  <2> QED
    BY <2>2, <2>3
<1>5. ASSUME ~ overlapped PROVE Len(callbacks') = 1 /\ Head(callbacks').err = isError
  <2>1. callbacks' = <<[kind |-> sent[s].kind, err |-> isError]>>
    BY <1>1, <1>4, <1>5
  <2> QED
    BY <2>1
<1>6. ~ overlapped' => OneRequest' /\ GateHolds' /\ UserThere'
  BY <1>1, <1>4, <1>5 DEF OneRequest, GateHolds, UserThere
<1>7. NoTrapUnlessDisturbed'
  BY <1>1, <1>4 DEF SessionInv, NoTrapUnlessDisturbed
<1> QED
  BY <1>3, <1>6, <1>7 DEF SessionInv

(* The four ways a request can end. *)
LEMMA RequestStep ==
  ASSUME TypeOK, SessionInv, NEW s \in Slots,
         SignInSucceeds(s) \/ CreateUserSucceeds(s) \/ RequestFails(s) \/ CreateUserAnswerLost(s)
  PROVE  SessionInv'
<1> USE DEF authVars
<1>1. sent[s] # Idle /\ sent[s].user \in Users
  BY IdleFacts, RequestFacts DEF SignInSucceeds, CreateUserSucceeds, RequestFails,
     CreateUserAnswerLost, Kinds
<1>2. VerifiedStays
  BY DEF SessionInv
<1>3. CASE SignInSucceeds(s)
  <2>1. VerifiedStays' /\ currentUser' # NoUser
    BY <1>1, <1>3, UsersAssumption DEF SignInSucceeds, VerifiedStays
  <2> QED
    BY <1>1, <1>3, <2>1, AnswerStep DEF SignInSucceeds
<1>4. CASE CreateUserSucceeds(s)
  <2>1. VerifiedStays' /\ currentUser' # NoUser
    BY <1>1, <1>4, UsersAssumption DEF CreateUserSucceeds, VerifiedStays
  <2> QED
    BY <1>1, <1>4, <2>1, AnswerStep DEF CreateUserSucceeds
<1>5. CASE RequestFails(s)
  <2>1. VerifiedStays'
    BY <1>2, <1>5 DEF RequestFails, VerifiedStays
  <2> QED
    BY <1>1, <1>5, <2>1, AnswerStep DEF RequestFails
<1>6. CASE CreateUserAnswerLost(s)
  <2>1. VerifiedStays'
    BY <1>1, <1>2, <1>6 DEF CreateUserAnswerLost, VerifiedStays, TypeOK, UserOrNil
  <2> QED
    BY <1>1, <1>6, <2>1, AnswerStep DEF CreateUserAnswerLost
<1> QED
  BY <1>3, <1>4, <1>5, <1>6

(* Without overlap a callback is the last thing under way. *)
LEMMA LastCallback ==
  ASSUME TypeOK, SessionInv, ~ overlapped, callbacks # <<>>, callbacks' = Tail(callbacks),
         UNCHANGED sent
  PROVE  callbacks' = <<>> /\ ~ UnderWay'
<1>1. OneRequest
  BY DEF SessionInv
<1>2. callbacks' = <<>>
  BY <1>1 DEF OneRequest, TypeOK
<1> QED
  BY <1>1, <1>2 DEF OneRequest, UnderWay

(* A callback that ends in a dialog, or in the notification. *)
LEMMA CallbackStep ==
  ASSUME TypeOK, SessionInv, main = "idle", callbacks # <<>>,
         \/ \E evaluated \in SUBSET {rendered, FALSE} : OnlyDialog(evaluated)
         \/ PostSignedIn /\ currentUser # NoUser /\ emailVerified
  PROVE  SessionInv'
<1> USE DEF authVars, historyVars
<1>1. /\ callbacks' = Tail(callbacks)
      /\ UNCHANGED <<accounts, currentUser, emailVerified, main, list, sent, trap, misfiled,
                     overlapped, revoked, cutShort>>
  BY DEF OnlyDialog, PostSignedIn
<1>2. /\ \/ UNCHANGED <<stored, status>>
         \/ stored' /\ status' /\ currentUser # NoUser /\ emailVerified
      /\ rendered' => rendered
      /\ rendered' /\ status' => status
  <2>1. ASSUME NEW evaluated \in SUBSET {rendered, FALSE}, OnlyDialog(evaluated)
        PROVE  UNCHANGED <<stored, status>> /\ rendered' \in {rendered, FALSE}
    BY <2>1 DEF OnlyDialog
  <2>2. ASSUME PostSignedIn
        PROVE  stored' /\ status' /\ rendered' \in {rendered /\ status, FALSE}
    BY <2>2 DEF PostSignedIn
  <2> QED
    BY <2>1, <2>2 DEF TypeOK
<1>3. ScreenFollows' /\ VerifiedStays' /\ SavedWhereShown'
  BY <1>1, <1>2 DEF SessionInv, ScreenFollows, VerifiedStays, SavedWhereShown
<1>4. ASSUME ~ overlapped' PROVE OneRequest' /\ callbacks' = <<>>
  <2>1. callbacks' = <<>> /\ ~ UnderWay'
    BY <1>1, <1>4, LastCallback
  <2>2. \A s, t \in Slots : sent'[s] # Idle /\ sent'[t] # Idle => s = t
    BY <1>1, <1>4 DEF SessionInv, OneRequest
  <2>3. \A s \in Slots : sent'[s] = Idle
    BY <2>1 DEF UnderWay
  <2> QED
    BY <2>1, <2>2, <2>3 DEF OneRequest
<1>5. ~ overlapped' => GateHolds'
  BY <1>1, <1>2 DEF SessionInv, GateHolds
<1>6. Calm' => UserThere'
  BY <1>1, <1>2, <1>4 DEF SessionInv, UserThere, Calm
<1>7. NoTrapUnlessDisturbed'
  BY <1>1, <1>2 DEF SessionInv, NoTrapUnlessDisturbed
<1> QED
  BY <1>3, <1>4, <1>5, <1>6, <1>7 DEF SessionInv, Calm

(* The completion blocks of signIn and createUser. *)
LEMMA CompletionStep ==
  ASSUME TypeOK, SessionInv, LoginCallback \/ SignUpCallback
  PROVE  SessionInv'
<1>1. main = "idle" /\ callbacks # <<>>
  BY DEF LoginCallback, SignUpCallback, NextCallback
<1>2. ASSUME NEW place, ~ Head(callbacks).err, currentUser = NoUser, Trap(place)
      PROVE  SessionInv'
  <2>1. ~ Calm
    BY <1>1, <1>2 DEF SessionInv, UserThere, Calm
  <2> QED
    BY <1>1, <1>2, <2>1, TrapStep
<1>3. ASSUME OnlyDialog({rendered}) \/ OnlyDialog({rendered, FALSE}) PROVE SessionInv'
  <2>1. {rendered} \in SUBSET {rendered, FALSE} /\ {rendered, FALSE} \in SUBSET {rendered, FALSE}
    OBVIOUS
  <2> QED
    BY <1>1, <1>3, <2>1, CallbackStep
<1>4. ASSUME PostSignedIn, currentUser # NoUser, emailVerified PROVE SessionInv'
  BY <1>1, <1>4, CallbackStep
<1> QED
  BY <1>2, <1>3, <1>4 DEF LoginCallback, SignUpCallback

(* EditView.SaveData. *)
LEMMA SaveDataStep ==
  ASSUME TypeOK, SessionInv, SaveData
  PROVE  SessionInv'
<1> USE DEF authVars, viewVars, requestVars
<1>1. main = "idle" /\ rendered /\ list # NoUser /\ status /\ stored
  BY DEF SaveData, ListOnScreen, SessionInv, ScreenFollows
<1>2. CASE currentUser = NoUser
  <2>1. ~ Calm
    BY <1>1, <1>2 DEF SessionInv, UserThere, Calm
  <2>2. Trap("SaveData")
    BY <1>2 DEF SaveData
  <2> QED
    BY <1>1, <2>1, <2>2, TrapStep
<1>3. CASE currentUser # NoUser
  <2>1. /\ misfiled' = (misfiled \/ currentUser # list)
        /\ UNCHANGED <<accounts, currentUser, emailVerified, stored, main, status, rendered, list,
                       sent, callbacks, trap, overlapped, revoked, cutShort>>
    BY <1>3 DEF SaveData
  <2>2. SavedWhereShown'
    BY <1>1, <1>3, <2>1 DEF SessionInv, GateHolds, SavedWhereShown
  <2>3. UnderWay' <=> UnderWay
    BY <2>1 DEF UnderWay
  <2>4. ScreenFollows' /\ VerifiedStays' /\ NoTrapUnlessDisturbed'
    BY <2>1, <2>3 DEF SessionInv, ScreenFollows, VerifiedStays, NoTrapUnlessDisturbed
  <2>5. /\ OneRequest => OneRequest'
        /\ GateHolds => GateHolds'
        /\ UserThere => UserThere'
    BY <2>1, <2>3 DEF OneRequest, GateHolds, UserThere
  <2> QED
    BY <2>1, <2>2, <2>4, <2>5 DEF SessionInv
<1> QED
  BY <1>2, <1>3

(* The two halves of Sign Out. *)
LEMMA SignOutStep ==
  ASSUME TypeOK, SessionInv, SignOut \/ StoreSignedOut
  PROVE  SessionInv'
<1> USE DEF authVars, viewVars, requestVars, historyVars
<1>1. CASE Trap("signOut") /\ SignOut
  BY <1>1, TrapStep DEF SignOut, ListOnScreen
<1>2. CASE SignOut /\ ~ Trap("signOut")
  <2>1. /\ main = "idle" /\ currentUser' = NoUser /\ ~ emailVerified' /\ main' = "signingOut"
        /\ UNCHANGED <<accounts, stored, status, rendered, list, sent, callbacks, trap, misfiled,
                       overlapped, revoked, cutShort>>
    BY <1>2 DEF SignOut, ListOnScreen
  <2>2. status
    BY <1>2 DEF SignOut, ListOnScreen, SessionInv, ScreenFollows
  <2>3. UnderWay' <=> UnderWay
    BY <2>1 DEF UnderWay
  <2>4. ScreenFollows' /\ VerifiedStays' /\ NoTrapUnlessDisturbed' /\ SavedWhereShown'
    BY <2>1, <2>3 DEF SessionInv, ScreenFollows, VerifiedStays, NoTrapUnlessDisturbed,
                      SavedWhereShown
  <2>5. OneRequest => OneRequest' /\ callbacks' = <<>>
    BY <2>1, <2>2, <2>3 DEF OneRequest, UnderWay
  <2>6. GateHolds => GateHolds'
    BY <2>1 DEF GateHolds
  <2>7. ~ overlapped' => UserThere'
    BY <2>1, <2>5 DEF SessionInv, UserThere
  <2> QED
    BY <2>1, <2>4, <2>5, <2>6, <2>7 DEF SessionInv
<1>3. CASE StoreSignedOut
  <2>1. /\ main = "signingOut" /\ ~ stored' /\ ~ status' /\ main' = "idle" /\ ~ rendered'
        /\ UNCHANGED <<accounts, currentUser, emailVerified, list, sent, callbacks, trap, misfiled,
                       overlapped, revoked, cutShort>>
    BY <1>3 DEF StoreSignedOut
  <2>2. UnderWay' <=> UnderWay
    BY <2>1 DEF UnderWay
  <2>3. ScreenFollows' /\ VerifiedStays' /\ NoTrapUnlessDisturbed' /\ SavedWhereShown'
    BY <2>1, <2>2 DEF SessionInv, ScreenFollows, VerifiedStays, NoTrapUnlessDisturbed,
                      SavedWhereShown
  <2>4. /\ OneRequest => OneRequest'
        /\ GateHolds => GateHolds'
        /\ UserThere => UserThere'
    BY <2>1, <2>2 DEF OneRequest, GateHolds, UserThere
  <2> QED
    BY <2>1, <2>3, <2>4 DEF SessionInv
<1> QED
  BY <1>1, <1>2, <1>3

(* The backend takes a token back, the user follows a link. *)
LEMMA BackendStep ==
  ASSUME TypeOK, SessionInv, Revoke \/ \E user \in Users : FollowLink(user)
  PROVE  SessionInv'
<1> USE DEF authVars, viewVars, requestVars, historyVars
<1>1. /\ UNCHANGED <<stored, main, status, rendered, list, sent, callbacks, trap, misfiled,
                     overlapped, cutShort>>
      /\ \A u \in Users : accounts[u] = "verified" => accounts'[u] = "verified"
      /\ \/ revoked' /\ currentUser' = NoUser /\ ~ emailVerified'
         \/ UNCHANGED <<currentUser, emailVerified, revoked>>
  BY DEF Revoke, FollowLink, TypeOK
<1>2. UnderWay' <=> UnderWay
  BY <1>1 DEF UnderWay
<1>3. ScreenFollows' /\ NoTrapUnlessDisturbed' /\ SavedWhereShown'
  BY <1>1, <1>2 DEF SessionInv, ScreenFollows, NoTrapUnlessDisturbed, SavedWhereShown
<1>4. VerifiedStays'
  BY <1>1 DEF SessionInv, VerifiedStays, TypeOK, UserOrNil
<1>5. OneRequest => OneRequest'
  BY <1>1, <1>2 DEF OneRequest
<1>6. GateHolds => GateHolds'
  BY <1>1 DEF GateHolds, TypeOK, UserOrNil
<1>7. UserThere /\ ~ revoked' => UserThere'
  BY <1>1 DEF UserThere
<1>8. revoked => revoked'
  BY <1>1
<1> QED
  BY <1>1, <1>3, <1>4, <1>5, <1>6, <1>7, <1>8 DEF SessionInv

(* Every action keeps the invariant. *)
LEMMA SessionInvStep == TypeOK /\ SessionInv /\ [Next]_vars => SessionInv'
<1> SUFFICES ASSUME TypeOK, SessionInv, [Next]_vars PROVE SessionInv'
  OBVIOUS
<1>1. CASE Kill \/ Launch \/ RenderLogin \/ RenderJournalList
  BY <1>1, ProcessStep, RenderStep
<1>2. ASSUME NEW user \in Users, LogIn(user) \/ SignUp(user) PROVE SessionInv'
  BY <1>2, SendStep DEF LogIn, SignUp, Kinds
<1>3. CASE Revoke \/ \E user \in Users : FollowLink(user)
  BY <1>3, BackendStep
<1>4. ASSUME NEW s \in Slots, SignInSucceeds(s) \/ CreateUserSucceeds(s) \/ RequestFails(s)
                                \/ CreateUserAnswerLost(s)
      PROVE  SessionInv'
  BY <1>4, RequestStep
<1>5. CASE LoginCallback \/ SignUpCallback
  BY <1>5, CompletionStep
<1>6. CASE SaveData \/ SignOut \/ StoreSignedOut
  BY <1>6, SaveDataStep, SignOutStep
<1>7. CASE UNCHANGED vars
  <2>1. /\ ScreenFollows' <=> ScreenFollows
        /\ VerifiedStays' <=> VerifiedStays
        /\ OneRequest' <=> OneRequest
    BY <1>7 DEF vars, authVars, viewVars, requestVars, historyVars, ScreenFollows,
                VerifiedStays, OneRequest, UnderWay
  <2>2. /\ GateHolds' <=> GateHolds
        /\ UserThere' <=> UserThere
        /\ NoTrapUnlessDisturbed' <=> NoTrapUnlessDisturbed
        /\ SavedWhereShown' <=> SavedWhereShown
    BY <1>7 DEF vars, authVars, viewVars, requestVars, historyVars, GateHolds, UserThere,
                NoTrapUnlessDisturbed, SavedWhereShown
  <2> QED
    BY <1>7, <2>1, <2>2 DEF vars, historyVars, SessionInv
<1> QED
  BY <1>1, <1>2, <1>3, <1>4, <1>5, <1>6, <1>7 DEF Next

(***************************************************************************)
(* The screen follows UserDefaults, and without overlapping requests       *)
(* nothing is under way while a list is shown: SessionInv always holds.    *)
(***************************************************************************)
THEOREM SessionCorrect == Spec => []SessionInv
BY SessionInvInit, SessionInvStep, TypeCorrect, PTL DEF Spec

(***************************************************************************)
(* Without overlap, revocation or a kill inside Sign Out, no force unwrap  *)
(* fails and every launch finds the user that UserDefaults counts on.      *)
(***************************************************************************)
THEOREM NoTrapCorrect == Spec => []NoTrapUnlessDisturbed
<1>1. SessionInv => NoTrapUnlessDisturbed
  BY DEF SessionInv
<1> QED
  BY <1>1, SessionCorrect, PTL

(***************************************************************************)
(* Without overlapping requests only users with a verified address see a   *)
(* JournalList.                                                            *)
(***************************************************************************)
THEOREM GateCorrect == Spec => []GateUnlessOverlapped
<1>1. SessionInv => GateUnlessOverlapped
  BY DEF SessionInv, GateHolds, GateUnlessOverlapped
<1> QED
  BY <1>1, SessionCorrect, PTL

(***************************************************************************)
(* Without overlapping requests EditView.SaveData writes for the user      *)
(* whose list is on the screen.                                            *)
(***************************************************************************)
THEOREM SavedCorrect == Spec => []SavedWhereShown
<1>1. SessionInv => SavedWhereShown
  BY DEF SessionInv
<1> QED
  BY <1>1, SessionCorrect, PTL

=============================================================================
