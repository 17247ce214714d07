----------------------- MODULE SessionListenersProofs -----------------------
(***************************************************************************)
(* Proof that a process has one listener per entry into the journal list   *)
(* as long as requests do not overlap.  It rests on the invariant of       *)
(* Session: without overlap no completion block is left to run while a     *)
(* list is on the screen, so nothing evaluates Authenticate.body again.    *)
(***************************************************************************)
EXTENDS SessionListeners, SessionProofs

(***************************************************************************)
(* The inductive invariant.  An entry is without its listener only until   *)
(* the list is on the screen, and Sign Out starts from a list on the       *)
(* screen: an entry cannot end before it had its listener.                 *)
(***************************************************************************)
ListenInv ==
  /\ listeners \in Seq(Users) /\ entries \in Nat
  /\ main = "dead" => listeners = <<>> /\ entries = 0
  /\ main = "signingOut" => rendered /\ status
  /\ ~ overlapped =>
       /\ Len(listeners) = IF status /\ ~ rendered THEN entries - 1 ELSE entries
       /\ rendered /\ status => entries > 0 /\ listeners[entries] = list

(* What a step does to the listeners and the entries. *)
Counted ==
  /\ listeners' = IF main' = "dead" THEN <<>>
                  ELSE IF MakesGetData THEN Append(listeners, list')
                  ELSE listeners
  /\ entries' = IF main' = "dead" THEN 0 ELSE IF Enters THEN entries + 1 ELSE entries

(* A process that ends takes its listeners with it. *)
LEMMA ListenLost ==
  ASSUME LoseProcess, Counted
  PROVE  ListenInv'
<1>1. main' = "dead" /\ ~ status' /\ ~ rendered' /\ listeners' = <<>> /\ entries' = 0
  BY DEF LoseProcess, Counted
<1>2. listeners' \in Seq(Users) /\ Len(listeners') = 0
  BY <1>1
<1> QED
  BY <1>1, <1>2 DEF ListenInv

(* A step that leaves the screen alone leaves the listeners alone. *)
LEMMA ListenSameScreen ==
  ASSUME ListenInv, Counted, UNCHANGED <<main, status, rendered, list>>,
         ~ overlapped' => ~ overlapped
  PROVE  ListenInv'
<1>1. UNCHANGED <<listeners, entries>>
  BY DEF Counted, ListenInv, MakesGetData, Enters
<1> QED
  BY <1>1 DEF ListenInv

(* A launch with the stored status is an entry without a list so far. *)
LEMMA ListenLaunch ==
  ASSUME TypeOK, SessionInv, ListenInv, Counted, Launch
  PROVE  ListenInv'
<1>1. /\ ~ status /\ ~ rendered /\ listeners = <<>> /\ entries = 0
      /\ main' = "idle" /\ UNCHANGED <<rendered, list, overlapped>>
  BY DEF Launch, SessionInv, ScreenFollows, ListenInv, historyVars
<1>2. listeners' = <<>> /\ entries' = IF status' THEN 1 ELSE 0
  BY <1>1 DEF Counted, MakesGetData, Enters
<1>3. listeners' \in Seq(Users) /\ Len(listeners') = 0
  BY <1>2
<1> QED
  BY <1>1, <1>2, <1>3 DEF ListenInv

(* Authenticate.body makes the list, and with it the listener of the entry. *)
LEMMA ListenRender ==
  ASSUME TypeOK, SessionInv, ListenInv, Counted, RenderLogin \/ RenderJournalList
  PROVE  ListenInv'
<1>1. CASE RenderLogin
  <2>1. /\ ~ status /\ ~ status' /\ main = "idle" /\ main' = "idle" /\ UNCHANGED overlapped
    BY <1>1 DEF RenderLogin, historyVars
  <2>2. UNCHANGED <<listeners, entries>>
    BY <2>1 DEF Counted, MakesGetData, Enters
  <2> QED
    BY <2>1, <2>2 DEF ListenInv
<1>2. CASE RenderJournalList /\ currentUser = NoUser
  BY <1>2, ListenLost DEF RenderJournalList, Trap
<1>3. CASE RenderJournalList /\ currentUser # NoUser
  <2>1. /\ main = "idle" /\ main' = "idle" /\ status /\ status' /\ ~ rendered /\ rendered'
        /\ list' = currentUser /\ list' \in Users /\ UNCHANGED overlapped
    BY <1>3 DEF RenderJournalList, historyVars, TypeOK, UserOrNil
  <2>2. listeners' = Append(listeners, list') /\ entries' = entries
    BY <2>1 DEF Counted, MakesGetData, Enters
  <2>3. /\ listeners \in Seq(Users) /\ Len(listeners) \in Nat /\ entries \in Nat
    BY DEF ListenInv
  <2>4. /\ listeners' \in Seq(Users) /\ Len(listeners') = Len(listeners) + 1
        /\ listeners'[Len(listeners) + 1] = list'
    BY <2>1, <2>2, <2>3
  <2>5. ~ overlapped => Len(listeners) = entries - 1
    BY <2>1 DEF ListenInv
  <2> QED
    BY <2>1, <2>2, <2>3, <2>4, <2>5 DEF ListenInv
<1> QED
  BY <1>1, <1>2, <1>3

(* A completion block: without overlap it runs while Login is shown. *)
LEMMA ListenCallback ==
  ASSUME TypeOK, SessionInv, ListenInv, Counted, main = "idle", callbacks # <<>>,
         \/ \E evaluated \in SUBSET {rendered, FALSE} : OnlyDialog(evaluated)
         \/ PostSignedIn
  PROVE  ListenInv'
<1>1. /\ main' = "idle" /\ UNCHANGED <<list, overlapped>>
      /\ rendered' => rendered
      /\ rendered' /\ status' => status
      /\ status => status'
  <2>1. UNCHANGED <<list, overlapped, main>>
    BY DEF OnlyDialog, PostSignedIn, historyVars
  <2>2. ASSUME NEW evaluated \in SUBSET {rendered, FALSE}, OnlyDialog(evaluated)
        PROVE  status' = status /\ rendered' \in {rendered, FALSE}
    BY <2>2 DEF OnlyDialog
  <2>3. ASSUME PostSignedIn
        PROVE  status' = TRUE /\ rendered' \in {rendered /\ status, FALSE}
    BY <2>3 DEF PostSignedIn
  <2> QED
    BY <2>1, <2>2, <2>3 DEF TypeOK
<1>2. ~ overlapped => ~ status
  BY DEF SessionInv, OneRequest, UnderWay
<1>3. listeners' = listeners
  BY <1>1 DEF Counted, MakesGetData
<1>4. entries' = IF ~ status /\ status' THEN entries + 1 ELSE entries
  BY <1>1 DEF Counted, Enters
<1>5. listeners \in Seq(Users) /\ Len(listeners) \in Nat /\ entries \in Nat
      /\ (~ overlapped => Len(listeners) = entries)
  BY <1>2 DEF ListenInv
<1>6. ~ overlapped' =>
        /\ Len(listeners') = IF status' /\ ~ rendered' THEN entries' - 1 ELSE entries'
        /\ ~ (rendered' /\ status')
  <2>1. CASE status'
    BY <1>1, <1>2, <1>3, <1>4, <1>5, <2>1
  <2>2. CASE ~ status'
    BY <1>1, <1>2, <1>3, <1>4, <1>5, <2>2
  <2> QED
    BY <2>1, <2>2
<1>7. listeners' \in Seq(Users) /\ entries' \in Nat
  BY <1>3, <1>4, <1>5
<1> QED
  BY <1>1, <1>6, <1>7 DEF ListenInv

(* Sign Out, in its two steps, ends an entry that has its listener. *)
LEMMA ListenSignOut ==
  ASSUME TypeOK, SessionInv, ListenInv, Counted, SignOut \/ StoreSignedOut
  PROVE  ListenInv'
<1>1. CASE SignOut /\ LoseProcess
  BY <1>1, ListenLost
<1>2. CASE SignOut /\ ~ LoseProcess
  <2>1. /\ main' = "signingOut" /\ rendered /\ list # NoUser
        /\ UNCHANGED <<status, rendered, list, overlapped>>
    BY <1>2 DEF SignOut, ListOnScreen, Trap, historyVars
  <2>2. status
    BY <2>1 DEF SessionInv, ScreenFollows
  <2>3. UNCHANGED <<listeners, entries>>
    BY <2>1, <2>2 DEF Counted, MakesGetData, Enters
  <2> QED
    BY <2>1, <2>2, <2>3 DEF ListenInv
<1>3. CASE StoreSignedOut
  <2>1. /\ main' = "idle" /\ ~ status' /\ ~ rendered' /\ UNCHANGED overlapped
        /\ rendered /\ status
    BY <1>3 DEF StoreSignedOut, historyVars, ListenInv
  <2>2. UNCHANGED <<listeners, entries>>
    BY <2>1 DEF Counted, MakesGetData, Enters
  <2> QED
    BY <2>1, <2>2 DEF ListenInv
<1> QED
  BY <1>1, <1>2, <1>3

(* Every step keeps the invariant. *)
LEMMA ListenStep ==
  ASSUME TypeOK, SessionInv, ListenInv, [ListenersNext]_listenerVars
  PROVE  ListenInv'
<1> USE DEF authVars, viewVars, historyVars
<1>1. CASE UNCHANGED listenerVars
  BY <1>1 DEF listenerVars, vars, ListenInv
<1>2. CASE ListenersNext
  <2>1. Next /\ Counted
    BY <1>2 DEF ListenersNext, Counted
  <2>2. CASE Kill
    BY <2>1, <2>2, ListenLost DEF Kill
  <2>3. CASE Launch
    BY <2>1, <2>3, ListenLaunch
  <2>4. CASE RenderLogin \/ RenderJournalList
    BY <2>1, <2>4, ListenRender
  <2>5. ASSUME NEW user \in Users, LogIn(user) \/ SignUp(user) \/ FollowLink(user)
        PROVE  ListenInv'
    <3>1. UNCHANGED <<main, status, rendered, list>> /\ (~ overlapped' => ~ overlapped)
      <4>1. CASE FollowLink(user)
        BY <4>1 DEF FollowLink
      <4>2. ASSUME NEW kind, Send(kind, user)
            PROVE  /\ UNCHANGED <<main, status, rendered, list>>
                   /\ overlapped' = (overlapped \/ UnderWay)
        BY <4>2 DEF Send
      <4> QED
        BY <2>5, <4>1, <4>2 DEF LogIn, SignUp
    <3> QED
      BY <2>1, <3>1, ListenSameScreen
  <2>6. ASSUME NEW s \in Slots, SignInSucceeds(s) \/ CreateUserSucceeds(s) \/ RequestFails(s)
                                  \/ CreateUserAnswerLost(s)
        PROVE  ListenInv'
    <3>1. UNCHANGED <<main, status, rendered, list, overlapped>>
      BY <2>6 DEF SignInSucceeds, CreateUserSucceeds, RequestFails, CreateUserAnswerLost, Answer
    <3> QED
      BY <2>1, <3>1, ListenSameScreen
  <2>7. CASE LoginCallback \/ SignUpCallback
    <3>1. main = "idle" /\ callbacks # <<>>
      BY <2>7 DEF LoginCallback, SignUpCallback, NextCallback
    <3>2. \/ LoseProcess
          \/ OnlyDialog({rendered}) \/ OnlyDialog({rendered, FALSE}) \/ PostSignedIn
      BY <2>7 DEF LoginCallback, SignUpCallback, Trap
    <3>3. {rendered} \in SUBSET {rendered, FALSE} /\ {rendered, FALSE} \in SUBSET {rendered, FALSE}
      OBVIOUS
    <3> QED
      BY <2>1, <3>1, <3>2, <3>3, ListenLost, ListenCallback
  <2>8. CASE SaveData
    <3>1. LoseProcess \/ UNCHANGED <<main, status, rendered, list, overlapped>>
      BY <2>8 DEF SaveData, Trap
    <3> QED
      BY <2>1, <3>1, ListenLost, ListenSameScreen
  <2>9. CASE SignOut \/ StoreSignedOut
    BY <2>1, <2>9, ListenSignOut
  <2>10. CASE Revoke
    <3>1. UNCHANGED <<main, status, rendered, list, overlapped>>
      BY <2>10 DEF Revoke
    <3> QED
      BY <2>1, <3>1, ListenSameScreen
  <2> QED
    BY <2>1, <2>2, <2>3, <2>4, <2>5, <2>6, <2>7, <2>8, <2>9, <2>10 DEF Next
<1> QED
  BY <1>1, <1>2

(***************************************************************************)
(* As long as requests do not overlap, getData.init runs once per entry    *)
(* into the journal list, over sign-outs, revocations and restarts, and    *)
(* the newest listener follows the user whose list is on the screen; for   *)
(* every number of users, requests and entries.                            *)
(***************************************************************************)
THEOREM ListenersCorrect == ListenersSpec => []ListenerPerEntry
<1> DEFINE Inv == TypeOK /\ SessionInv /\ ListenInv
<1>1. ListenersInit => Inv
  <2> SUFFICES ASSUME ListenersInit PROVE Inv
    OBVIOUS
  <2>1. Init /\ listeners = <<>> /\ entries = 0
    BY DEF ListenersInit
  <2>2. main = "dead" /\ ~ status /\ ~ rendered
    BY <2>1 DEF Init
  <2>3. listeners \in Seq(Users) /\ Len(listeners) = 0
    BY <2>1
  <2>4. TypeOK
    BY <2>1, NothingUnderWayTypes DEF Init, TypeOK, UserOrNil
  <2> QED
    BY <2>1, <2>2, <2>3, <2>4, SessionInvInit DEF ListenInv
<1>2. Inv /\ [ListenersNext]_listenerVars => Inv'
  <2> SUFFICES ASSUME Inv, [ListenersNext]_listenerVars PROVE Inv'
    OBVIOUS
  <2>1. [Next]_vars
    BY DEF ListenersNext, listenerVars
  <2> QED
    BY <2>1, TypeOKStep, SessionInvStep, ListenStep
<1>3. Inv => ListenerPerEntry
  <2> SUFFICES ASSUME Inv PROVE ListenerPerEntry
    OBVIOUS
  <2>1. listeners \in Seq(Users) /\ entries \in Nat
    BY DEF ListenInv
  <2> QED
    BY <2>1 DEF ListenInv, ListenerPerEntry
<1> QED
  BY <1>1, <1>2, <1>3, PTL DEF ListenersSpec
=============================================================================
