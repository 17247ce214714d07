---------------------------- MODULE JournalFeed ----------------------------
(***************************************************************************)
(* One getData object (ContentView.swift) and the Firestore listener that  *)
(* feeds it.                                                               *)
(*                                                                         *)
(* Two threads take steps.  Firestore's worker queue moves the query view  *)
(* (docs), decides whether the listener raises an event and posts the      *)
(* event to the main queue.  The main thread takes the events one by one   *)
(* and runs the closure of addSnapshotListener, a loop over the document   *)
(* changes that edits the list the user sees (datas).  One iteration of    *)
(* the loop is one step, so the worker may run in between; nothing else    *)
(* runs on the main thread until the closure returns.                      *)
(*                                                                         *)
(* What makes the view move is left open here: the user's own writes,      *)
(* their acknowledgement or rejection, and what other devices wrote all    *)
(* reach the closure as a new set of documents.                            *)
(***************************************************************************)
EXTENDS FirestoreView

CONSTANTS
  MaxQueue,    \* bound: events waiting on the main queue
  MaxDatas     \* bound: the view moves only while datas is no longer than
               \* this (journals left behind can pile up for ever)

ASSUME BoundsAssumption == MaxQueue \in Nat \ {0} /\ MaxDatas \in Nat

VARIABLES
  docs,        \* View.document_set_
  synced,      \* View.sync_state_ = Synced
  online,      \* OnlineStateTracker.state_
  listener,    \* the QueryListener: "none" before addSnapshotListener,
               \* "waiting" for its initial event, "raised" after it,
               \* "removed" after an error
  queue,       \* the events posted to the main queue
  running,     \* the main thread is inside the closure
  todo,        \* the document changes the loop has still to look at
  datas,       \* getData.datas
  noData,      \* getData.noData
  (* History variables. *)
  target,      \* the documents of the snapshot the closure is handling
  shown,       \* the documents of the last snapshot the closure has handled
  heard,       \* the closure has been called and has returned
  dropped      \* some call returned before it had seen all its changes

workerVars == <<docs, synced, online, listener>>
getDataVars == <<datas, noData>>
callVars == <<running, todo, target, shown, heard, dropped>>
vars == <<workerVars, queue, getDataVars, callVars>>

(***************************************************************************)
(* DateFormatter with "MM/dd/yyyy hh:mm a": the seconds are cut off.       *)
(***************************************************************************)
DateString(date) == date \div 60

(* Mutant: the Timestamp is shown as it is. *)
JournalWithTimestamp(id, e) == [id          |-> id,
                                title       |-> e.title,
                                description |-> e.description,
                                date        |-> e.date]

(* struct Journal *)
Journal(id, e) == [id          |-> id,
                   title       |-> e.title,
                   description |-> e.description,
                   date        |-> DateString(e.date)]

(***************************************************************************)
(* An event on the main queue: a ViewSnapshot, or the error that ends the  *)
(* listener.                                                               *)
(***************************************************************************)
Snapshot(old, new, changes) ==
  [err |-> FALSE, old_documents |-> old, documents |-> new, changes |-> changes]

ErrorEvent ==
  [err |-> TRUE, old_documents |-> docs, documents |-> docs, changes |-> <<>>]

Event == [err : BOOLEAN, old_documents : DocumentSet, documents : DocumentSet,
          changes : Seq(Change)]

JournalType == [id          : DocIds,
                title       : {e.title : e \in Entries},
                description : {e.description : e \in Entries},
                date        : {DateString(e.date) : e \in Entries}]

(***************************************************************************)
(* Every variable has its type; in particular a Journal keeps its date as  *)
(* formatted text, never as a Timestamp.                                   *)
(***************************************************************************)
TypeOK ==
  /\ docs \in DocumentSet
  /\ synced \in BOOLEAN
  /\ online \in OnlineStates
  /\ listener \in {"none", "waiting", "raised", "removed"}
  /\ queue \in Seq(Event)
  /\ running \in BOOLEAN
  /\ todo \in Seq(Change)
  /\ datas \in Seq(JournalType)
  /\ noData \in BOOLEAN
  /\ target \in DocumentSet
  /\ shown \in DocumentSet
  /\ heard \in BOOLEAN
  /\ dropped \in BOOLEAN

(***************************************************************************)
(* A getData object before its init: the local cache may already hold      *)
(* journals, the client may know that it is offline, and the view may be   *)
(* synced because an earlier getData object listens to the same query      *)
(* (every evaluation of Authenticate.body that shows JournalList makes a   *)
(* getData object, and no listener is ever removed).                       *)
(***************************************************************************)
Init ==
  /\ docs \in DocumentSet
  /\ synced \in BOOLEAN
  /\ online \in OnlineStates
  /\ synced => online # "Offline"
  /\ listener = "none"
  /\ queue = <<>>
  /\ running = FALSE
  /\ todo = <<>>
  /\ datas = <<>>
  /\ noData = FALSE
  /\ target = EmptyDocumentSet
  /\ shown = EmptyDocumentSet
  /\ heard = FALSE
  /\ dropped = FALSE

-----------------------------------------------------------------------------
(* The worker queue. *)

(* QueryListener::RaiseInitialEvent: every document is reported as added. *)
RaiseInitialEvent(new) ==
  \E changes \in SortedChanges(EmptyDocumentSet, new) :
    queue' = Append(queue, Snapshot(EmptyDocumentSet, new, changes))

(***************************************************************************)
(* What a QueryListener that waits for its first event does when it gets   *)
(* a snapshot or a new online state: raise the event, or keep waiting.     *)
(***************************************************************************)
RaiseInitialEventIfDue(new, isSynced, state) ==
  \/ /\ ShouldRaiseInitialEvent(new, isSynced, state)
     /\ RaiseInitialEvent(new)
     /\ listener' = "raised"
  \/ /\ ~ ShouldRaiseInitialEvent(new, isSynced, state)
     /\ listener' = "waiting"
     /\ UNCHANGED queue

(***************************************************************************)
(* getData.init: addSnapshotListener.  EventManager hands the listener the *)
(* last snapshot of a view that exists already; otherwise                  *)
(* SyncEngine::Listen runs the query on the local cache.                   *)
(***************************************************************************)
Listen ==
  /\ listener = "none"
  /\ RaiseInitialEventIfDue(docs, synced, online)
  /\ UNCHANGED <<docs, synced, online, getDataVars, callVars>>

(***************************************************************************)
(* SyncEngine::EmitNewSnapshotsAndNotifyLocalStore: the view moves to new  *)
(* documents or to a new sync state.  It can become synced only by a       *)
(* message of the watch stream, which also makes the client Online.        *)
(***************************************************************************)
ViewMoves(new, isSynced) ==
  /\ Len(queue) < MaxQueue
  /\ Len(datas) <= MaxDatas
  /\ new # docs \/ isSynced # synced
  /\ isSynced => synced \/ online = "Online"
  /\ docs' = new
  /\ synced' = isSynced
  /\ UNCHANGED <<online, getDataVars, callVars>>

(* QueryListener::OnViewSnapshot before the initial event *)
OnFirstViewSnapshot(new, isSynced) ==
  /\ listener = "waiting"
  /\ ViewMoves(new, isSynced)
  /\ RaiseInitialEventIfDue(new, isSynced, online)

(* Mutant: the event is withheld while the client is not online. *)
OnViewSnapshotOnline(new, isSynced) ==
  /\ listener = "raised"
  /\ ViewMoves(new, isSynced)
  /\ \E changes \in SortedChanges(docs, new) :
       queue' = IF changes = <<>> \/ online # "Online"
                THEN queue
                ELSE Append(queue, Snapshot(docs, new, changes))
  /\ UNCHANGED listener

(***************************************************************************)
(* QueryListener::OnViewSnapshot after the initial event.  A snapshot      *)
(* without document changes (only the sync state moved) is not raised.     *)
(***************************************************************************)
OnViewSnapshot(new, isSynced) ==
  /\ listener = "raised"
  /\ ViewMoves(new, isSynced)
  /\ \E changes \in SortedChanges(docs, new) :
       queue' = IF changes = <<>> THEN queue
                                  ELSE Append(queue, Snapshot(docs, new, changes))
  /\ UNCHANGED listener

(***************************************************************************)
(* OnlineStateTracker: a started watch stream that fails or does not       *)
(* answer in 10 seconds turns Unknown into Offline; a message of the watch *)
(* stream means Online; a failure of a stream that was Online means        *)
(* Unknown, and so does a restart of the network.                          *)
(***************************************************************************)
OnlineSuccessors(state) ==
  CASE state = "Unknown" -> {"Online", "Offline"}
    [] state = "Online"  -> {"Unknown"}
    [] state = "Offline" -> {"Online", "Unknown"}

(* SyncEngine::HandleOnlineStateChange *)
OnlineStateChange(state) ==
  /\ state \in OnlineSuccessors(online)
  /\ Len(queue) < MaxQueue
  /\ online' = state
  /\ synced' = (synced /\ state # "Offline")
  /\ \/ listener = "waiting" /\ RaiseInitialEventIfDue(docs, synced', state)
     \/ listener # "waiting" /\ UNCHANGED <<listener, queue>>
  /\ UNCHANGED <<docs, getDataVars, callVars>>

(* SyncEngine::HandleRejectedListen: the listener gets an error, its last event. *)
ListenRejected ==
  /\ listener \in {"waiting", "raised"}
  /\ Len(queue) < MaxQueue
  /\ queue' = Append(queue, ErrorEvent)
  /\ listener' = "removed"
  /\ UNCHANGED <<docs, synced, online, getDataVars, callVars>>

-----------------------------------------------------------------------------
(* The main thread: the closure of addSnapshotListener. *)

(* if err != nil { self.noData = true; return } *)
HandleError ==
  /\ ~ running /\ queue # <<>> /\ Head(queue).err
  /\ queue' = Tail(queue)
  /\ noData' = TRUE
  /\ heard' = TRUE
  /\ UNCHANGED <<workerVars, datas, running, todo, target, shown, dropped>>

(* if snap!.documentChanges.isEmpty { self.noData = true; return } *)
HandleEmpty ==
  /\ ~ running /\ queue # <<>> /\ ~ Head(queue).err
  /\ Head(queue).changes = <<>>
  /\ queue' = Tail(queue)
  /\ noData' = TRUE
  /\ heard' = TRUE
  /\ target' = Head(queue).documents
  /\ shown' = Head(queue).documents
  /\ UNCHANGED <<workerVars, datas, running, todo, dropped>>

(* for journal in snap!.documentChanges *)
HandleChanges ==
  /\ ~ running /\ queue # <<>> /\ ~ Head(queue).err
  /\ Head(queue).changes # <<>>
  /\ queue' = Tail(queue)
  /\ running' = TRUE
  /\ todo' = Head(queue).changes
  /\ target' = Head(queue).documents
  /\ UNCHANGED <<workerVars, getDataVars, shown, heard, dropped>>

NextChange(type) == running /\ todo # <<>> /\ Head(todo).type = type

(* journal.type == .added: the new journal goes to the end of the list. *)
HandleAdded ==
  /\ NextChange("added")
  /\ datas' = Append(datas, Journal(Head(todo).id, Head(todo).doc))
  /\ todo' = Tail(todo)
  /\ UNCHANGED <<workerVars, queue, noData, running, target, shown, heard, dropped>>

(* Mutant: only the title is replaced. *)
WithTitle(list, id, e) ==
  [i \in DOMAIN list |-> IF list[i].id = id THEN [list[i] EXCEPT !.title = e.title]
                                            ELSE list[i]]

(* The list with new texts wherever the id occurs. *)
WithTexts(list, id, e) ==
  [i \in DOMAIN list |->
     IF list[i].id = id
     THEN [list[i] EXCEPT !.title = e.title, !.description = e.description]
     ELSE list[i]]

(***************************************************************************)
(* journal.type == .modified: title and description are replaced.  The     *)
(* date and the place in the list stay.                                    *)
(***************************************************************************)
HandleModified ==
  /\ NextChange("modified")
  /\ datas' = WithTexts(datas, Head(todo).id, Head(todo).doc)
  /\ todo' = Tail(todo)
  /\ UNCHANGED <<workerVars, queue, noData, running, target, shown, heard, dropped>>

(* Mutant: removeLast() instead of remove(at: i). *)
WithoutLast(list, i) == SubSeq(list, 1, Len(list) - 1)

(* The list without its i-th journal: self.datas.remove(at: i) *)
Without(list, i) ==
  [j \in 1 .. Len(list) - 1 |-> IF j < i THEN list[j] ELSE list[j + 1]]

FirstWithId(list, id, i) ==
  /\ i \in DOMAIN list
  /\ list[i].id = id
  /\ \A j \in DOMAIN list : j < i => list[j].id # id

(* Mutant: the test of datas.isEmpty is forgotten. *)
HandleRemovedNoTest ==
  /\ NextChange("removed")
  /\ \E i \in DOMAIN datas :
       /\ FirstWithId(datas, Head(todo).id, i)
       /\ datas' = Without(datas, i)
  /\ todo' = <<>>
  /\ dropped' = (dropped \/ Tail(todo) # <<>>)
  /\ UNCHANGED <<workerVars, queue, noData, running, target, shown, heard>>

(***************************************************************************)
(* journal.type == .removed: the first journal with the id is taken out    *)
(* and the closure RETURNS, without a look at the changes that are left.   *)
(***************************************************************************)
HandleRemoved ==
  /\ NextChange("removed")
  /\ \E i \in DOMAIN datas :
       /\ FirstWithId(datas, Head(todo).id, i)
       /\ datas' = Without(datas, i)
  /\ noData' = (noData \/ datas' = <<>>)
  /\ todo' = <<>>
  /\ dropped' = (dropped \/ Tail(todo) # <<>>)
  /\ UNCHANGED <<workerVars, queue, running, target, shown, heard>>

(* A removed document that is not in the list: the loop goes on. *)
SkipRemoved ==
  /\ NextChange("removed")
  /\ \A i \in DOMAIN datas : datas[i].id # Head(todo).id
  /\ todo' = Tail(todo)
  /\ UNCHANGED <<workerVars, queue, getDataVars, running, target, shown, heard, dropped>>

(* The end of the closure. *)
Return ==
  /\ running /\ todo = <<>>
  /\ running' = FALSE
  /\ shown' = target
  /\ heard' = TRUE
  /\ UNCHANGED <<workerVars, queue, getDataVars, todo, target, dropped>>

MainThread ==
  \/ HandleError \/ HandleEmpty \/ HandleChanges
  \/ HandleAdded \/ HandleModified \/ HandleRemoved \/ SkipRemoved
  \/ Return

Worker ==
  \/ Listen
  \/ \E new \in DocumentSet, isSynced \in BOOLEAN :
       OnFirstViewSnapshot(new, isSynced) \/ OnViewSnapshot(new, isSynced)
  \/ \E state \in OnlineStates : OnlineStateChange(state)
  \/ ListenRejected

Next == MainThread \/ Worker

Spec == Init /\ [][Next]_vars

(***************************************************************************)
(* Fairness.  The main queue is served and getData.init runs.  The timer   *)
(* of OnlineStateTracker fires if the watch stream stays silent.  About    *)
(* the backend we assume that it does not break the stream for ever just   *)
(* before it has sent the result of the query.                             *)
(***************************************************************************)
WatchStreamTimesOut == online = "Unknown" /\ OnlineStateChange("Offline")

WatchTargetCurrent ==
  online = "Online" /\ \E new \in DocumentSet : OnFirstViewSnapshot(new, TRUE)

FairSpec ==
  /\ Spec
  /\ WF_vars(MainThread)
  /\ WF_vars(Listen)
  /\ WF_vars(WatchStreamTimesOut)
  /\ SF_vars(WatchTargetCurrent)

-----------------------------------------------------------------------------
(* Properties. *)

(***************************************************************************)
(* The list shows each of the documents once, with its title and           *)
(* description, and nothing else.                                          *)
(***************************************************************************)
Mirrors(list, documents) ==
  /\ \A i, j \in DOMAIN list : list[i].id = list[j].id => i = j
  /\ \A i \in DOMAIN list :
       /\ documents[list[i].id] # NoDocument
       /\ list[i].title = documents[list[i].id].title
       /\ list[i].description = documents[list[i].id].description
  /\ \A d \in Keys(documents) : \E i \in DOMAIN list : list[i].id = d

(***************************************************************************)
(* The closure never rebuilds datas: it patches it with the changes of one *)
(* snapshot after the other.  As long as no call has left changes behind   *)
(* (the return in the "removed" branch), what it has patched together is   *)
(* the result of the last snapshot, however the snapshots were batched.    *)
(***************************************************************************)
MirrorUnlessDropped == ~ running /\ ~ dropped => Mirrors(datas, shown)

(***************************************************************************)
(* JournalList shows a spinner while datas is empty and noData is false.   *)
(* Once the closure has been called the spinner never comes back, whatever *)
(* is removed, rejected or left behind later: only the first call and the  *)
(* test in the "removed" branch set noData.                                *)
(***************************************************************************)
NoSpinnerOnceHeard == heard /\ datas = <<>> => noData

(***************************************************************************)
(* Why MirrorUnlessDropped and NoSpinnerOnceHeard hold: the inductive      *)
(* invariant.                                                              *)
(***************************************************************************)

(* What the list reflects when the running call, if any, has returned. *)
Base == IF running THEN target ELSE shown

(***************************************************************************)
(* The events on the main queue continue each other: each one carries the  *)
(* changes from the documents of the event before it, the first one those  *)
(* from Base.  An error is the last event.                                 *)
(***************************************************************************)
EventsChain ==
  \A i \in 1 .. Len(queue) :
    \/ queue[i].err /\ i = Len(queue) /\ listener = "removed"
    \/ /\ ~ queue[i].err
       /\ queue[i].old_documents = IF i = 1 THEN Base ELSE queue[i - 1].documents
       /\ queue[i].changes \in SortedChanges(queue[i].old_documents, queue[i].documents)

(* Where the chain ends, and where it starts. *)
ListenerInStep ==
  /\ listener \in {"none", "waiting"} =>
       queue = <<>> /\ ~ running /\ shown = EmptyDocumentSet
  /\ listener = "raised" =>
       docs = IF queue = <<>> THEN Base ELSE queue[Len(queue)].documents

(***************************************************************************)
(* The changes the loop has still to look at lead from shown to target,    *)
(* and no two of them are about the same document.                         *)
(***************************************************************************)
LoopInStep ==
  running => /\ \A k \in DOMAIN todo : todo[k] \in DocumentChanges(shown, target)
             /\ \A k, l \in DOMAIN todo : todo[k].id = todo[l].id => k = l

(* Inside the loop a document is as in target once its change was handled. *)
Reflected ==
  [d \in DocIds |-> IF running /\ \A k \in DOMAIN todo : todo[k].id # d
                    THEN target[d]
                    ELSE shown[d]]

MirrorInLoop == ~ dropped => Mirrors(datas, Reflected)

(***************************************************************************)
(* The spinner shows only before the first call has handled its first      *)
(* change, and all changes of the first call are additions.                *)
(***************************************************************************)
SpinnerOnlyAtFirst ==
  /\ ~ heard => shown = EmptyDocumentSet
  /\ datas = <<>> /\ ~ noData => ~ heard /\ (running => todo # <<>>)

(***************************************************************************)
(* Firestore's incremental snapshots and the closure's progress through    *)
(* them fit together at every moment: the events on the main queue chain   *)
(* up to the view's documents, and the list is what the handled part of    *)
(* the current snapshot makes of the one before.                           *)
(***************************************************************************)
FeedInv ==
  EventsChain /\ ListenerInStep /\ LoopInStep /\ MirrorInLoop /\ SpinnerOnlyAtFirst

Ids(list) == {list[i].id : i \in DOMAIN list}

ListStepTowardsSnapshot ==
  \A d \in DocIds :
    /\ d \in Ids(datas') \ Ids(datas) => target[d] # NoDocument
    /\ d \in Ids(datas) \ Ids(datas') => target[d] = NoDocument

(***************************************************************************)
(* Even after changes were left behind, a journal appears in the list only *)
(* if it is in the snapshot the closure is handling, and disappears only   *)
(* if it is not.                                                           *)
(***************************************************************************)
ListMovesTowardsSnapshot == [][ListStepTowardsSnapshot]_vars

(***************************************************************************)
(* The spinner of JournalList stops for good: the user sees journals or    *)
(* the text that there are none, online or not.                            *)
(***************************************************************************)
SpinnerStops == <>[](datas # <<>> \/ noData)

(***************************************************************************)
(* What JournalList tells the user when datas is empty and noData is true: *)
(* "There are no journals. Press + to begin".                              *)
(***************************************************************************)
NoJournalsMessageIsTrue ==
  ~ running /\ datas = <<>> /\ noData => Keys(shown) = {}

=============================================================================
