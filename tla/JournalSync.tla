---------------------------- MODULE JournalSync ----------------------------
(***************************************************************************)
(* How a saved or deleted journal reaches the backend and comes back: the  *)
(* mutation queue, the write pipeline and its stream, the cache of remote  *)
(* documents, the watch stream and the query view of one device, the       *)
(* backend, and the user's other devices (Pods/FirebaseFirestore).         *)
(*                                                                         *)
(* All steps of the device run on Firestore's worker queue, one at a time. *)
(* The streams and the process may break between any two of them; the      *)
(* queue, the cache and the keys of the target are persisted.              *)
(*                                                                         *)
(* A text is named by the write that made it: n > 0 is the n-th write of   *)
(* this device, n < 0 one of another device.  Every save has a date of its *)
(* own, so no two texts are equal.  A version is a place in the backend's  *)
(* log of commits.                                                         *)
(***************************************************************************)
EXTENDS Integers, Sequences, FiniteSets

CONSTANTS
  DocIds,      \* the document ids of the journals collection
  FirstDoc,    \* a journal that exists already
  MaxPending,  \* kMaxPendingWrites (10 in the code)
  MaxWrites,   \* bound: writes of this device
  MaxForeign,  \* bound: writes of other devices, FirstDoc's included
  MaxFaults    \* bound: broken streams, restarts, resets and sign-outs

ASSUME SyncAssumption ==
  /\ FirstDoc \in DocIds /\ IsFiniteSet(DocIds)
  /\ MaxPending \in Nat \ {0}
  /\ MaxWrites \in Nat /\ MaxForeign \in Nat \ {0} /\ MaxFaults \in Nat

VARIABLES
  log,         \* the backend's commits; batch 0: another device
  written,     \* the batches this device has made: 1 .. written
  mutations,   \* the user's mutation queue (persisted)
  cache,       \* RemoteDocumentCache; version 0: no entry (persisted)
  remoteKeys,  \* View.synced_documents_ and the target's keys (persisted)
  watched,     \* the last remote snapshot version (persisted)
  view,        \* View.document_set_, and which documents it has as local
  current,     \* View.current_
  limbo,       \* View.limbo_documents_
  pipeline,    \* RemoteStore.write_pipeline_
  open,        \* the write stream is open and its handshake complete
  requests,    \* the writes sent that the backend has not handled
  responses,   \* its answers on the way to the device
  signedIn,    \* the user is the SyncEngine's current_user_
  faults,
  (* History variables. *)
  refused,     \* the mutations the backend has refused
  answerLost   \* a stream broke with answers on the way

backendVars == <<log, written>>
viewVars == <<view, current, limbo>>
streamVars == <<pipeline, open, requests, responses>>
historyVars == <<refused, answerLost>>
vars == <<backendVars, mutations, cache, remoteKeys, watched, viewVars, streamVars,
          signedIn, faults, historyVars>>

NoDocument == 0
Text == -MaxForeign .. MaxWrites
NotFound == 0        \* the version of a refusal

Commit == [id : DocIds, entry : Text, batch : Nat]
Mutation == [batch : 1 .. MaxWrites, id : DocIds, type : {"set", "patch", "delete"}]
Response == [batch : Nat, version : Nat]   \* batch is history: it is not sent
CachedDocument == [entry : Text, version : Nat, committed : BOOLEAN]
ViewDocument == [entry : Text, local : BOOLEAN]

(* Every variable has its type. *)
TypeOK ==
  /\ log \in Seq(Commit)
  /\ written \in Nat
  /\ mutations \in Seq(Mutation)
  /\ cache \in [DocIds -> CachedDocument]
  /\ remoteKeys \subseteq DocIds
  /\ watched \in Nat
  /\ view \in [DocIds -> ViewDocument]
  /\ current \in BOOLEAN
  /\ limbo \subseteq DocIds
  /\ pipeline \in Seq(Mutation)
  /\ open \in BOOLEAN
  /\ requests \in Seq(Mutation)
  /\ responses \in Seq(Response)
  /\ signedIn \in BOOLEAN
  /\ faults \in Nat
  /\ refused \subseteq Mutation
  /\ answerLost \in BOOLEAN

-----------------------------------------------------------------------------
(* The backend (external): what its log says of a document at a version. *)

CommitsOf(d, v) == {i \in 1 .. v : log[i].id = d}

LastCommit(d, v) ==
  IF CommitsOf(d, v) = {} THEN 0
  ELSE CHOOSE i \in CommitsOf(d, v) : \A j \in CommitsOf(d, v) : j <= i

Backend(d, v) == IF LastCommit(d, v) = 0 THEN NoDocument
                                         ELSE log[LastCommit(d, v)].entry

-----------------------------------------------------------------------------
(* Mutations, and the local view of a document. *)

TextOf(m) == IF m.type = "delete" THEN NoDocument ELSE m.batch

(* Mutant: an update is a set. *)
AlwaysValid(m, entry) == TRUE

(* Precondition: updateData asks that the document exists. *)
IsValidFor(m, entry) == m.type = "patch" => entry # NoDocument

(* Mutation::ApplyToLocalView *)
ApplyToLocalView(m, doc) ==
  IF IsValidFor(m, doc.entry)
  THEN [entry |-> TextOf(m), local |-> m.type # "delete", committed |-> FALSE]
  ELSE doc

(* LocalDocumentsView::GetDocument: a cached document under the queue. *)
LocalDocument(d, cached, queue) ==
  LET Over[n \in 0 .. Len(queue)] ==
        IF n = 0
        THEN [entry |-> cached.entry, local |-> FALSE, committed |-> cached.committed]
        ELSE IF queue[n].id = d THEN ApplyToLocalView(queue[n], Over[n - 1])
                                ELSE Over[n - 1]
  IN  Over[Len(queue)]

(* Mutant: an acknowledged deletion is kept without a version. *)
ApplyToRemoteDocumentNoVersion(m, cached, version) ==
  [entry     |-> IF IsValidFor(m, cached.entry) THEN TextOf(m) ELSE NoDocument,
   version   |-> IF m.type = "delete" THEN -1 ELSE version,
   committed |-> TRUE]

(***************************************************************************)
(* Mutation::ApplyToRemoteDocument.  An acknowledged patch of a document   *)
(* the cache does not have makes an UnknownDocument.                       *)
(***************************************************************************)
ApplyToRemoteDocument(m, cached, version) ==
  [entry     |-> IF IsValidFor(m, cached.entry) THEN TextOf(m) ELSE NoDocument,
   version   |-> version,
   committed |-> TRUE]

(* View::ShouldWaitForSyncedDocument *)
ShouldWaitForSyncedDocument(new, old) == old.local /\ new.committed /\ ~ new.local

(***************************************************************************)
(* View::ComputeDocumentChanges.  For a document that the event is not     *)
(* about the rule changes nothing, so it is applied to all.                *)
(***************************************************************************)
ComputeDocumentChanges(old, newCache, queue) ==
  [d \in DocIds |->
     LET new == LocalDocument(d, newCache[d], queue) IN
     IF /\ old[d].entry # NoDocument /\ new.entry # NoDocument
        /\ ShouldWaitForSyncedDocument(new, old[d])
     THEN old[d]
     ELSE [entry |-> new.entry, local |-> new.local]]

EmptyView == [d \in DocIds |-> [entry |-> NoDocument, local |-> FALSE]]

(* Mutant: no document is ever in limbo. *)
NeverInLimbo(newView, keys, d) == FALSE

(* View::ShouldBeInLimbo *)
ShouldBeInLimbo(newView, keys, d) ==
  d \notin keys /\ newView[d].entry # NoDocument /\ ~ newView[d].local

(* View::UpdateLimboDocuments: only while the server's word is current. *)
UpdateLimboDocuments(newView, keys, isCurrent) ==
  IF isCurrent THEN {d \in DocIds : ShouldBeInLimbo(newView, keys, d)} ELSE limbo

(* SyncEngine::EmitNewSnapshotsAndNotifyLocalStore, View::ApplyChanges *)
EmitNewSnapshots(newCache, queue, keys, isCurrent) ==
  /\ view' = ComputeDocumentChanges(view, newCache, queue)
  /\ current' = isCurrent
  /\ limbo' = UpdateLimboDocuments(view', keys, isCurrent)

(* SyncEngine::InitializeViewAndComputeSnapshot *)
InitializeView(queue) ==
  /\ view' = ComputeDocumentChanges(EmptyView, cache, queue)
  /\ current' = FALSE
  /\ limbo' = {}

Synced == current /\ limbo = {}

-----------------------------------------------------------------------------
(* The write pipeline. *)

FirstOf(seq, n) == SubSeq(seq, 1, IF n < Len(seq) THEN n ELSE Len(seq))

(* Mutant: the pipeline is filled from the front of the queue again. *)
NextBatchesFromFront(pipe, queue) == FirstOf(queue, MaxPending - Len(pipe))

(***************************************************************************)
(* The batches FillWritePipeline takes from the queue: the seek of         *)
(* NextMutationBatchAfterBatchId passes the batches up to the last one of  *)
(* the pipeline.                                                           *)
(***************************************************************************)
NextBatches(pipe, queue) ==
  LET last == IF pipe = <<>> THEN 0 ELSE pipe[Len(pipe)].batch
      passed == CHOOSE n \in 0 .. Len(queue) :
                  /\ \A i \in 1 .. n : queue[i].batch <= last
                  /\ n < Len(queue) => queue[n + 1].batch > last
  IN  FirstOf(SubSeq(queue, passed + 1, Len(queue)), MaxPending - Len(pipe))

(* RemoteStore::FillWritePipeline; an open stream sends them at once. *)
FillWritePipeline(pipe, queue) ==
  /\ pipeline' = pipe \o NextBatches(pipe, queue)
  /\ requests' = IF open THEN requests \o NextBatches(pipe, queue) ELSE requests

(* Mutant: answers of the old stream are still taken. *)
LoseStreamKeepsAnswers ==
  /\ open' = FALSE
  /\ requests' = <<>>
  /\ UNCHANGED <<responses, answerLost>>

(***************************************************************************)
(* The stream is gone, with what was on it.  Nothing tells the device how  *)
(* far the backend came: the handshake does not resume a stream.           *)
(***************************************************************************)
LoseStream ==
  /\ open' = FALSE
  /\ requests' = <<>>
  /\ responses' = <<>>
  /\ answerLost' = (answerLost \/ responses # <<>>)

Fault == faults < MaxFaults /\ faults' = faults + 1

Init ==
  /\ log = <<[id |-> FirstDoc, entry |-> -1, batch |-> 0]>>
  /\ written = 0
  /\ mutations = <<>>
  /\ cache = [d \in DocIds |-> [entry |-> NoDocument, version |-> 0, committed |-> FALSE]]
  /\ remoteKeys = {}
  /\ watched = 0
  /\ view = EmptyView
  /\ current = FALSE
  /\ limbo = {}
  /\ pipeline = <<>>
  /\ open = FALSE
  /\ requests = <<>>
  /\ responses = <<>>
  /\ signedIn = TRUE
  /\ faults = 0
  /\ refused = {}
  /\ answerLost = FALSE

-----------------------------------------------------------------------------
(* The user of this device. *)

Queued(d) == \E i \in DOMAIN mutations : mutations[i].id = d

(* A row or an editor of this device may have the id of the journal. *)
Known(d) == cache[d].version > 0 \/ Queued(d)

(* An id that document() has not handed out yet. *)
Fresh(d) == ~ Queued(d) /\ \A i \in DOMAIN log : log[i].id # d

(* LocalStore::WriteLocally *)
WriteLocally(type, d) ==
  /\ written < MaxWrites
  /\ written' = written + 1
  /\ mutations' = Append(mutations, [batch |-> written', id |-> d, type |-> type])

(* SyncEngine::WriteMutations *)
WriteMutations(type, d) ==
  /\ signedIn
  /\ WriteLocally(type, d)
  /\ EmitNewSnapshots(cache, mutations', remoteKeys, current)
  /\ FillWritePipeline(pipeline, mutations')
  /\ UNCHANGED <<log, cache, remoteKeys, watched, open, responses, signedIn, faults,
                 historyVars>>

(* EditView.SaveData without a docID *)
SaveNew(d) == Fresh(d) /\ WriteMutations("set", d)

(* EditView.SaveData with the docID of a journal *)
SaveEdited(d) == Known(d) /\ WriteMutations("patch", d)

(* JournalList: the button that deletes a journal *)
DeleteJournal(d) == Known(d) /\ WriteMutations("delete", d)

-----------------------------------------------------------------------------
(* The write stream. *)

(* StartWriteStream ... OnWriteStreamHandshakeComplete sends the pipeline. *)
OnWriteStreamHandshakeComplete ==
  /\ ~ open /\ pipeline # <<>>
  /\ open' = TRUE
  /\ requests' = pipeline
  /\ UNCHANGED <<backendVars, mutations, cache, remoteKeys, watched, viewVars, pipeline,
                 responses, signedIn, faults, historyVars>>

(* Datastore::IsPermanentWriteError: NOT_FOUND is one. *)
IsPermanentWriteError(response) == response.version = NotFound

(* The backend has ended the stream with an error (external). *)
Ended == responses # <<>> /\ IsPermanentWriteError(responses[Len(responses)])

(* The backend commits the next write of the stream (external). *)
BackendCommits ==
  /\ requests # <<>> /\ ~ Ended
  /\ LET m == Head(requests) IN
     /\ IsValidFor(m, Backend(m.id, Len(log)))
     /\ log' = Append(log, [id |-> m.id, entry |-> TextOf(m), batch |-> m.batch])
     /\ responses' = Append(responses, [batch |-> m.batch, version |-> Len(log')])
  /\ requests' = Tail(requests)
  /\ UNCHANGED <<written, mutations, cache, remoteKeys, watched, viewVars, pipeline, open,
                 signedIn, faults, historyVars>>

(* It refuses an update of a missing document, and ends the stream (external). *)
BackendRefuses ==
  /\ requests # <<>> /\ ~ Ended
  /\ LET m == Head(requests) IN
     /\ ~ IsValidFor(m, Backend(m.id, Len(log)))
     /\ responses' = Append(responses, [batch |-> m.batch, version |-> NotFound])
  /\ UNCHANGED <<backendVars, mutations, cache, remoteKeys, watched, viewVars, pipeline,
                 open, requests, signedIn, faults, historyVars>>

(* Mutant: the answer to one batch empties the queue. *)
WithoutAll(queue, batch) == <<>>

(* Mutant: an answered batch stays in the queue. *)
WithBatch(queue, batch) == queue

(* RemoveMutationBatch; it asserts that the queue has the batch. *)
WithoutBatch(queue, batch) ==
  LET at == CHOOSE i \in DOMAIN queue : queue[i].batch = batch IN
  SubSeq(queue, 1, at - 1) \o SubSeq(queue, at + 1, Len(queue))

(* LocalStore::ApplyBatchResult: only a newer version goes to the cache. *)
ApplyBatchResult(m, version) ==
  [cache EXCEPT ![m.id] = IF @.version < version THEN ApplyToRemoteDocument(m, @, version)
                                                 ELSE @]

(* LocalStore::AcknowledgeBatch *)
AcknowledgeBatch(m, version) ==
  /\ cache' = ApplyBatchResult(m, version)
  /\ mutations' = WithoutBatch(mutations, m.batch)

(* SyncEngine::HandleSuccessfulWrite *)
HandleSuccessfulWrite(m, version) ==
  /\ AcknowledgeBatch(m, version)
  /\ EmitNewSnapshots(cache', mutations', remoteKeys, current)

(***************************************************************************)
(* RemoteStore::OnWriteStreamMutationResult: the answer is taken for that  *)
(* to the front of the pipeline, and the pipeline is filled again.         *)
(***************************************************************************)
OnWriteStreamMutationResult ==
  /\ responses # <<>> /\ ~ IsPermanentWriteError(Head(responses))
  /\ HandleSuccessfulWrite(Head(pipeline), Head(responses).version)
  /\ responses' = Tail(responses)
  /\ FillWritePipeline(Tail(pipeline), mutations')
  /\ UNCHANGED <<backendVars, remoteKeys, watched, open, signedIn, faults, historyVars>>

(* LocalStore::RejectBatch *)
RejectBatch(m) ==
  /\ mutations' = WithoutBatch(mutations, m.batch)
  /\ UNCHANGED cache

(* SyncEngine::HandleRejectedWrite *)
HandleRejectedWrite(m) ==
  /\ RejectBatch(m)
  /\ EmitNewSnapshots(cache, mutations', remoteKeys, current)

(***************************************************************************)
(* OnWriteStreamClose with a permanent error: HandleWriteError drops the   *)
(* front of the pipeline.  The next stream sends the rest again.           *)
(***************************************************************************)
HandleWriteError ==
  /\ responses # <<>> /\ IsPermanentWriteError(Head(responses))
  /\ HandleRejectedWrite(Head(pipeline))
  /\ refused' = refused \cup {Head(pipeline)}
  /\ pipeline' = Tail(pipeline) \o NextBatches(Tail(pipeline), mutations')
  /\ open' = FALSE
  /\ requests' = <<>>
  /\ responses' = <<>>
  /\ UNCHANGED <<backendVars, remoteKeys, watched, signedIn, faults, answerLost>>

(***************************************************************************)
(* OnWriteStreamClose with a transient error: the pipeline stays as it is. *)
(* A stream without writes is closed after a while (MarkIdle).             *)
(***************************************************************************)
OnWriteStreamClose ==
  /\ open
  /\ \/ pipeline # <<>> /\ Fault
     \/ pipeline = <<>> /\ UNCHANGED faults
  /\ LoseStream
  /\ UNCHANGED <<backendVars, mutations, cache, remoteKeys, watched, viewVars, pipeline,
                 signedIn, refused>>

-----------------------------------------------------------------------------
(* The watch stream. *)

(* Mutant: an outdated document replaces a newer one. *)
WatchUpdateAnyVersion(d, version) ==
  IF cache[d].version = 0 /\ version = 0 THEN cache[d]
  ELSE [entry |-> Backend(d, version), version |-> version, committed |-> FALSE]

(***************************************************************************)
(* LocalStore::ApplyRemoteEvent for one document at a version: outdated    *)
(* news is ignored, and equal news replaces what an acknowledgement left.  *)
(***************************************************************************)
WatchUpdate(d, version) ==
  IF \/ cache[d].version < version
     \/ cache[d].version = version /\ cache[d].committed
  THEN [entry |-> Backend(d, version), version |-> version, committed |-> FALSE]
  ELSE cache[d]

ActiveQueue == IF signedIn THEN mutations ELSE <<>>

(***************************************************************************)
(* SyncEngine::ApplyRemoteEvent: updates maps the documents the event      *)
(* tells of to their versions; the target is left with these keys.         *)
(***************************************************************************)
ApplyRemoteEvent(updates, keys) ==
  /\ signedIn
  /\ cache' = [d \in DocIds |-> IF d \in DOMAIN updates THEN WatchUpdate(d, updates[d])
                                                        ELSE cache[d]]
  /\ remoteKeys' = keys
  /\ EmitNewSnapshots(cache', mutations, keys, TRUE)
  /\ UNCHANGED <<backendVars, mutations, streamVars, signedIn, historyVars>>

(* RemoteStore::RaiseWatchSnapshot at version v *)
RaiseWatchSnapshot(v, reported, keys) ==
  /\ watched' = v
  /\ ApplyRemoteEvent([d \in reported |-> LastCommit(d, v)], keys)

Existing(v) == {d \in DocIds : Backend(d, v) # NoDocument}

(* The stream goes on from the last snapshot, deletions included. *)
WatchSnapshot(v) ==
  LET changed == {d \in DocIds : LastCommit(d, v) > watched} IN
  /\ watched > 0 /\ (v > watched \/ ~ current)
  /\ RaiseWatchSnapshot(v, changed, (remoteKeys \ changed) \cup (changed \cap Existing(v)))
  /\ UNCHANGED faults

(***************************************************************************)
(* The first listing of the target, or one after a Reset (ResetTarget):    *)
(* the documents that exist.  Deletions are not told.                      *)
(***************************************************************************)
WatchListing(v) ==
  /\ \/ watched = 0 /\ UNCHANGED faults
     \/ watched > 0 /\ Fault
  /\ RaiseWatchSnapshot(v, Existing(v), Existing(v))

(***************************************************************************)
(* The target of a document in limbo is listened to and is answered: the   *)
(* document, or a deletion made up at the version of the snapshot          *)
(* (WatchChangeAggregator::CreateRemoteEvent).                             *)
(***************************************************************************)
ResolveLimbo(d) ==
  /\ current /\ d \in limbo
  /\ ApplyRemoteEvent(
       [k \in {d} |-> IF d \in Existing(watched) THEN LastCommit(d, watched) ELSE watched],
       remoteKeys)
  /\ cache' # cache
  /\ UNCHANGED <<watched, faults>>

(* View::ApplyOnlineStateChange(Offline) *)
GoOffline ==
  /\ current /\ Fault
  /\ EmitNewSnapshots(cache, ActiveQueue, remoteKeys, FALSE)
  /\ UNCHANGED <<backendVars, mutations, cache, remoteKeys, watched, streamVars, signedIn,
                 historyVars>>

-----------------------------------------------------------------------------
(* Restarts, users, other devices. *)

(***************************************************************************)
(* RemoteStore::HandleCredentialChange restarts the streams and fills the  *)
(* pipeline anew from the queue of the user.                               *)
(***************************************************************************)
RestartStreams(queue) ==
  /\ LoseStream
  /\ pipeline' = NextBatches(<<>>, queue)

(* The process is killed and started again; getData listens again. *)
Restart ==
  /\ Fault
  /\ InitializeView(ActiveQueue)
  /\ RestartStreams(ActiveQueue)
  /\ UNCHANGED <<backendVars, mutations, cache, remoteKeys, watched, signedIn, refused>>

(***************************************************************************)
(* SyncEngine::HandleCredentialChange at a sign-out:                       *)
(* LocalStore::HandleUserChange takes the user's queue out of the view.    *)
(***************************************************************************)
SignOut ==
  /\ signedIn /\ Fault
  /\ signedIn' = FALSE
  /\ EmitNewSnapshots(cache, <<>>, remoteKeys, current)
  /\ RestartStreams(<<>>)
  /\ UNCHANGED <<backendVars, mutations, cache, remoteKeys, watched, refused>>

(***************************************************************************)
(* The same user again.  The view is still there, unless the backend has   *)
(* ended the listener in between: then getData makes a new one.            *)
(***************************************************************************)
SignIn ==
  /\ ~ signedIn
  /\ signedIn' = TRUE
  /\ EmitNewSnapshots(cache, mutations, remoteKeys, current) \/ InitializeView(mutations)
  /\ RestartStreams(mutations)
  /\ UNCHANGED <<backendVars, mutations, cache, remoteKeys, watched, faults, refused>>

(* Another device adds, edits or deletes a journal (external). *)
OtherDevice(d, delete) ==
  LET n == Cardinality({i \in DOMAIN log : log[i].batch = 0}) IN
  /\ n < MaxForeign
  /\ Fresh(d) \/ Backend(d, Len(log)) # NoDocument
  /\ delete => Backend(d, Len(log)) # NoDocument
  /\ log' = Append(log, [id |-> d, entry |-> IF delete THEN NoDocument ELSE -(n + 1),
                         batch |-> 0])
  /\ UNCHANGED <<written, mutations, cache, remoteKeys, watched, viewVars, streamVars,
                 signedIn, faults, historyVars>>

WriteStream ==
  \/ OnWriteStreamHandshakeComplete \/ OnWriteStreamMutationResult \/ HandleWriteError

BackendHandles == BackendCommits \/ BackendRefuses

WatchStream ==
  \/ \E v \in watched .. Len(log) : WatchSnapshot(v)
  \/ watched = 0 /\ \E v \in 1 .. Len(log) : WatchListing(v)

Next ==
  \/ \E d \in DocIds : SaveNew(d) \/ SaveEdited(d) \/ DeleteJournal(d)
  \/ WriteStream \/ BackendHandles \/ OnWriteStreamClose
  \/ \E v \in watched .. Len(log) : WatchSnapshot(v)
  \/ \E v \in watched .. Len(log) : v > 0 /\ WatchListing(v)
  \/ \E d \in DocIds : ResolveLimbo(d)
  \/ GoOffline \/ Restart \/ SignOut \/ SignIn
  \/ \E d \in DocIds, delete \in BOOLEAN : OtherDevice(d, delete)

Spec == Init /\ [][Next]_vars

(***************************************************************************)
(* Fairness.  A stream with something to send or to hear is opened again   *)
(* (the backoff ends), the backend works through what it was sent, and the *)
(* watch stream reports what was committed.  The user need do nothing.     *)
(***************************************************************************)
FairSpec ==
  /\ Spec
  /\ WF_vars(WriteStream)
  /\ WF_vars(BackendHandles)
  /\ WF_vars(WatchStream)
  /\ WF_vars(\E d \in DocIds : ResolveLimbo(d))

-----------------------------------------------------------------------------
(* Properties. *)

InQueue(b) == \E i \in DOMAIN mutations : mutations[i].batch = b
Committed(b) == \E i \in DOMAIN log : log[i].batch = b
DeletedOnce(d) == \E i \in DOMAIN log : log[i].id = d /\ log[i].entry = NoDocument

(***************************************************************************)
(* The pipeline holds the first batches of the queue.  An answer of the    *)
(* backend does not say which write it is for; it belongs to the front of  *)
(* the pipeline, the answers after it and the writes under way to the      *)
(* batches behind, whatever broke in between.                              *)
(***************************************************************************)
PipelineInStep ==
  /\ Len(pipeline) <= MaxPending
  /\ Len(pipeline) <= Len(ActiveQueue)
  /\ \A i \in DOMAIN pipeline : pipeline[i] = ActiveQueue[i]
  /\ Len(responses) <= Len(pipeline)
  /\ \A i \in DOMAIN responses : responses[i].batch = pipeline[i].batch
  /\ open /\ ~ Ended => requests = SubSeq(pipeline, Len(responses) + 1, Len(pipeline))
  /\ ~ open => requests = <<>> /\ responses = <<>>

(***************************************************************************)
(* No save or deletion is lost, over broken streams, restarts and          *)
(* sign-outs: it waits in the queue, or the backend has it, or it was an   *)
(* edit of a journal that somebody has deleted.  In the last case the      *)
(* completion block of updateData drops the error.                         *)
(***************************************************************************)
NoSilentLoss ==
  \A b \in 1 .. written :
    InQueue(b) \/ Committed(b) \/ \E m \in refused : m.batch = b /\ DeletedOnce(m.id)

CommitInOrder ==
  \A b \in 1 .. written :
    Len(log') > Len(log) /\ log'[Len(log')].batch = b =>
      /\ InQueue(b)
      /\ \A c \in 1 .. b - 1 : Committed(c) \/ \E m \in refused : m.batch = c

(***************************************************************************)
(* The backend gets this device's writes in the order they were made, and  *)
(* never one that was acknowledged before: a write that is sent again      *)
(* cannot overtake, or undo, a later one the device has seen confirmed.    *)
(***************************************************************************)
CommitsInOrder == [][CommitInOrder]_vars

(***************************************************************************)
(* A write is committed once, unless its answer was lost.                  *)
(***************************************************************************)
OnceUnlessAnswerLost ==
  ~ answerLost =>
    \A i, j \in DOMAIN log : log[i].batch = log[j].batch /\ log[i].batch > 0 => i = j

(***************************************************************************)
(* A deleted journal does not come back because of an edit that was made   *)
(* before or elsewhere: updateData asks that it exists.  Only a save that  *)
(* is sent again after its answer was lost can bring it back.              *)
(***************************************************************************)
DeletedStaysDeleted ==
  ~ answerLost =>
    \A i, j \in DOMAIN log :
      i < j /\ log[i].id = log[j].id /\ log[i].entry = NoDocument =>
        log[j].entry = NoDocument

(***************************************************************************)
(* A synced view shows what the backend had at the last snapshot of the    *)
(* watch stream, or something newer, for every journal that it does not    *)
(* show with local changes.  In particular, a journal that was deleted     *)
(* while the device was away is gone.                                      *)
(***************************************************************************)
SyncedViewIsBackend ==
  Synced => \A d \in DocIds :
              ~ view[d].local /\ ~ (signedIn /\ Queued(d)) =>
                \E v \in watched .. Len(log) : view[d].entry = Backend(d, v)

OwnTextStaysStep ==
  \A d \in DocIds :
    signedIn /\ signedIn' /\ view[d].entry > 0 /\ view'[d].entry # view[d].entry =>
      \/ written' # written
      \/ \E m \in refused' : m.batch = view[d].entry
      \/ view'[d].entry = NoDocument /\ DeletedOnce(d)
      \/ \E i, j \in DOMAIN log : i < j /\ log[i].batch = view[d].entry /\ log[j].id = d

(***************************************************************************)
(* While the user is in, what was saved stays on the screen.  Between the  *)
(* save and its delivery by the watch stream neither the acknowledgement   *)
(* nor a late snapshot with an older text replaces it; only a new write, a *)
(* refusal, the news that the journal was deleted, or a later commit for   *)
(* the same journal does.                                                  *)
(***************************************************************************)
OwnTextStays == [][OwnTextStaysStep]_vars

(***************************************************************************)
(* What View::ShouldWaitForSyncedDocument counts on: "Watch will send us   *)
(* the same document again".  Once the view is synced, a document has      *)
(* local changes only if there are mutations for it.                       *)
(***************************************************************************)
WatchSendsAgain ==
  Synced => \A d \in DocIds :
              view[d].local /\ ~ Queued(d) => LastCommit(d, Len(log)) > watched

(* The user's writes are all delivered if the user stays signed in. *)
QueueDrains == <>[]signedIn => <>[](mutations = <<>>)

(***************************************************************************)
(* If the user stays signed in, the view settles on what the backend has,  *)
(* but for documents that wait for a watch update that never comes.        *)
(***************************************************************************)
ViewSettles ==
  <>[]signedIn =>
    <>[](\A d \in DocIds : ~ view[d].local => view[d].entry = Backend(d, Len(log)))

-----------------------------------------------------------------------------
(***************************************************************************)
(* The queue, the pipeline and the streams implement an outbox: what the   *)
(* backend has answered since the stream was opened is how far it came.    *)
(***************************************************************************)
AbstractOutbox == INSTANCE Outbox WITH
  Texts      <- Text,
  Operations <- Mutation,
  Accepts    <- IsValidFor,
  Result     <- TextOf,
  store      <- [d \in DocIds |-> Backend(d, Len(log))],
  outbox     <- mutations,
  next       <- Len(responses) + 1

(***************************************************************************)
(* The device's writes are applied in order, each at least once, and leave *)
(* the queue only when the backend has committed or refused them, in spite *)
(* of pipelining, answers without a name, broken streams, restarts and     *)
(* sign-outs.                                                              *)
(***************************************************************************)
ImplementsOutbox == AbstractOutbox!Spec

=============================================================================
