# Journal Wave: TLA+ models and proofs

Journal Wave (`src/Dream Journal`) is an iOS journal app in SwiftUI: about 1500
lines of Swift over Firebase. Users sign up with an e-mail address, confirm it
through a link, log in, and keep a list of journal entries in Firestore. The
repository also vendors the Firebase pods; they are modelled only where the
behaviour of the app rests on them, from the lines that decide it.

The app has no threads of its own, but most of what it does happens in
completion blocks, snapshot closures and notifications that run some time after
the call. The tests of the repository are empty templates. This directory models
that asynchronous behaviour, model-checks it and proves the main results.

## Inventory

| Part | State | Operations | Interacts with |
|---|---|---|---|
| `getData` (ContentView.swift) | `datas`, `noData` | `init`, the closure of `addSnapshotListener` (error, empty, added, modified, removed) | Firestore listener posts events to the main queue; `JournalList` reads the state |
| Firestore query view and listener (vendored) | documents of the query, sync and online state, whether the initial event was raised | listen, new view snapshot, online state change, rejected listen | feeds `getData` |
| `Authenticate` (Login.swift) | `status`, `show`, `resend`, `verify2` | shows `JournalList` or `Login`; observer of the notification "status" | UserDefaults; bindings to `Login` and `SignUp` |
| `Login`, `ErrorView`, `ReSentView` | `alert`, `error`, fields | `verify`, `reset`, Register, Resend, Cancel, OK | FirebaseAuth calls and their completion blocks |
| `SignUp`, `SuccessView`, `RegisterErrorView` (Register.swift) | `alert`, `error`, `verify`, `registerPressed`, fields | `register`, `createUser`, Resend, Cancel, OK | FirebaseAuth, profile document in Firestore |
| FirebaseAuth (vendored) | `currentUser` in the keychain | sign in, create user, sign out, forced sign-out when a token is refused | changes `currentUser` on its own queue, calls back on the main queue |
| Firestore write path, local store, watch (vendored) | mutation queue, write pipeline, cache of remote documents, keys of the target, limbo documents | local write, handshake, answer, refusal, watch snapshot, listing, limbo resolution, change of user, restart | takes the writes of `EditView` and `JournalList`, moves the query view |
| `JournalList`, `cellView` (Home.swift) | search text, `remove`, sheet state | search, delete, +, Sign Out, `getName` | `getData`, UserDefaults, FirebaseAuth |
| `EditView`, `ViewJournal` | bindings of title, text and document id | Save, pencil, Back, swipe | Firestore writes |
| `MultiLineTF` (ContentView.swift) | the text of a `UITextView` | `makeUIView`, delegate calls | the description of `EditView` |
| `AppDelegate`, `SceneDelegate`, `Keyboard`, `Indicator`, `WaveAnimation` | none that matters | UIKit wrappers, templates | |

What is hard about it:

* `getData` never rebuilds its list; it patches it, so it depends on every
  snapshot being a difference to the one before, and on no change being skipped.
* Three memories of "signed in" (keychain, UserDefaults, the view) change in
  separate steps, and the process can die, or a token be refused, between them.
  `uid!`, `user!` and `try!` turn a disagreement into a crash.
* Completion blocks read `currentUser` and the text fields when they run, not
  when the call was made. No button is disabled while a call is under way.
* Dialogs are opened and closed with `toggle()`.
* A saved journal passes through a queue, a pipeline and a stream that may break at
  any point, with answers that do not say what they answer; the screen shows it at
  once and must go on showing it until the backend's word arrives.
* The editor works on variables of the screen below it, on a text view that is never
  updated, and on a journal that may change or disappear meanwhile.

`PROJECT.json` lists these hazards with their lines.

## Modules

| Module | Models | Used by |
|---|---|---|
| `FirestoreView` | documents of a query, the changes between two results and their order (`View::ComputeDocumentChanges`, `ApplyChanges`), `ShouldRaiseInitialEvent`: operators, no state | `JournalFeed` |
| `JournalFeed` | one `getData` object and the listener that feeds it | `MCJournalFeed`, `JournalFeedProofs` |
| `LaggingCopy` | abstract: a copy that follows a source and skips nothing | `JournalOrder` |
| `JournalOrder` | `JournalFeed` against `LaggingCopy` and against a freshly built list | `MCJournalOrder`, `JournalOrderProofs` |
| `JournalSync` | the way of a save or a deletion to the backend and back, other devices included | `MCJournalSync`, `JournalSyncProofs`, `JournalSyncViewProofs` |
| `Outbox` | abstract: operations reach a store in order, at least once | `JournalSync` |
| `JournalEditor` | `JournalList`'s rows and search, `ViewJournal`, `EditView`, `MultiLineTF` | `MCJournalEditor`, `JournalEditorProofs` |
| `Session` | who is signed in, according to keychain, UserDefaults and view | `SessionListeners`, `MCSession`, `SessionProofs` |
| `SessionListeners` | `Session` with the snapshot listeners a process has made | `MCSessionListeners`, `SessionListenersProofs` |
| `AuthScreens` | `Login` and `SignUp` with their dialogs and calls | `MCAuthScreens`, `AuthScreensProofs` |
| `MC*` | instances for TLC | runs |
| `*Proofs` | theorems and proofs for TLAPS | |

Definitions whose comment starts with "Mutant:" are wrong on purpose. No
specification uses them; each stands for a plausible mistake in the code, and
TLC finds one of the properties violated when the mutant replaces the definition.

### JournalFeed

Two threads: Firestore's worker (`Listen`, `OnFirstViewSnapshot`,
`OnViewSnapshot`, `OnlineStateChange`, `ListenRejected`) and the main thread
(`HandleError`, `HandleEmpty`, `HandleChanges`, one action per kind of document
change, `Return`). One iteration of the closure's loop is one step, so the worker
runs in between. `HandleRemoved` contains the `return` of ContentView.swift:83,
which ends the whole closure. What moves the view (own writes, acknowledgements,
other devices) is left open: it may become any set of documents.

Dates are numbers; `DateString` keeps the minutes, as the app's formatter does.

### JournalOrder and LaggingCopy

`JournalOrder` extends `JournalFeed`. The refinement maps the view's documents to the
source, the snapshots on the main queue (and the one the closure is handling) to the
contents in transit, and the list, read between two calls of the closure, to the copy.
The dates are left out of the mapping, because the modified branch does not copy them;
`FreshUnlessDisturbed` says exactly when order and dates are right nevertheless. The
history variable `disturbed` records the two kinds of change that the patching does not
do justice to; every Save of `EditView` writes a new date and is one of them.

### JournalSync and Outbox

One device, the backend and the user's other devices. All steps of the device run on
Firestore's worker queue, one per callback: `WriteMutations` (from `SaveNew`, `SaveEdited`,
`DeleteJournal`), `OnWriteStreamHandshakeComplete`, `OnWriteStreamMutationResult`,
`HandleWriteError`, `OnWriteStreamClose`, `WatchSnapshot`, `WatchListing`, `ResolveLimbo`,
`GoOffline`, `SignOut`, `SignIn`, `Restart`. Each action is the whole callback, the refill
of the pipeline and the recomputation of the view included. Queue, cache, keys of the target
and last snapshot are persisted and survive `Restart`; the rest is rebuilt.

Abstractions: a text is named by the write that made it (every save has a date of its own,
so no two are equal); a version is a place in the backend's log; the resume token is the
version of the last snapshot; an answer carries its batch only as history. A batch holds one
mutation, as all writes of the app do. The view is recomputed for all documents, which changes
nothing for those an event is not about. The only refusal is NOT_FOUND, what the precondition
of `updateData` leads to; rules that forbid a write are not modelled. The backend, other
devices and the generator of document ids are external: they are modelled by what the client
counts on (a stream's writes are handled in order, a refusal ends the stream, a snapshot is
consistent, a listing names the documents that exist).

`Outbox` has no streams, pipelines or users. The mapping reads its `next` off the answers that
are on their way: what has been answered on this stream is how far the store came.

### JournalEditor

One action per button, per delegate call of the text view and per gesture. `draft` holds the
three `@State` variables of each screen, which outlive the sheet. `docs` is Firestore's view
with the user's own writes, `datas` the list, which takes over a document at any later time or
never (`JournalFeed` and `JournalSync` model how). SwiftUI's freedom is a nondeterministic
choice: whether the state of an earlier `ViewJournal` survives a push, and whether a
`ViewJournal` whose row has left the list (deleted, or renamed under a search) is popped, with
its sheet, or stays. The history variable `overtaken` says that the document is not what the
sheet was opened with. What happens after Save is tapped twice within the closing animation is
left to UIKit.

### Session

`Send`, an answer, and the completion block are three steps: FirebaseAuth
replaces `currentUser` on its own queue and posts the block to the main queue.
Sign Out is two steps, since the process may be killed between the keychain and
UserDefaults. `Kill` may happen anywhere, `Launch` reads UserDefaults, `Revoke` is
`signOutIfTokenIsInvalidWithError`. A failed force unwrap is `Trap`: it ends the
process and is remembered in `trap`. History variables name the disturbances:
`overlapped` (two requests under way at once), `revoked`, `cutShort`. A write to
UserDefaults is taken to be durable when `set` returns.

Whether SwiftUI evaluates `Authenticate.body` again after a change of `resend`, or
after a notification that does not change `status`, is a nondeterministic choice
(`rendered`).

`SessionListeners` keeps the sequence of listeners, oldest first: one per `JournalList` value, that is, per evaluation of
`Authenticate.body` with `status` true. Firestore keeps all of them until the process ends.

### AuthScreens

One action per button and per outcome of a completion block. `alert` and `error`
are functions of the screen, because `ErrorView` and `RegisterErrorView` are the
same code except for `registerPressed`. A call carries the screen whose state its
block has captured, or "gone" when the screen was popped or replaced; such a
block still reaches `resend` and `verify2`, which belong to `Authenticate`. Two
things SwiftUI decides, and not the app, are nondeterministic: what `error` reads
in a block whose screen is gone, and whether the binding of a navigation link
that disappears is reset. A dialog covers its screen and takes all touches. The
back button of the navigation bar pops `SignUp` at any time.

`Session` and `AuthScreens` both model `verify` and `register`: the first keeps what
they do to the three memories, the second what they do to the screen. Texts are
reduced to those that code compares with (`""`, `"RESET"`) or that a property
tells apart.

## Runs

| Run | Checks | Result |
|---|---|---|
| `feed` | `TypeOK`, `MirrorUnlessDropped`, `NoSpinnerOnceHeard`, `FeedInv`, `ListMovesTowardsSnapshot` | holds: as long as the removed branch has left no change behind, the patched list equals the last snapshot, and the spinner does not come back |
| `feed_live` | `SpinnerStops` | holds: the spinner ends, online or offline |
| `feed_message` | `NoJournalsMessageIsTrue` | violated: one snapshot removes the only journal and adds another; the closure returns after the removal and the app says "There are no journals" |
| `session` | `TypeOK`, `NoTrapUnlessDisturbed`, `GateUnlessOverlapped`, `SavedWhereShown`, `SessionInv`, `ListenerPerEntry` | holds |
| `session_launch` | `GetDataFindsUser` | violated: log in, token refused, kill, launch: `uid!` meets nil, and does so on every launch after |
| `session_gate` | `OnlyVerifiedUsersListed` | violated: two log-ins overlap, the first passes the gate, the second replaces the user before the list is made |
| `screens` | `TypeOK`, `DialogHasText`, `SpinnerMeansWork`, `MailUnlessDisturbed`, `ProfileMatchesAccount`, `ScreensInv`, `MessageOpensDialog`, `SignUpIsAnswered` | holds |
| `copy` | `FreshUnlessDisturbed`, `ImplementsLaggingCopy` | holds: no result of the query is skipped or shown out of turn |
| `sync` | `TypeOK`, `PipelineInStep`, `NoSilentLoss`, `OnceUnlessAnswerLost`, `DeletedStaysDeleted`, `SyncedViewIsBackend`, `CommitsInOrder`, `OwnTextStays`, `ImplementsOutbox` | holds: the only text that is lost is an edit of a deleted journal, whose error `SaveData` drops |
| `sync_live` | `QueueDrains`, `ViewSettles` | holds |
| `sync_watch` | `WatchSendsAgain` | violated: a new journal is acknowledged, another device deletes it, the first listing of the target does not mention it; the view keeps it "with local changes" and does not ask |
| `editor` | `TypeOK`, `SheetShowsDraft`, `NothingLeaks`, `SavesOverWhatWasRead`, `NoHiddenFilter` | holds |

The properties with "unless" in them name exactly the disturbances under which
the code fails. That each of them is needed can be seen by dropping it: TLC then
shows a run such as these.

* A tap on Cancel while the resend is under way: its answer toggles the dialog
  open again, without a text.
* Two taps on Sign Up: the failure of one request arrives first and sets `error`,
  the success of the other finds it set and sends no mail.
* Nobody impatient: log in to an unverified account, Cancel, Register, mismatched
  passwords, "Resend Verification Email" (still offered, because Cancel does not
  reset `resend`). The dialog closes, `error` stays, and the account created next
  gets no verification mail and no dialog.

### Bounds

* `MaxQueue` (events on the main queue) is 1 for safety and 2 for liveness. The
  loop position and one waiting event already give every overlap of "handling",
  "waiting" and "view has moved on"; the proofs cover any number.
* `MaxDatas`: after a dropped change journals may be listed twice and pile up
  without end, so the view moves only while `datas` has at most `MaxDatas` entries.
  With 2 documents, 2 still allows a duplicate.
* 2 document ids, 2 entries that differ in every field (1 for liveness): a change
  of each kind, in the same snapshot where the order matters.
* `MaxRequests` = 2 users and 2 requests: the least with an overlap. `session_launch`
  uses 1, to show that no overlap is needed.
* `MaxCalls` = 2 calls and 2 addresses: the least with impatience and with an edit.
* `JournalSync`: 2 journals, one of them new; `sync` has 3 writes (a journal saved, edited and
  deleted, or a write behind a full pipeline), `MaxPending` = 2 so that the pipeline fills up, 2
  foreign commits (the journal that is there, and one action of another device) and 1 fault. The
  liveness run has 2 writes. 3 writes with 2
  faults, and 2 writes with 3 foreign commits and 2 faults, were checked once with no other result.
* `JournalEditor`: 2 journals, one text besides `""`, which makes titles that a search finds and
  ones that it does not. There is no bound on the number of steps.
* `MaxEntries` = 2: a list entered twice in one process, by the same or another user.

Users and the editor's document ids are symmetric (safety runs only).
Deadlock is checked except in the runs of `JournalSync`: there the bounds on writes and faults
end every behaviour in a state where all is delivered.

### Fairness

`FairSpec` of `JournalFeed`: weak fairness of the main thread (its queue is served
and the closure has no wait), of `Listen` (`init` calls it), of the 10 second timer
of `OnlineStateTracker`; strong fairness of the first current result, that is, the
backend does not for ever break the connection just before it has answered. The
last one is an assumption about the backend and the network, not about the code.

`FairSpec` of `JournalSync`: a write stream with a pipeline is opened again (the backoff delay
ends, `OnWriteStreamClose` starts a new one) and its answers are handled; the backend works
through the writes of an open stream; the watch stream, which restarts the same way, reports what
was committed; limbo documents are answered. Faults are bounded, so streams finally stay up.
Nothing is assumed of the user: `QueueDrains` and `ViewSettles` have "the user stays signed in" as
their hypothesis.

`FairSpec` of `AuthScreens`: FirebaseAuth answers every call, if only with a network
error. Nothing is assumed of the user.

## Proofs

All theorems hold for every value of the constants that satisfies the named
assumptions: `DocIds` finite and the bounds natural numbers, `NoUser` not a user,
`""` not an address, `NoId`, the placeholder and `NoJournal` different from ids, texts and journals.
In particular the bounds of the runs (queue length, writes, faults, requests, calls) are
arbitrary numbers here. Every safety property of the passing runs is a theorem, the
action properties and the two refinements included.

* `JournalFeedProofs`: `TypeCorrect`, `FeedCorrect`, `MirrorCorrect`,
  `SpinnerCorrect`, `MovesTowardsSnapshot`. `MirrorUnlessDropped` is not inductive: it
  says nothing inside the loop. `FeedInv` adds that queued events chain up (each one
  starts from the documents of the one before), that the chain ends in the view's
  documents, that the changes left to the loop lead from the last handled snapshot to
  the current one, one per document, and that the list mirrors the state in between.
  The lemmas say what appending, patching and removing do to `Mirrors`.
* `JournalOrderProofs`: `FeedIsLaggingCopy` (the refinement `ImplementsLaggingCopy`) and
  `ListIsFresh` (`FreshUnlessDisturbed`), both on top of `FeedInv`. For the refinement, `CopyInv` says
  that between two calls the texts on the list are those of the last result handled; each worker step
  is then `Start`, `Change`, `End` or a stutter of `LaggingCopy`, and each return of the closure is `Show`. For the order,
  `OrderInv` says that the list is in the order of the query and has the documents' dates inside the loop,
  too; `FreshFromOrder` shows that such a list is the sorted listing a fresh `getData` starts from (the
  numbering of the list is the bijection that gives the cardinality).
* `JournalSyncProofs`: `SyncTypes`, `PipelineStaysInStep`, `NothingIsLost`, `CommittedOnce`,
  `DeletionIsFinal`, `WritesArriveInOrder`, `SyncImplementsOutbox`. `CoreInv` is the invariant of the
  write path: batch ids increase along the queue, the pipeline is a filled prefix of it, the answers belong to
  its first batches, what was sent and not yet handled follows them, and a refusal is the last answer. `NoSilentLoss`,
  `OnceUnlessAnswerLost` and `DeletedStaysDeleted` are not inductive; `HistoryInv` adds what they need:
  every answer tells the truth about the log (`AnswerInv`), the write that creates a journal is the first one
  for it on the queue and, if the journal exists on the backend, has been committed (`SetIsFirst`, `SetIsNew`),
  and, while no answer was lost, a queued batch that is in the log has its answer on the stream
  (`Unanswered`). `OriginInv` adds that whatever cache and view take for confirmed was committed once, which is
  why a journal that can be edited or deleted is not one that is still to be created.
* `JournalSyncViewProofs`: `SyncedViewShowsBackend`, `OwnTextIsKept`. `CacheInv` relates the cache to the
  log: each cached document is what the backend had at its version, the keys of the target are the
  documents of the last snapshot and cached at least as new, and the cache knows every creation of a
  document except one that is on the queue or the very first (`CreationsKnown`); without the last part a
  deletion in the cache could hide a later creation. `ViewInv` says that view and limbo documents are what cache, queue
  and target give. For `OwnTextStays`, `ShownInv` says that a text on the screen is the one that queue and cache
  give, or is excused (refused, or overtaken in the log). The heart is `EntryOverNews`: news from
  the backend under the queue of local writes changes the text on top only if it removes the
  document.
* `SessionProofs`: `TypeCorrect`, `SessionCorrect`, `NoTrapCorrect`, `GateCorrect`,
  `SavedCorrect`. The key part of `SessionInv` is `OneRequest`: without overlap nothing
  is under way while somebody is signed in, hence nobody replaces `currentUser` between
  the gate, the list and a save.
* `SessionListenersProofs`: `ListenersCorrect`. `ListenInv` counts the listeners against the entries,
  one less between the change of `status` and the evaluation of `body`; that no other evaluation
  happens while the list is shown rests on `OneRequest`.
* `AuthScreensProofs`: `TypeCorrect`, `ScreensCorrect`, `DialogCorrect`,
  `SignUpSpinnerCorrect`, `MailCorrect`, `ProfileCorrect`, `MessagesCorrect`. The key part
  of `ScreensInv` is `Orderly`: a patient user has at most one call per screen, and it is
  resend exactly if the dialog is open, so every toggle goes the way it was meant.
* `JournalEditorProofs`: `EditorCorrect`, `TypeCorrect`, `SheetCorrect`, `LeaksCorrect`,
  `OverwriteCorrect`, `FilterCorrect`. Type correctness is not inductive by itself: that no draft holds
  the placeholder needs `PlaceholderGone` (nobody types into it), which needs `SheetShowsDraft`, because
  `textViewDidBeginEditing` looks at the binding to find out what the text view shows.
  `SavesOverWhatWasRead` needs `ViewShowsRow`: while its row is in the list, a `ViewJournal` is rendered
  again with every change, so the pencil copies what the list has.

Each proof has one lemma or step per action. The induction rules of the library take an operator
as parameter, which the provers cannot instantiate; where a proof about `JournalSync` needs an induction
over the queue or the log (`LocalDocument` applies the queue to a cached document, `LastCommit` looks
through the log) it takes the least counterexample instead: the set of indexes where the claim fails
has a least element (`LeastNatural`, from `WFMin`), and that one is refuted. `LocalDocumentDef`
gets the values of the recursive function that way.

Only model-checked: the liveness properties `SpinnerStops`, `SignUpIsAnswered`, `QueueDrains` and
`ViewSettles`, because fairness is beyond the prover. The violated properties are of course not
theorems.

## Not modelled

Layout, animation, keyboard handling, the eye buttons, the delegates' templates, `getName` (reads
the cached name once for the greeting). Below the interfaces the app uses: gRPC, TLS, the formats of
storage and wire, and of Firestore what the app never meets (transactions, transforms, limits,
existence filters, garbage collection of the cache, several queries).

The repository has about 550,000 lines, of which some 1,500 are the app's own; the rest are vendored
pods, TLS, transport and generated code for the most part. The map therefore covers most of the app's
code that has state, and of the pods only the functions that decide what the app shows.

## Plan

Done, in this order: `FirestoreView`, `JournalFeed`, `Session`, `AuthScreens` and their proofs;
`JournalSync` with `Outbox`; `JournalOrder` with `LaggingCopy`; `JournalEditor`; `SessionListeners`;
the proofs of these, the two refinements included.

1. Steps towards liveness that are safety properties and can be proved: that a batch on the queue always
   has a next step that brings it nearer to its answer.
2. Shorter proofs: the lemmas on prefixes of a queue and on the log may serve both modules of `JournalSync`
   in fewer forms.
