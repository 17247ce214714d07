----------------------- MODULE JournalSyncViewProofs ------------------------
(***************************************************************************)
(* Proofs about JournalSync: what the user sees.  On the invariant of the  *)
(* write path (WriteInv) rest                                              *)
(*   CacheInv, ViewInv  cache and view against the log of the backend      *)
(*   ShownInv           the texts of the user that are on the view         *)
(***************************************************************************)
EXTENDS JournalSyncProofs

(* The commit i of the log l brings the document d into being. *)
Creates(l, d, i) ==
  /\ i \in 1 .. Len(l)
  /\ l[i].id = d /\ l[i].entry # NoDocument
  /\ TextIn(l, d, i - 1) = NoDocument

(* A document that is missing at one version and there at a later one was  *)
(* created in between.                                                     *)
LEMMA CreatedBetween ==
  ASSUME NEW l \in Seq(Commit), NEW d, NEW u \in Nat, NEW w \in u .. Len(l),
         TextIn(l, d, u) = NoDocument, TextIn(l, d, w) # NoDocument
  PROVE  \E i \in u + 1 .. w : Creates(l, d, i)
<1> DEFINE T == {i \in u + 1 .. w : TextIn(l, d, i) # NoDocument}
<1>0. Len(l) \in Nat /\ w \in Nat
  BY LenZero
<1>1. w \in T
  BY <1>0
<1>2. T \subseteq Nat
  BY <1>0
<1>3. PICK i \in T : \A j \in T : i <= j
  BY <1>1, <1>2, LeastNatural
<1>4. i \in u + 1 .. w /\ TextIn(l, d, i) # NoDocument /\ i \in Nat /\ i - 1 \in Nat
  BY <1>0, <1>3
<1>5. TextIn(l, d, i - 1) = NoDocument
  <2>1. CASE i = u + 1
    BY <2>1
  <2>2. CASE i # u + 1
    <3>1. i - 1 \in u + 1 .. w /\ ~ (i <= i - 1)
      BY <1>0, <1>4, <2>2
    <3> QED
      BY <1>3, <3>1
  <2> QED
    BY <2>1, <2>2
<1> HIDE DEF T
<1>6. LastIn(l, d, i) = i
  <2>1. LastIn(l, d, i) \in 0 .. i
    BY <1>4, LastInFacts
  <2>2. ~ LastIn(l, d, i) <= i - 1
    BY <1>4, <1>5, TextInStays
  <2> QED
    BY <1>4, <2>1, <2>2
<1>7. l[i].id = d
  BY <1>4, <1>6, LastInFacts
<1>8. l[i].entry # NoDocument
  BY <1>4, <1>6 DEF TextIn
<1> QED
  BY <1>0, <1>4, <1>5, <1>7, <1>8 DEF Creates

(* The creations in a log with one more commit. *)
LEMMA CreatesAppend ==
  ASSUME NEW l \in Seq(Commit), NEW c \in Commit, NEW k, k = Append(l, c), NEW d, NEW i
  PROVE  Creates(k, d, i) =>
           \/ Creates(l, d, i)
           \/ /\ i = Len(l) + 1 /\ c.id = d /\ c.entry # NoDocument
              /\ TextIn(l, d, Len(l)) = NoDocument
<1> SUFFICES ASSUME Creates(k, d, i)
             PROVE  \/ Creates(l, d, i)
                    \/ /\ i = Len(l) + 1 /\ c.id = d /\ c.entry # NoDocument
                       /\ TextIn(l, d, Len(l)) = NoDocument
  OBVIOUS
<1>1. /\ Len(l) \in Nat /\ Len(k) = Len(l) + 1
      /\ \A j \in 1 .. Len(l) : k[j] = l[j]
      /\ k[Len(l) + 1] = c
  BY LenZero, AppendProperties
<1>2. /\ i \in 1 .. Len(l) + 1 /\ k[i].id = d /\ k[i].entry # NoDocument
      /\ TextIn(k, d, i - 1) = NoDocument
  BY <1>1 DEF Creates
<1>3. i - 1 \in 0 .. Len(l)
  BY <1>1, <1>2
<1>4. TextIn(l, d, i - 1) = NoDocument
  BY <1>2, <1>3, TextInOld
<1>5. CASE i = Len(l) + 1
  <2>1. i - 1 = Len(l)
    BY <1>1, <1>5
  <2> QED
    BY <1>1, <1>2, <1>4, <1>5, <2>1
<1>6. CASE i # Len(l) + 1
  <2>1. i \in 1 .. Len(l)
    BY <1>1, <1>2, <1>6
  <2> QED
    BY <1>1, <1>2, <1>4, <2>1 DEF Creates
<1> QED
  BY <1>5, <1>6

-----------------------------------------------------------------------------
(* The target's keys are the documents of the last snapshot. *)
KeysExist == remoteKeys = {d \in DocIds : TextIn(log, d, watched) # NoDocument}

(* The cache has what the backend had at some version, and for the keys of *)
(* the target none that is older than the last snapshot.                   *)
CacheIsBackend ==
  \A d \in DocIds : /\ cache[d].version \in 0 .. Len(log)
                    /\ cache[d].entry = TextIn(log, d, cache[d].version)
(* What the target lists is cached at least as new as the listing. *)
KeysAreCached == \A d \in remoteKeys : LastIn(log, d, watched) <= cache[d].version

(* An update that was accepted had a document to update. *)
PatchesHadText ==
  \A i \in 1 .. Len(responses) :
    mutations[i].type = "patch" /\ responses[i].version # NotFound =>
      TextIn(log, mutations[i].id, responses[i].version - 1) # NoDocument

(* Nobody creates a document again once its set is answered. *)
SetsAreLast ==
  \A i \in 1 .. Len(responses) :
    mutations[i].type = "set" /\ responses[i].version # NotFound =>
      \A k \in 1 .. Len(log) :
        Creates(log, mutations[i].id, k) => k <= responses[i].version

(* A creation that the cache does not know of yet is one of this device,   *)
(* whose set is still queued, or the first one, by another device.         *)
SetQueued(d) == \E j \in 1 .. Len(mutations) : mutations[j].id = d /\ mutations[j].type = "set"
(* A mutation of d is on the queue. *)
IsQueued(d) == \E j \in 1 .. Len(mutations) : mutations[j].id = d
(* No commit of d comes before the i-th. *)
FirstOfDoc(l, d, i) == \A k \in 1 .. Len(l) : l[k].id = d => i <= k
(***************************************************************************)
(* The cache knows of every creation in the log, or its mutation is on the *)
(* queue, or the creation is the first commit of a document this device    *)
(* knows nothing of. So a document the cache holds as deleted was not      *)
(* created anew behind its back.                                           *)
(***************************************************************************)
CreationsKnown ==
  \A d \in DocIds : \A i \in 1 .. Len(log) :
    Creates(log, d, i) =>
      \/ i <= cache[d].version
      \/ SetQueued(d)
      \/ cache[d].version = 0 /\ ~ IsQueued(d) /\ FirstOfDoc(log, d, i)

(* The inductive invariant of the cache. *)
CacheInv ==
  /\ KeysExist /\ CacheIsBackend /\ KeysAreCached
  /\ PatchesHadText /\ SetsAreLast /\ CreationsKnown

(* What the view shows without local changes is what the cache has, unless *)
(* there are mutations for it.                                             *)
ViewIsCache ==
  \A d \in DocIds :
    ~ view[d].local /\ (\A i \in 1 .. Len(ActiveQueue) : ActiveQueue[i].id # d) =>
      view[d].entry = cache[d].entry

(* While the server's word is current, limbo is what it should be. *)
LimboIsExact == current => limbo = {d \in DocIds : ShouldBeInLimbo(view, remoteKeys, d)}

(* The inductive invariant of the view. *)
ViewInv == ViewIsCache /\ LimboIsExact

(* All of it. *)
SyncInv == WriteInv /\ CacheInv /\ ViewInv

(* Initially, the cache is empty. *)
LEMMA CacheInit == Init => CacheInv
<1> SUFFICES ASSUME Init PROVE CacheInv
  OBVIOUS
<1>1. /\ log = <<[id |-> FirstDoc, entry |-> -1, batch |-> 0]>> /\ Len(log) = 1
      /\ log[1].id = FirstDoc
  BY DEF Init
<1>2. /\ remoteKeys = {} /\ watched = 0 /\ Len(responses) = 0 /\ Len(mutations) = 0
      /\ \A d \in DocIds : cache[d].entry = NoDocument /\ cache[d].version = 0
  BY DEF Init
<1>3. \A d : LastIn(log, d, 0) = 0 /\ TextIn(log, d, 0) = NoDocument
  BY LastInFacts DEF TextIn
<1>4. KeysExist /\ CacheIsBackend /\ KeysAreCached
  BY <1>1, <1>2, <1>3 DEF KeysExist, CacheIsBackend, KeysAreCached
<1>5. PatchesHadText /\ SetsAreLast
  BY <1>2 DEF PatchesHadText, SetsAreLast
<1>6. CreationsKnown
  BY <1>1, <1>2 DEF CreationsKnown, IsQueued, FirstOfDoc
<1> QED
  BY <1>4, <1>5, <1>6 DEF CacheInv

(* Initially, the view is empty. *)
LEMMA ViewInit == Init => ViewInv
BY DEF Init, EmptyView, ViewInv, ViewIsCache, LimboIsExact

(***************************************************************************)
(* Once the view is synced, a document that is shown and waits for nothing *)
(* comes from the cache, the target lists it, and the cache is as new as   *)
(* the listing.                                                            *)
(***************************************************************************)
LEMMA SyncedViewFollows == SyncInv => SyncedViewIsBackend
<1> SUFFICES ASSUME SyncInv, Synced, NEW d \in DocIds, ~ view[d].local,
                    ~ (signedIn /\ Queued(d))
             PROVE  \E v \in watched .. Len(log) : view[d].entry = Backend(d, v)
  BY DEF SyncedViewIsBackend
<1>0. BaseInv /\ CoreInv /\ KeysExist /\ CacheIsBackend /\ KeysAreCached /\ ViewIsCache /\ LimboIsExact
  BY DEF SyncInv, WriteInv, BaseInv, CacheInv, ViewInv
<1>1. Len(log) \in Nat /\ watched \in 0 .. Len(log) /\ watched \in Nat
  BY <1>0, LenZero DEF BaseInv, ViewTypes, CoreInv, WriteTypes
<1>2. \A i \in 1 .. Len(ActiveQueue) : ActiveQueue[i].id # d
  <2>1. CASE signedIn
    BY <1>0, <2>1, FreshFacts DEF ActiveQueue
  <2>2. CASE ~ signedIn
    BY <2>2 DEF ActiveQueue
  <2> QED
    BY <2>1, <2>2
<1>3. view[d].entry = cache[d].entry
  BY <1>0, <1>2 DEF ViewIsCache
<1>4. view[d].entry = TextIn(log, d, cache[d].version) /\ cache[d].version \in 0 .. Len(log)
  BY <1>0, <1>3 DEF CacheIsBackend
<1>5. CASE d \in remoteKeys
  <2>1. LastIn(log, d, watched) <= cache[d].version
    BY <1>0, <1>5 DEF KeysAreCached
  <2>2. CASE watched <= cache[d].version
    BY <1>1, <1>4, <2>2, BackendIsTextIn
  <2>3. CASE ~ watched <= cache[d].version
    <3>1. TextIn(log, d, cache[d].version) = TextIn(log, d, watched)
      BY <1>1, <1>4, <2>1, <2>3, TextInStays
    <3> QED
      BY <1>1, <1>4, <3>1, BackendIsTextIn
  <2> QED
    BY <2>2, <2>3
<1>6. CASE d \notin remoteKeys
  <2>1. TextIn(log, d, watched) = NoDocument
    BY <1>0, <1>6 DEF KeysExist
  <2>2. ~ ShouldBeInLimbo(view, remoteKeys, d)
    BY <1>0 DEF LimboIsExact, Synced
  <2>3. view[d].entry = NoDocument
    BY <1>6, <2>2 DEF ShouldBeInLimbo
  <2> QED
    BY <1>1, <2>1, <2>3, BackendIsTextIn
<1> QED
  BY <1>5, <1>6

-----------------------------------------------------------------------------
(* Steps that leave the cache alone. *)

(* A view that was just computed shows the cache. *)
LEMMA ViewEmit ==
  ASSUME BaseInv, BaseInv', NEW queue \in Seq(Mutation), ActiveQueue' = queue, NEW isCurrent,
         \/ EmitNewSnapshots(cache', queue, remoteKeys', isCurrent)
         \/ InitializeView(queue) /\ UNCHANGED cache
  PROVE  ViewInv'
<1>0. view \in DocumentView /\ cache' \in DocumentCache
  BY DEF BaseInv, ViewTypes
<1>1. PICK old \in DocumentView : view' = ComputeDocumentChanges(old, cache', queue)
  BY <1>0, EmptyViewType DEF EmitNewSnapshots, InitializeView
<1>2. ASSUME NEW d \in DocIds, ~ view'[d].local, \A i \in 1 .. Len(queue) : queue[i].id # d
      PROVE  view'[d].entry = cache'[d].entry
  BY <1>0, <1>1, <1>2, ComputeFacts
<1>3. ViewIsCache'
  BY <1>2 DEF ViewIsCache
<1>4. LimboIsExact'
  BY DEF LimboIsExact, EmitNewSnapshots, InitializeView, UpdateLimboDocuments, ShouldBeInLimbo
<1> QED
  BY <1>3, <1>4 DEF ViewInv

(* A step that leaves cache, queue and view alone. *)
LEMMA ViewUnchanged ==
  ASSUME ViewInv, UNCHANGED <<view, cache, mutations, signedIn, remoteKeys, current, limbo>>
  PROVE  ViewInv'
BY DEF ViewInv, ViewIsCache, LimboIsExact, ActiveQueue, ShouldBeInLimbo

(* Steps that leave the backend, the queue and the cache alone. *)
LEMMA CacheUnchanged ==
  ASSUME CacheInv, UNCHANGED <<log, mutations, cache, remoteKeys, watched>>,
         responses' = responses \/ responses' = <<>>
  PROVE  CacheInv'
<1>1. KeysExist' /\ CacheIsBackend' /\ KeysAreCached' /\ CreationsKnown'
  BY DEF CacheInv, KeysExist, CacheIsBackend, KeysAreCached, CreationsKnown, SetQueued, IsQueued
<1>2. CASE responses' = responses
  BY <1>1, <1>2 DEF CacheInv, PatchesHadText, SetsAreLast
<1>3. CASE responses' = <<>>
  BY <1>1, <1>3 DEF CacheInv, PatchesHadText, SetsAreLast
<1> QED
  BY <1>2, <1>3

(* A save or a deletion by the user of this device. *)
LEMMA CacheWrite ==
  ASSUME SyncInv, NEW d \in DocIds, SaveNew(d) \/ SaveEdited(d) \/ DeleteJournal(d)
  PROVE  CacheInv'
<1>0. CoreInv /\ CacheInv
  BY DEF SyncInv, WriteInv, BaseInv
<1>1. PICK type \in {"set", "patch", "delete"} :
        /\ WriteMutations(type, d)
        /\ type = "set" => Fresh(d)
        /\ type # "set" => Known(d)
  BY DEF SaveNew, SaveEdited, DeleteJournal
<1>2. UNCHANGED <<log, cache, remoteKeys, watched, responses>>
  BY <1>1 DEF WriteMutations
<1>3. /\ Len(mutations') = Len(mutations) + 1 /\ Len(mutations) \in Nat
      /\ \A i \in 1 .. Len(mutations) : mutations'[i] = mutations[i]
      /\ mutations'[Len(mutations) + 1] = NewMutation(type, d)
  BY <1>0, <1>1, WriteMutationsFacts, LenZero DEF CoreInv, WriteTypes
<1>4. KeysExist' /\ CacheIsBackend' /\ KeysAreCached'
  BY <1>0, <1>2 DEF CacheInv, KeysExist, CacheIsBackend, KeysAreCached
<1>5. \A i \in 1 .. Len(responses) : i \in 1 .. Len(mutations)
  BY <1>0, <1>3, FrontFacts, LenZero DEF CoreInv, WriteTypes
<1>6. PatchesHadText' /\ SetsAreLast'
  BY <1>0, <1>2, <1>3, <1>5 DEF CacheInv, PatchesHadText, SetsAreLast
<1>7. ASSUME NEW e \in DocIds, SetQueued(e) PROVE SetQueued(e)'
  BY <1>3, <1>7 DEF SetQueued
<1>8. ASSUME NEW e \in DocIds, ~ IsQueued(e), e # d PROVE ~ IsQueued(e)'
  <2>1. \A i \in 1 .. Len(mutations') : i \in 1 .. Len(mutations) \/ i = Len(mutations) + 1
    BY <1>3
  <2>2. NewMutation(type, d).id = d
    BY DEF NewMutation
  <2> QED
    BY <1>3, <1>8, <2>1, <2>2 DEF IsQueued
<1>9. type = "set" => SetQueued(d)'
  <2>1. NewMutation(type, d).id = d /\ NewMutation(type, d).type = type
    BY DEF NewMutation
  <2>2. Len(mutations) + 1 \in 1 .. Len(mutations')
    BY <1>3
  <2> QED
    BY <1>3, <2>1, <2>2 DEF SetQueued
<1>10. type # "set" => ~ (cache[d].version = 0 /\ ~ IsQueued(d))
  BY <1>0, <1>1, FreshFacts DEF Known, IsQueued
<1>11. CreationsKnown'
  <2>1. ASSUME NEW e \in DocIds, NEW i \in 1 .. Len(log), Creates(log, e, i)
        PROVE  \/ i <= cache[e].version
               \/ SetQueued(e)'
               \/ cache[e].version = 0 /\ ~ IsQueued(e)' /\ FirstOfDoc(log, e, i)
    <3>1. \/ i <= cache[e].version
          \/ SetQueued(e)
          \/ cache[e].version = 0 /\ ~ IsQueued(e) /\ FirstOfDoc(log, e, i)
      BY <1>0, <2>1 DEF CacheInv, CreationsKnown
    <3>2. CASE e = d
      BY <1>7, <1>9, <1>10, <3>1, <3>2
    <3>3. CASE e # d
      BY <1>7, <1>8, <3>1, <3>3
    <3> QED
      BY <3>2, <3>3
  <2> QED
    BY <1>2, <2>1 DEF CreationsKnown
<1> QED
  BY <1>4, <1>6, <1>11 DEF CacheInv

(* One more commit, whoever made it: what the log said before stays.       *)
LEMMA CacheCommit ==
  ASSUME SyncInv, NEW c \in Commit, log' = Append(log, c),
         UNCHANGED <<mutations, cache, remoteKeys, watched>>,
         /\ c.entry # NoDocument /\ TextIn(log, c.id, Len(log)) = NoDocument =>
              \/ SetQueued(c.id)
              \/ ~ OriginIn(log, c.id) /\ ~ IsQueued(c.id)
  PROVE  KeysExist' /\ CacheIsBackend' /\ KeysAreCached' /\ CreationsKnown'
<1>0. CoreInv /\ CacheInv /\ BaseInv /\ OriginInv
  BY DEF SyncInv, WriteInv, BaseInv
<1>1. /\ log \in Seq(Commit) /\ Len(log) \in Nat /\ Len(log') = Len(log) + 1
      /\ \A i \in 1 .. Len(log) : log'[i] = log[i]
      /\ log'[Len(log) + 1] = c
  BY <1>0, LenZero, AppendProperties DEF CoreInv, WriteTypes
<1>2. \A d, v : v \in 0 .. Len(log) => /\ TextIn(log', d, v) = TextIn(log, d, v)
                                       /\ LastIn(log', d, v) = LastIn(log, d, v)
  BY <1>1, TextInOld
<1>3. watched \in 0 .. Len(log)
  BY <1>0 DEF BaseInv, ViewTypes
<1>4. KeysExist' /\ KeysAreCached'
  BY <1>0, <1>2, <1>3 DEF CacheInv, KeysExist, KeysAreCached
<1>5. \A d \in DocIds : /\ cache[d].version \in 0 .. Len(log)
                        /\ cache[d].entry = TextIn(log, d, cache[d].version)
  BY <1>0 DEF CacheInv, CacheIsBackend
<1>6. \A v \in 0 .. Len(log) : v \in 0 .. Len(log')
  BY <1>1
<1>7. CacheIsBackend'
  BY <1>2, <1>5, <1>6 DEF CacheIsBackend
<1>8. ASSUME NEW d \in DocIds, NEW i \in 1 .. Len(log'), Creates(log', d, i)
      PROVE  \/ i <= cache[d].version
             \/ SetQueued(d)
             \/ cache[d].version = 0 /\ ~ IsQueued(d) /\ FirstOfDoc(log', d, i)
  <2>1. CASE Creates(log, d, i)
    <3>1. i \in 1 .. Len(log)
      BY <2>1 DEF Creates
    <3>2. ASSUME FirstOfDoc(log, d, i) PROVE FirstOfDoc(log', d, i)
      BY <1>1, <3>1, <3>2 DEF FirstOfDoc
    <3>3. CreationsKnown
      BY <1>0 DEF CacheInv
    <3>4. \/ i <= cache[d].version
          \/ SetQueued(d)
          \/ cache[d].version = 0 /\ ~ IsQueued(d) /\ FirstOfDoc(log, d, i)
      BY <2>1, <3>1, <3>3 DEF CreationsKnown
    <3> QED
      BY <3>2, <3>4
  <2>2. CASE ~ Creates(log, d, i)
    <3>1. /\ i = Len(log) + 1 /\ c.id = d /\ c.entry # NoDocument
          /\ TextIn(log, d, Len(log)) = NoDocument
      BY <1>1, <1>8, <2>2, CreatesAppend
    <3>2. SetQueued(d) \/ (~ OriginIn(log, d) /\ ~ IsQueued(d))
      BY <3>1
    <3>3. ASSUME ~ OriginIn(log, d)
          PROVE  cache[d].version = 0 /\ FirstOfDoc(log', d, i)
      <4>1. ~ (cache[d].version > 0) /\ cache[d].version \in Nat
        BY <1>0, <1>1, <1>5, <3>3 DEF OriginInv, CacheHasOrigin
      <4>2. \A k \in 1 .. Len(log') : log'[k].id = d => i <= k
        BY <1>1, <3>1, <3>3 DEF OriginIn
      <4> QED
        BY <4>1, <4>2 DEF FirstOfDoc
    <3> QED
      BY <3>2, <3>3
  <2> QED
    BY <2>1, <2>2
<1>9. CreationsKnown'
  BY <1>8 DEF CreationsKnown, SetQueued, IsQueued
<1> QED
  BY <1>4, <1>7, <1>9

(* A write of another device is news to the cache. *)
LEMMA CacheOtherDevice ==
  ASSUME SyncInv, NEW d \in DocIds, NEW delete \in BOOLEAN, OtherDevice(d, delete)
  PROVE  CacheInv'
<1>0. CoreInv /\ CacheInv /\ BaseInv
  BY DEF SyncInv, WriteInv, BaseInv
<1>1. PICK text \in Text :
        LET c == [id |-> d, entry |-> text, batch |-> 0] IN c \in Commit /\ log' = Append(log, c)
  BY <1>0, OtherDeviceFacts
<1> DEFINE c == [id |-> d, entry |-> text, batch |-> 0]
<1>2. c \in Commit /\ log' = Append(log, c) /\ c.id = d
  BY <1>1
<1> HIDE DEF c
<1>3. UNCHANGED <<mutations, cache, remoteKeys, watched, responses>>
  BY DEF OtherDevice, streamVars
<1>4. TextIn(log, d, Len(log)) = NoDocument => ~ OriginIn(log, d) /\ ~ IsQueued(d)
  BY <1>0, FreshFacts, BackendIsTextIn DEF OtherDevice, IsQueued
<1>5. KeysExist' /\ CacheIsBackend' /\ KeysAreCached' /\ CreationsKnown'
  BY <1>2, <1>3, <1>4, CacheCommit
<1>6. log \in Seq(Commit) /\ Len(log) \in Nat /\ Len(responses) \in Nat /\ Len(mutations) \in Nat
  BY <1>0, LenZero DEF CoreInv, WriteTypes
<1>7. \A i \in 1 .. Len(responses) : i \in 1 .. Len(mutations)
  BY <1>0, <1>6, FrontFacts, LenZero DEF CoreInv, WriteTypes
<1>8. ASSUME NEW i \in 1 .. Len(responses), mutations[i].type = "patch",
             responses[i].version # NotFound
      PROVE  TextIn(log', mutations[i].id, responses[i].version - 1) # NoDocument
  <2>1. Answered(log, responses[i].version, mutations[i])
    BY DEF SyncInv, WriteInv, HistoryInv, AnswerInv
  <2>2. responses[i].version \in 1 .. Len(log)
    BY <1>8, <2>1 DEF Answered
  <2>3. responses[i].version - 1 \in 0 .. Len(log)
    BY <1>6, <2>2
  <2>4. TextIn(log, mutations[i].id, responses[i].version - 1) # NoDocument
    BY <1>0, <1>8 DEF CacheInv, PatchesHadText
  <2> QED
    BY <1>2, <1>6, <2>3, <2>4, TextInOld
<1>9. PatchesHadText'
  BY <1>3, <1>8 DEF PatchesHadText
<1>10. ASSUME NEW i \in 1 .. Len(responses), mutations[i].type = "set",
              responses[i].version # NotFound, NEW k \in 1 .. Len(log'),
              Creates(log', mutations[i].id, k)
       PROVE  k <= responses[i].version
  <2>1. mutations[i].id = d => IsQueued(d)
    BY <1>7, <1>10 DEF IsQueued
  <2> DEFINE e == mutations[i].id
  <2>2. Creates(log, e, k)
    <3>1. Creates(log', e, k)
      BY <1>10
    <3> HIDE DEF e
    <3>2. Creates(log, e, k) \/ (c.id = e /\ TextIn(log, e, Len(log)) = NoDocument)
      BY <1>2, <1>6, <3>1, CreatesAppend
    <3> QED
      BY <1>2, <1>4, <2>1, <3>2 DEF e
  <2>3. k \in 1 .. Len(log)
    BY <2>2 DEF Creates
  <2> QED
    BY <1>0, <1>10, <2>2, <2>3 DEF CacheInv, SetsAreLast
<1>11. SetsAreLast'
  BY <1>3, <1>10 DEF SetsAreLast
<1> QED
  BY <1>5, <1>9, <1>11 DEF CacheInv

-----------------------------------------------------------------------------
(* The backend handles a write. *)

(* The backend commits the next write of the stream. *)
LEMMA CacheBackendCommits ==
  ASSUME SyncInv, BackendCommits
  PROVE  CacheInv'
<1> DEFINE m == Head(requests)
           n == Len(responses) + 1
           c == CommitOf(m)
<1>0. CoreInv /\ CacheInv /\ BaseInv /\ HistoryInv /\ requests # <<>> /\ ~ Ended
  BY DEF SyncInv, WriteInv, BaseInv, BackendCommits
<1>1. n \in 1 .. Len(mutations) /\ m = mutations[n] /\ m \in Mutation
  BY <1>0, HeadOfRequests
<1>2. /\ c \in Commit /\ log' = Append(log, c) /\ Len(log') = Len(log) + 1 /\ Len(log) \in Nat
      /\ responses' = Append(responses, [batch |-> m.batch, version |-> Len(log) + 1])
  BY <1>0, BackendCommitsFacts
<1>3. c.id = m.id /\ c.entry = TextOf(m)
  BY DEF CommitOf
<1>4. UNCHANGED <<mutations, cache, remoteKeys, watched>>
  BY DEF BackendCommits
<1>5. m.type = "patch" => TextIn(log, m.id, Len(log)) # NoDocument
  BY BackendIsTextIn DEF BackendCommits, IsValidFor
<1>6. /\ responses \in Seq(Response) /\ Len(responses) \in Nat /\ log \in Seq(Commit)
      /\ Len(mutations) \in Nat
  BY <1>0, LenZero DEF CoreInv, WriteTypes
<1>7. [batch |-> m.batch, version |-> Len(log) + 1] \in Response
  BY <1>1, <1>2, MutationType DEF Response
<1>8. /\ Len(responses') = n
      /\ \A i \in 1 .. Len(responses) : responses'[i] = responses[i]
      /\ responses'[n].version = Len(log) + 1
  BY <1>2, <1>6, <1>7, AppendProperties
<1> HIDE DEF m, c
<1>9. c.entry # NoDocument /\ TextIn(log, m.id, Len(log)) = NoDocument => m.type = "set"
  BY <1>1, <1>3, <1>5, MutationType, TextOfType
<1>10. KeysExist' /\ CacheIsBackend' /\ KeysAreCached' /\ CreationsKnown'
  <2>1. m.type = "set" => SetQueued(m.id)
    BY <1>1 DEF SetQueued
  <2> QED
    BY <1>2, <1>3, <1>4, <1>9, <2>1, CacheCommit
<1>11. \A i \in 1 .. n : i \in 1 .. Len(responses) \/ i = n
  BY <1>6
<1>12. ASSUME NEW i \in 1 .. n, mutations[i].type = "patch", responses'[i].version # NotFound
       PROVE  TextIn(log', mutations[i].id, responses'[i].version - 1) # NoDocument
  <2>1. CASE i \in 1 .. Len(responses)
    <3>1. Answered(log, responses[i].version, mutations[i])
      BY <1>0, <2>1 DEF HistoryInv, AnswerInv
    <3>2. responses[i].version \in 1 .. Len(log)
      BY <1>8, <1>12, <2>1, <3>1 DEF Answered
    <3>3. responses[i].version - 1 \in 0 .. Len(log)
      BY <1>2, <3>2
    <3>4. TextIn(log, mutations[i].id, responses[i].version - 1) # NoDocument
      BY <1>0, <1>8, <1>12, <2>1 DEF CacheInv, PatchesHadText
    <3> QED
      BY <1>2, <1>6, <1>8, <2>1, <3>3, <3>4, TextInOld
  <2>2. CASE i = n
    <3>1. responses'[i].version - 1 = Len(log) /\ Len(log) \in 0 .. Len(log)
      BY <1>2, <1>8, <2>2
    <3>2. TextIn(log, m.id, Len(log)) # NoDocument /\ m = mutations[i]
      BY <1>1, <1>5, <1>12, <2>2
    <3> QED
      BY <1>2, <1>6, <3>1, <3>2, TextInOld
  <2> QED
    BY <1>11, <2>1, <2>2
<1>13. PatchesHadText'
  BY <1>4, <1>8, <1>12 DEF PatchesHadText
<1>14. ASSUME NEW i \in 1 .. n, mutations[i].type = "set", responses'[i].version # NotFound,
              NEW k \in 1 .. Len(log'), Creates(log', mutations[i].id, k)
       PROVE  k <= responses'[i].version
  <2> DEFINE e == mutations[i].id
  <2>1. CASE i \in 1 .. Len(responses)
    <3>0. Creates(log', e, k)
      BY <1>14
    <3> HIDE DEF e
    <3>1. \/ Creates(log, e, k)
          \/ c.id = e /\ c.entry # NoDocument /\ TextIn(log, e, Len(log)) = NoDocument
      BY <1>2, <1>6, <3>0, CreatesAppend
    <3>2. m.type = "set" => m.id # e
      <4>1. i < n /\ i \in 1 .. Len(mutations)
        BY <1>1, <1>6, <2>1
      <4> QED
        BY <1>0, <1>1, <4>1 DEF HistoryInv, SetIsFirst, e
    <3>3. Creates(log, e, k)
      BY <1>3, <1>9, <3>1, <3>2
    <3>4. k \in 1 .. Len(log)
      BY <3>3 DEF Creates
    <3> QED
      BY <1>0, <1>8, <1>14, <2>1, <3>3, <3>4 DEF CacheInv, SetsAreLast, e
  <2>2. CASE i = n
    BY <1>2, <1>8, <2>2
  <2> QED
    BY <1>11, <2>1, <2>2
<1>15. SetsAreLast'
  BY <1>4, <1>8, <1>14 DEF SetsAreLast
<1> QED
  BY <1>10, <1>13, <1>15 DEF CacheInv

(* A refusal does not touch log or cache. *)
LEMMA CacheBackendRefuses ==
  ASSUME SyncInv, BackendRefuses
  PROVE  CacheInv'
<1> DEFINE r == [batch |-> Head(requests).batch, version |-> NotFound]
<1>0. CoreInv /\ CacheInv /\ requests # <<>> /\ ~ Ended
  BY DEF SyncInv, WriteInv, BaseInv, BackendRefuses
<1>1. Head(requests) \in Mutation
  BY <1>0, HeadOfRequests
<1>2. responses' = Append(responses, r) /\ UNCHANGED <<log, mutations, cache, remoteKeys, watched>>
  BY DEF BackendRefuses, backendVars
<1>3. r \in Response /\ r.version = NotFound
  BY <1>1, MutationType DEF Response, NotFound
<1>4. responses \in Seq(Response) /\ Len(responses) \in Nat
  BY <1>0, LenZero DEF CoreInv, WriteTypes
<1> HIDE DEF r
<1>5. /\ Len(responses') = Len(responses) + 1
      /\ \A i \in 1 .. Len(responses) : responses'[i] = responses[i]
      /\ responses'[Len(responses) + 1].version = NotFound
  BY <1>2, <1>3, <1>4, AppendProperties
<1>6. \A i \in 1 .. Len(responses') : i \in 1 .. Len(responses) \/ i = Len(responses) + 1
  BY <1>4, <1>5
<1>7. PatchesHadText' /\ SetsAreLast'
  BY <1>0, <1>2, <1>5, <1>6 DEF CacheInv, PatchesHadText, SetsAreLast
<1>8. KeysExist' /\ CacheIsBackend' /\ KeysAreCached' /\ CreationsKnown'
  BY <1>0, <1>2 DEF CacheInv, KeysExist, CacheIsBackend, KeysAreCached, CreationsKnown,
                    SetQueued, IsQueued
<1> QED
  BY <1>7, <1>8 DEF CacheInv

(* What an acknowledgement puts in the cache: nothing, or the version of   *)
(* the commit with the text that the commit left.                          *)
LEMMA AcknowledgedIsBackend ==
  ASSUME SyncInv, OnWriteStreamMutationResult
  PROVE  LET m == mutations[1]
             v == responses[1].version
         IN  /\ \A d \in DocIds : cache[d].version <= cache'[d].version
             /\ \A d \in DocIds : d # m.id => cache'[d] = cache[d]
             /\ v <= cache'[m.id].version
             /\ CacheIsBackend'
<1> DEFINE m == mutations[1]
           v == responses[1].version
<1>0. CoreInv /\ BaseInv /\ CacheInv /\ HistoryInv
  BY DEF SyncInv, WriteInv, BaseInv
<1>1. responses # <<>> /\ v # NotFound /\ log' = log
  BY <1>0, MutationResultFacts
<1>2. Head(pipeline) = m /\ m \in Mutation /\ Head(responses) = responses[1] /\ 1 \in 1 .. Len(responses)
  BY <1>0, <1>1, FrontFacts, AnswersTail
<1>3. cache' = ApplyBatchResult(m, v)
  BY <1>2 DEF OnWriteStreamMutationResult, HandleSuccessfulWrite, AcknowledgeBatch
<1>4. Answered(log, v, m) /\ log \in Seq(Commit) /\ Len(log) \in Nat
  BY <1>0, <1>2, LenZero DEF HistoryInv, AnswerInv, CoreInv, WriteTypes
<1>5. v \in 1 .. Len(log) /\ log[v] = CommitOf(m)
  BY <1>1, <1>4 DEF Answered
<1>6. log[v].id = m.id /\ log[v].entry = TextOf(m)
  BY <1>5 DEF CommitOf
<1>7. cache \in DocumentCache /\ m.id \in DocIds
  BY <1>0, <1>2, MutationType DEF BaseInv, ViewTypes
<1>8. \A d \in DocIds : /\ cache[d].version \in 0 .. Len(log)
                        /\ cache[d].entry = TextIn(log, d, cache[d].version)
  BY <1>0 DEF CacheInv, CacheIsBackend
<1>9. m.type = "patch" => TextIn(log, m.id, v - 1) # NoDocument
  BY <1>0, <1>1, <1>2 DEF CacheInv, PatchesHadText
<1>10. 1 \in 1 .. Len(mutations) /\ Len(mutations) \in Nat
  BY <1>0, <1>1, FrontFacts, LenZero DEF CoreInv, WriteTypes
<1>11. TextIn(log, m.id, v) = TextOf(m)
  <2>1. LastIn(log, m.id, v) = v
    BY <1>4, <1>5, <1>6, LastInUnique
  <2> QED
    BY <1>4, <1>5, <1>6, <2>1 DEF TextIn
<1>12. ASSUME cache[m.id].version < v PROVE IsValidFor(m, cache[m.id].entry)
  <2> DEFINE u == cache[m.id].version
  <2> SUFFICES ASSUME m.type = "patch", TextIn(log, m.id, u) = NoDocument PROVE FALSE
    BY <1>7, <1>8 DEF IsValidFor
  <2>1. u \in Nat /\ v - 1 \in u .. Len(log) /\ TextIn(log, m.id, v - 1) # NoDocument
    BY <1>4, <1>5, <1>7, <1>8, <1>9, <1>12
  <2> HIDE DEF u, m, v
  <2>2. PICK i \in u + 1 .. v - 1 : Creates(log, m.id, i)
    BY <1>4, <2>1, CreatedBetween
  <2>3. i \in 1 .. Len(log) /\ ~ i <= u
    BY <1>4, <1>5, <2>1, <2>2
  <2>4. SetQueued(m.id) \/ ~ IsQueued(m.id)
    BY <1>0, <1>7, <2>2, <2>3 DEF CacheInv, CreationsKnown, u
  <2>5. IsQueued(m.id)
    BY <1>10 DEF IsQueued, m
  <2>6. PICK j \in 1 .. Len(mutations) : mutations[j].id = m.id /\ mutations[j].type = "set"
    BY <2>4, <2>5 DEF SetQueued
  <2>7. j # 1
    BY <2>6 DEF m
  <2>8. 1 < j
    BY <1>10, <2>6, <2>7
  <2> QED
    BY <1>0, <1>10, <2>6, <2>8 DEF HistoryInv, SetIsFirst, m
<1>13. ASSUME NEW d \in DocIds, d # m.id PROVE cache'[d] = cache[d]
  BY <1>3, <1>7, <1>13 DEF ApplyBatchResult, DocumentCache
<1>14. CASE cache[m.id].version < v
  <2>1. cache'[m.id] = ApplyToRemoteDocument(m, cache[m.id], v)
    BY <1>3, <1>7, <1>14 DEF ApplyBatchResult, DocumentCache
  <2>2. cache'[m.id].version = v /\ cache'[m.id].entry = TextOf(m)
    BY <1>12, <1>14, <2>1 DEF ApplyToRemoteDocument
  <2> HIDE DEF m, v
  <2>3. \A d \in DocIds : cache[d].version <= cache'[d].version
    <3> SUFFICES ASSUME NEW d \in DocIds PROVE cache[d].version <= cache'[d].version
      OBVIOUS
    <3>1. cache[d].version \in Int
      BY <1>8
    <3>2. CASE d = m.id
      BY <1>5, <1>14, <2>2, <3>1, <3>2
    <3>3. CASE d # m.id
      BY <1>13, <3>1, <3>3
    <3> QED
      BY <3>2, <3>3
  <2>4. \A d \in DocIds : /\ cache'[d].version \in 0 .. Len(log)
                          /\ cache'[d].entry = TextIn(log, d, cache'[d].version)
    BY <1>4, <1>5, <1>8, <1>11, <1>13, <2>2
  <2>5. CacheIsBackend'
    BY <1>1, <2>4 DEF CacheIsBackend
  <2>6. v <= cache'[m.id].version
    BY <1>5, <2>2
  <2> QED
    BY <1>13, <2>3, <2>5, <2>6 DEF m, v
<1>15. CASE ~ cache[m.id].version < v
  <2>1. cache'[m.id] = cache[m.id]
    BY <1>3, <1>7, <1>15 DEF ApplyBatchResult, DocumentCache
  <2> HIDE DEF m, v
  <2>2. \A d \in DocIds : cache'[d] = cache[d]
    BY <1>13, <2>1
  <2>3. CacheIsBackend'
    BY <1>1, <1>8, <2>2 DEF CacheIsBackend
  <2>4. \A d \in DocIds : cache[d].version \in Int
    BY <1>8
  <2>5. v <= cache'[m.id].version
    BY <1>5, <1>7, <1>15, <2>1, <2>4
  <2>6. \A d \in DocIds : cache[d].version <= cache'[d].version
    BY <2>2, <2>4
  <2> QED
    BY <1>13, <2>3, <2>5, <2>6 DEF m, v
<1> QED
  BY <1>14, <1>15

-----------------------------------------------------------------------------
(* Answers. *)

(* The queue without its front. *)
LEMMA QueuedInTail ==
  ASSUME CoreInv, responses # <<>>, mutations' = Tail(mutations), NEW d
  PROVE  /\ SetQueued(d) => SetQueued(d)' \/ (mutations[1].id = d /\ mutations[1].type = "set")
         /\ ~ IsQueued(d) => ~ IsQueued(d)' /\ mutations[1].id # d
<1>1. /\ Len(mutations') = Len(mutations) - 1 /\ Len(mutations) \in Nat \ {0}
      /\ \A i \in 1 .. Len(mutations) - 1 : mutations'[i] = mutations[i + 1]
  BY FrontFacts, HeadTail DEF CoreInv, WriteTypes
<1>2. ASSUME SetQueued(d), ~ (mutations[1].id = d /\ mutations[1].type = "set")
      PROVE  SetQueued(d)'
  <2>1. PICK j \in 1 .. Len(mutations) : mutations[j].id = d /\ mutations[j].type = "set"
    BY <1>2 DEF SetQueued
  <2>2. j - 1 \in 1 .. Len(mutations) - 1 /\ (j - 1) + 1 = j
    <3>1. j # 1
      BY <1>2, <2>1
    <3> QED
      BY <1>1, <3>1
  <2>3. mutations'[j - 1] = mutations[j]
    BY <1>1, <2>2
  <2> QED
    BY <1>1, <2>1, <2>2, <2>3 DEF SetQueued
<1>3. ASSUME ~ IsQueued(d) PROVE ~ IsQueued(d)' /\ mutations[1].id # d
  <2>1. \A j \in 1 .. Len(mutations) - 1 : j + 1 \in 1 .. Len(mutations)
    BY <1>1
  <2>2. 1 \in 1 .. Len(mutations)
    BY <1>1
  <2> QED
    BY <1>1, <1>3, <2>1, <2>2 DEF IsQueued
<1> QED
  BY <1>2, <1>3

(* An acknowledgement writes to the cache what the backend committed. *)
LEMMA CacheMutationResult ==
  ASSUME SyncInv, OnWriteStreamMutationResult
  PROVE  CacheInv'
<1> DEFINE m == mutations[1]
           v == responses[1].version
<1>0. CoreInv /\ BaseInv /\ CacheInv
  BY DEF SyncInv, WriteInv, BaseInv
<1>1. /\ responses # <<>> /\ v # NotFound /\ log' = log
      /\ mutations' = Tail(mutations) /\ responses' = Tail(responses)
  BY <1>0, MutationResultFacts
<1>2. UNCHANGED <<remoteKeys, watched>>
  BY DEF OnWriteStreamMutationResult
<1>3. /\ \A d \in DocIds : cache[d].version <= cache'[d].version
      /\ \A d \in DocIds : d # m.id => cache'[d] = cache[d]
      /\ v <= cache'[m.id].version
      /\ CacheIsBackend'
  BY AcknowledgedIsBackend
<1>4. /\ Len(responses) \in Nat \ {0} /\ Len(mutations) \in Nat \ {0}
      /\ Len(responses) <= Len(mutations)
      /\ Len(responses') = Len(responses) - 1
      /\ \A i \in 1 .. Len(responses) - 1 : responses'[i] = responses[i + 1]
      /\ \A i \in 1 .. Len(mutations) - 1 : mutations'[i] = mutations[i + 1]
      /\ Len(mutations) - 1 = Len(mutations')
  BY <1>0, <1>1, FrontFacts, AnswersTail, HeadTail, LenZero DEF CoreInv, WriteTypes
<1>5. \A d \in DocIds : /\ cache[d].version \in Nat /\ cache'[d].version \in Nat
                        /\ LastIn(log, d, watched) \in Nat
  <2>1. watched \in Nat
    BY <1>0, LenZero DEF BaseInv, ViewTypes, CoreInv, WriteTypes
  <2>2. \A d \in DocIds : cache[d].version \in Nat /\ cache'[d].version \in Nat
    BY <1>0, <1>3 DEF CacheInv, CacheIsBackend
  <2>3. \A d \in DocIds : LastIn(log, d, watched) \in Nat
    BY <2>1, LastInFacts
  <2> QED
    BY <2>2, <2>3
<1>6. m \in Mutation /\ m.id \in DocIds /\ m.type \in {"set", "patch", "delete"}
  BY <1>0, <1>1, FrontFacts, MutationType
<1>7. KeysExist'
  BY <1>0, <1>1, <1>2 DEF CacheInv, KeysExist
<1>8. KeysAreCached'
  <2>1. ASSUME NEW d \in remoteKeys PROVE LastIn(log, d, watched) <= cache'[d].version
    <3>1. d \in DocIds
      BY <1>0 DEF BaseInv, ViewTypes
    <3>2. LastIn(log, d, watched) <= cache[d].version
      BY <1>0 DEF CacheInv, KeysAreCached
    <3>3. cache[d].version <= cache'[d].version
      BY <1>3, <3>1
    <3> QED
      BY <1>5, <3>1, <3>2, <3>3
  <2> QED
    BY <1>1, <1>2, <2>1 DEF KeysAreCached
<1>9. \A i \in 1 .. Len(responses) - 1 :
        /\ i + 1 \in 1 .. Len(responses)
        /\ mutations'[i] = mutations[i + 1] /\ responses'[i] = responses[i + 1]
  <2>1. ASSUME NEW i \in 1 .. Len(responses) - 1
        PROVE  i + 1 \in 1 .. Len(responses) /\ i \in 1 .. Len(mutations) - 1
    BY <1>4
  <2> QED
    BY <1>4, <2>1
<1>10. PatchesHadText' /\ SetsAreLast'
  <2>1. PatchesHadText /\ SetsAreLast
    BY <1>0 DEF CacheInv
  <2>2. PatchesHadText'
    BY <1>1, <1>4, <1>9, <2>1 DEF PatchesHadText
  <2>3. SetsAreLast'
    BY <1>1, <1>4, <1>9, <2>1 DEF SetsAreLast
  <2> QED
    BY <2>2, <2>3
<1>11. ASSUME NEW d \in DocIds, NEW i \in 1 .. Len(log), Creates(log, d, i)
       PROVE  \/ i <= cache'[d].version
              \/ SetQueued(d)'
              \/ cache'[d].version = 0 /\ ~ IsQueued(d)' /\ FirstOfDoc(log, d, i)
  <2>1. CASE i <= cache[d].version
    <3>1. cache[d].version <= cache'[d].version
      BY <1>3
    <3> QED
      BY <1>5, <2>1, <3>1
  <2>2. CASE SetQueued(d)
    <3>1. CASE m.id = d /\ m.type = "set"
      <4>1. 1 \in 1 .. Len(responses)
        BY <1>4
      <4>2. i <= v
        BY <1>0, <1>1, <1>11, <3>1, <4>1 DEF CacheInv, SetsAreLast
      <4>3. v <= cache'[d].version
        BY <1>3, <3>1
      <4>4. v \in Nat
        BY <1>0, <1>1, AnswersTail DEF Response
      <4> HIDE DEF v
      <4> QED
        BY <1>5, <4>2, <4>3, <4>4
    <3>2. CASE ~ (m.id = d /\ m.type = "set")
      BY <1>0, <1>1, <2>2, <3>2, QueuedInTail
    <3> QED
      BY <3>1, <3>2
  <2>3. CASE cache[d].version = 0 /\ ~ IsQueued(d) /\ FirstOfDoc(log, d, i)
    <3>1. ~ IsQueued(d)' /\ m.id # d
      BY <1>0, <1>1, <2>3, QueuedInTail
    <3> QED
      BY <1>3, <2>3, <3>1
  <2> QED
    BY <1>0, <1>11, <2>1, <2>2, <2>3 DEF CacheInv, CreationsKnown
<1>12. CreationsKnown'
  BY <1>1, <1>11 DEF CreationsKnown
<1> QED
  BY <1>3, <1>7, <1>8, <1>10, <1>12 DEF CacheInv

(* A refused batch leaves the queue; the cache does not change. *)
LEMMA CacheWriteError ==
  ASSUME SyncInv, HandleWriteError
  PROVE  CacheInv'
<1>0. CoreInv /\ BaseInv /\ CacheInv /\ HistoryInv
  BY DEF SyncInv, WriteInv, BaseInv
<1>1. /\ responses # <<>> /\ responses[1].version = NotFound /\ UNCHANGED <<log, cache>>
      /\ mutations' = Tail(mutations) /\ responses' = <<>>
  BY <1>0, WriteErrorFacts
<1>2. UNCHANGED <<remoteKeys, watched>>
  BY DEF HandleWriteError
<1>3. KeysExist' /\ CacheIsBackend' /\ KeysAreCached'
  BY <1>0, <1>1, <1>2 DEF CacheInv, KeysExist, CacheIsBackend, KeysAreCached
<1>4. PatchesHadText' /\ SetsAreLast'
  BY <1>1 DEF PatchesHadText, SetsAreLast
<1>5. mutations[1].type = "patch"
  <2>1. 1 \in 1 .. Len(responses)
    BY <1>0, <1>1, FrontFacts
  <2> QED
    BY <1>0, <1>1, <2>1 DEF HistoryInv, AnswerInv, Answered
<1>6. \A d : (SetQueued(d) => SetQueued(d)') /\ (~ IsQueued(d) => ~ IsQueued(d)')
  BY <1>0, <1>1, <1>5, QueuedInTail
<1>7. CreationsKnown'
  BY <1>0, <1>1, <1>6 DEF CacheInv, CreationsKnown
<1> QED
  BY <1>3, <1>4, <1>7 DEF CacheInv

-----------------------------------------------------------------------------
(* The watch stream. *)

(* What the news of the watch stream leaves in the cache. *)
LEMMA RemoteEventCache ==
  ASSUME SyncInv, NEW updates, NEW keys,
         \A d \in DOMAIN updates :
           /\ updates[d] \in 0 .. Len(log)
           /\ updates[d] # 0 => \/ log[updates[d]].id = d
                                \/ cache[d].version > 0
                                \/ IsQueued(d),
         ApplyRemoteEvent(updates, keys)
  PROVE  /\ \A d \in DocIds : cache[d].version <= cache'[d].version
         /\ \A d \in DocIds : d \in DOMAIN updates => updates[d] <= cache'[d].version
         /\ CacheIsBackend' /\ PatchesHadText' /\ SetsAreLast' /\ CreationsKnown'
<1>0. CoreInv /\ BaseInv /\ CacheInv
  BY DEF SyncInv, WriteInv, BaseInv
<1>1. UNCHANGED <<log, mutations, responses>>
  BY DEF ApplyRemoteEvent, backendVars, streamVars
<1>2. cache' = [d \in DocIds |-> IF d \in DOMAIN updates THEN WatchUpdate(d, updates[d])
                                                         ELSE cache[d]]
  BY DEF ApplyRemoteEvent
<1>3. \A d \in DocIds : /\ cache[d].version \in 0 .. Len(log)
                        /\ cache[d].entry = TextIn(log, d, cache[d].version)
  BY <1>0 DEF CacheInv, CacheIsBackend
<1>4. Len(log) \in Nat
  BY <1>0, LenZero DEF CoreInv, WriteTypes
<1>5. ASSUME NEW d \in DocIds
      PROVE  /\ cache[d].version <= cache'[d].version
             /\ d \in DOMAIN updates => updates[d] <= cache'[d].version
             /\ cache'[d].version \in 0 .. Len(log)
             /\ cache'[d].entry = TextIn(log, d, cache'[d].version)
             /\ \/ cache'[d].version = cache[d].version
                \/ d \in DOMAIN updates /\ cache'[d].version = updates[d]
  <2>1. CASE d \notin DOMAIN updates
    <3>1. cache'[d] = cache[d]
      BY <1>2, <2>1
    <3> QED
      BY <1>3, <1>4, <2>1, <3>1
  <2>2. CASE d \in DOMAIN updates
    <3> DEFINE u == updates[d]
    <3>1. cache'[d] = WatchUpdate(d, u) /\ u \in 0 .. Len(log)
      BY <1>2, <2>2
    <3> HIDE DEF u
    <3>2. CASE cache'[d] = cache[d]
      <4>1. CASE cache[d].version < u
        <5>1. cache'[d].version = u
          BY <3>1, <4>1 DEF WatchUpdate
        <5> QED
          BY <1>3, <1>4, <3>1, <3>2, <4>1, <5>1
      <4>2. CASE ~ cache[d].version < u
        BY <1>3, <1>4, <3>1, <3>2, <4>2 DEF u
      <4> QED
        BY <4>1, <4>2
    <3>3. CASE cache'[d] # cache[d]
      <4>1. /\ cache[d].version < u \/ cache[d].version = u
            /\ cache'[d] = [entry |-> Backend(d, u), version |-> u, committed |-> FALSE]
        BY <3>1, <3>3 DEF WatchUpdate
      <4>2. cache'[d].version = u /\ cache'[d].entry = TextIn(log, d, u)
        BY <4>1, BackendIsTextIn
      <4> QED
        BY <1>3, <1>4, <2>2, <3>1, <4>1, <4>2 DEF u
    <3> QED
      BY <3>2, <3>3
  <2> QED
    BY <2>1, <2>2
<1>6. CacheIsBackend'
  BY <1>1, <1>5 DEF CacheIsBackend
<1>7. PatchesHadText' /\ SetsAreLast'
  BY <1>0, <1>1 DEF CacheInv, PatchesHadText, SetsAreLast
<1>8. ASSUME NEW d \in DocIds, NEW i \in 1 .. Len(log), Creates(log, d, i)
      PROVE  \/ i <= cache'[d].version
             \/ SetQueued(d)
             \/ cache'[d].version = 0 /\ ~ IsQueued(d) /\ FirstOfDoc(log, d, i)
  <2>1. CASE i <= cache[d].version
    <3>1. cache[d].version <= cache'[d].version /\ cache'[d].version \in Nat
      BY <1>5
    <3> QED
      BY <1>3, <2>1, <3>1
  <2>2. CASE cache[d].version = 0 /\ ~ IsQueued(d) /\ FirstOfDoc(log, d, i)
    <3>1. CASE cache'[d].version = 0
      BY <2>2, <3>1
    <3>2. CASE cache'[d].version # 0
      <4>1. d \in DOMAIN updates /\ cache'[d].version = updates[d]
        BY <1>5, <2>2, <3>2
      <4>2. log[updates[d]].id = d /\ updates[d] \in 1 .. Len(log)
        BY <1>4, <2>2, <3>2, <4>1
      <4>3. i <= updates[d]
        BY <2>2, <4>2 DEF FirstOfDoc
      <4> QED
        BY <4>1, <4>3
    <3> QED
      BY <3>1, <3>2
  <2> QED
    BY <1>0, <1>8, <2>1, <2>2 DEF CacheInv, CreationsKnown
<1>9. CreationsKnown'
  BY <1>1, <1>8 DEF CreationsKnown, SetQueued, IsQueued
<1> QED
  BY <1>5, <1>6, <1>7, <1>9

(* A snapshot of the watch stream, or a new listing of the target. *)
LEMMA CacheSnapshot ==
  ASSUME SyncInv, NEW v \in watched .. Len(log), WatchSnapshot(v) \/ WatchListing(v)
  PROVE  CacheInv' /\ \A d \in DocIds : cache[d].version <= cache'[d].version
<1>0. CoreInv /\ BaseInv /\ CacheInv
  BY DEF SyncInv, WriteInv, BaseInv
<1>1. /\ Len(log) \in Nat /\ watched \in 0 .. Len(log) /\ watched \in Nat
      /\ v \in 0 .. Len(log) /\ v \in Nat /\ watched <= v
  BY <1>0, LenZero DEF BaseInv, ViewTypes, CoreInv, WriteTypes
<1> DEFINE changed == {d \in DocIds : LastIn(log, d, v) > watched}
           there == {d \in DocIds : TextIn(log, d, v) # NoDocument}
<1>2. ASSUME NEW d \in DocIds, d \notin changed
      PROVE  /\ LastIn(log, d, watched) = LastIn(log, d, v)
             /\ TextIn(log, d, watched) = TextIn(log, d, v)
  <2>1. LastIn(log, d, v) \in 0 .. v /\ ~ LastIn(log, d, v) > watched
    BY <1>1, <1>2, LastInFacts
  <2>2. LastIn(log, d, v) <= watched
    BY <1>1, <2>1
  <2> QED
    BY <1>1, <2>2, TextInStays
<1>3. PICK reported \in SUBSET DocIds :
        /\ RaiseWatchSnapshot(v, reported, there)
        /\ \A d \in there : d \in reported \/ (d \notin changed /\ d \in remoteKeys)
  <2>1. CASE WatchSnapshot(v)
    <3>1. RaiseWatchSnapshot(v, changed, (remoteKeys \ changed) \cup (changed \cap there))
      BY <2>1, BackendIsTextIn DEF WatchSnapshot, Existing
    <3>2. (remoteKeys \ changed) \cup (changed \cap there) = there
      BY <1>0, <1>2 DEF CacheInv, KeysExist
    <3>3. \A d \in there : d \in changed \/ (d \notin changed /\ d \in remoteKeys)
      BY <3>2
    <3> HIDE DEF there
    <3> QED
      BY <3>1, <3>2, <3>3
  <2>2. CASE WatchListing(v)
    <3>1. there = Existing(v)
      BY BackendIsTextIn DEF Existing
    <3>2. RaiseWatchSnapshot(v, there, there)
      BY <2>2, <3>1 DEF WatchListing
    <3> QED
      BY <3>2
  <2> QED
    BY <2>1, <2>2
<1> DEFINE updates == [d \in reported |-> LastCommit(d, v)]
<1>4. ApplyRemoteEvent(updates, there) /\ watched' = v
  BY <1>3 DEF RaiseWatchSnapshot
<1>5. remoteKeys' = there /\ log' = log
  BY <1>4 DEF ApplyRemoteEvent, backendVars
<1>6. DOMAIN updates = reported /\ \A d \in reported : updates[d] = LastIn(log, d, v)
  BY BackendIsTextIn
<1> HIDE DEF updates, changed, there
<1>7. ASSUME NEW d \in DOMAIN updates
      PROVE  /\ updates[d] \in 0 .. Len(log)
             /\ updates[d] # 0 => log[updates[d]].id = d
  BY <1>1, <1>6, <1>7, LastInFacts
<1>8. /\ \A d \in DocIds : cache[d].version <= cache'[d].version
      /\ \A d \in DocIds : d \in DOMAIN updates => updates[d] <= cache'[d].version
      /\ CacheIsBackend' /\ PatchesHadText' /\ SetsAreLast' /\ CreationsKnown'
  BY <1>4, <1>7, RemoteEventCache
<1>9. KeysExist'
  BY <1>4, <1>5 DEF KeysExist, there
<1>10. ASSUME NEW d \in there PROVE LastIn(log, d, v) <= cache'[d].version
  <2>0. d \in DocIds
    BY DEF there
  <2>1. CASE d \in reported
    BY <1>6, <1>8, <2>0, <2>1
  <2>2. CASE d \notin changed /\ d \in remoteKeys
    <3>1. LastIn(log, d, v) <= cache[d].version
      BY <1>0, <1>2, <2>0, <2>2 DEF CacheInv, KeysAreCached
    <3>2. cache[d].version <= cache'[d].version
      BY <1>8, <2>0
    <3>3. cache[d].version \in Int /\ cache'[d].version \in Int
      BY <1>0, <1>8, <2>0 DEF CacheInv, CacheIsBackend
    <3>4. LastIn(log, d, v) \in Int
      BY <1>1, LastInFacts
    <3> QED
      BY <3>1, <3>2, <3>3, <3>4
  <2> QED
    BY <1>3, <2>1, <2>2
<1>11. KeysAreCached'
  BY <1>4, <1>5, <1>10 DEF KeysAreCached
<1> QED
  BY <1>8, <1>9, <1>11 DEF CacheInv

(* The answer about a document in limbo. *)
LEMMA CacheResolveLimbo ==
  ASSUME SyncInv, NEW d \in DocIds, ResolveLimbo(d)
  PROVE  CacheInv' /\ \A k \in DocIds : cache[k].version <= cache'[k].version
<1>0. CoreInv /\ BaseInv /\ CacheInv /\ ViewInv /\ OriginInv
  BY DEF SyncInv, WriteInv, BaseInv
<1>1. /\ Len(log) \in Nat /\ watched \in 0 .. Len(log) /\ watched \in Nat
  BY <1>0, LenZero DEF BaseInv, ViewTypes, CoreInv, WriteTypes
<1> DEFINE u == IF d \in Existing(watched) THEN LastCommit(d, watched) ELSE watched
           updates == [k \in {d} |-> u]
<1>2. /\ ApplyRemoteEvent(updates, remoteKeys) /\ d \in limbo /\ current /\ signedIn
      /\ watched' = watched
  BY DEF ResolveLimbo, ApplyRemoteEvent
<1>3. view[d].entry # NoDocument /\ ~ view[d].local
  BY <1>0, <1>2 DEF ViewInv, LimboIsExact, ShouldBeInLimbo
<1>4. cache[d].version > 0 \/ IsQueued(d)
  <2>1. SUFFICES ASSUME ~ IsQueued(d) PROVE cache[d].version > 0
    OBVIOUS
  <2>2. \A i \in 1 .. Len(ActiveQueue) : ActiveQueue[i].id # d
    BY <1>2, <2>1 DEF ActiveQueue, IsQueued
  <2>3. cache[d].entry # NoDocument
    BY <1>0, <1>3, <2>2 DEF ViewInv, ViewIsCache
  <2> QED
    BY <1>0, <2>3 DEF OriginInv, CacheHasOrigin
<1>5. u \in 0 .. Len(log)
  <2>1. LastCommit(d, watched) \in 0 .. watched
    BY <1>1, LastCommitType
  <2> QED
    BY <1>1, <2>1
<1> HIDE DEF u
<1>6. \A k \in DOMAIN updates :
        updates[k] \in 0 .. Len(log) /\ (cache[k].version > 0 \/ IsQueued(k))
  BY <1>4, <1>5
<1> HIDE DEF updates
<1>7. /\ \A k \in DocIds : cache[k].version <= cache'[k].version
      /\ CacheIsBackend' /\ PatchesHadText' /\ SetsAreLast' /\ CreationsKnown'
  BY <1>2, <1>6, RemoteEventCache
<1>8. UNCHANGED <<remoteKeys, log>>
  BY <1>2 DEF ApplyRemoteEvent, backendVars
<1>9. KeysExist'
  BY <1>0, <1>2, <1>8 DEF CacheInv, KeysExist
<1>10. ASSUME NEW k \in remoteKeys PROVE LastIn(log, k, watched) <= cache'[k].version
  <2>0. k \in DocIds
    BY <1>0 DEF BaseInv, ViewTypes
  <2>1. LastIn(log, k, watched) <= cache[k].version /\ cache[k].version <= cache'[k].version
    BY <1>0, <1>7, <2>0 DEF CacheInv, KeysAreCached
  <2>2. /\ cache[k].version \in Int /\ cache'[k].version \in Int
        /\ LastIn(log, k, watched) \in Int
    BY <1>0, <1>1, <1>7, <2>0, LastInFacts DEF CacheInv, CacheIsBackend
  <2> QED
    BY <2>1, <2>2
<1>11. KeysAreCached'
  BY <1>2, <1>8, <1>10 DEF KeysAreCached
<1> QED
  BY <1>7, <1>9, <1>11 DEF CacheInv

-----------------------------------------------------------------------------
(* The synced view. *)

(* Every step keeps the invariant. *)
LEMMA SyncInvStep ==
  ASSUME SyncInv, [Next]_vars
  PROVE  SyncInv'
<1>0. CoreInv /\ BaseInv /\ WriteInv /\ CacheInv /\ ViewInv
  BY DEF SyncInv, WriteInv, BaseInv
<1>1. WriteInv'
  BY <1>0, WriteInvStep
<1>2. BaseInv' /\ CoreInv' /\ mutations' \in Seq(Mutation) /\ mutations \in Seq(Mutation)
      /\ <<>> \in Seq(Mutation) /\ ActiveQueue \in Seq(Mutation)
  BY <1>0, <1>1, ActiveQueueType DEF WriteInv, BaseInv, CoreInv, WriteTypes
<1>3. ASSUME NEW d \in DocIds, SaveNew(d) \/ SaveEdited(d) \/ DeleteJournal(d)
      PROVE  CacheInv' /\ ViewInv'
  <2>1. \E type : WriteMutations(type, d)
    BY <1>3 DEF SaveNew, SaveEdited, DeleteJournal
  <2>2. /\ EmitNewSnapshots(cache', mutations', remoteKeys', current)
        /\ ActiveQueue' = mutations'
    BY <2>1 DEF WriteMutations, ActiveQueue
  <2>3. ViewInv'
    BY <1>0, <1>2, <2>2, ViewEmit
  <2> QED
    BY <1>3, <2>3, CacheWrite
<1>4. ASSUME OnWriteStreamHandshakeComplete
      PROVE  CacheInv' /\ ViewInv'
  BY <1>0, <1>4, CacheUnchanged, ViewUnchanged
     DEF OnWriteStreamHandshakeComplete, backendVars, viewVars
<1>5. ASSUME OnWriteStreamMutationResult
      PROVE  CacheInv' /\ ViewInv'
  <2>1. /\ EmitNewSnapshots(cache', mutations', remoteKeys', current)
        /\ signedIn' = signedIn
    BY <1>5 DEF OnWriteStreamMutationResult, HandleSuccessfulWrite
  <2>2. ActiveQueue' = mutations'
    BY <1>0, <1>5, <2>1, MutationResultFacts DEF ActiveQueue
  <2> QED
    BY <1>0, <1>2, <1>5, <2>1, <2>2, ViewEmit, CacheMutationResult
<1>6. ASSUME HandleWriteError
      PROVE  CacheInv' /\ ViewInv'
  <2>1. /\ EmitNewSnapshots(cache', mutations', remoteKeys', current)
        /\ signedIn' = signedIn
    BY <1>6 DEF HandleWriteError, HandleRejectedWrite, RejectBatch
  <2>2. ActiveQueue' = mutations'
    BY <1>0, <1>6, <2>1, WriteErrorFacts DEF ActiveQueue
  <2> QED
    BY <1>0, <1>2, <1>6, <2>1, <2>2, ViewEmit, CacheWriteError
<1>7. ASSUME BackendHandles
      PROVE  CacheInv' /\ ViewInv'
  <2>1. UNCHANGED <<view, cache, mutations, signedIn, remoteKeys, current, limbo>>
    BY <1>7 DEF BackendHandles, BackendCommits, BackendRefuses, viewVars
  <2> QED
    BY <1>0, <1>7, <2>1, ViewUnchanged, CacheBackendCommits, CacheBackendRefuses
       DEF BackendHandles
<1>8. ASSUME OnWriteStreamClose
      PROVE  CacheInv' /\ ViewInv'
  BY <1>0, <1>8, CacheUnchanged, ViewUnchanged
     DEF OnWriteStreamClose, LoseStream, backendVars, viewVars
<1>9. ASSUME NEW v \in watched .. Len(log), WatchSnapshot(v) \/ WatchListing(v)
      PROVE  CacheInv' /\ ViewInv'
  <2>1. \E updates, keys : ApplyRemoteEvent(updates, keys)
    BY <1>9 DEF WatchSnapshot, WatchListing, RaiseWatchSnapshot
  <2>2. /\ EmitNewSnapshots(cache', mutations, remoteKeys', TRUE)
        /\ ActiveQueue' = mutations
    <3>1. PICK updates, keys : ApplyRemoteEvent(updates, keys)
      BY <2>1
    <3>2. EmitNewSnapshots(cache', mutations, keys, TRUE) /\ remoteKeys' = keys
      BY <3>1 DEF ApplyRemoteEvent
    <3>3. ActiveQueue' = mutations
      BY <3>1 DEF ApplyRemoteEvent, ActiveQueue
    <3> QED
      BY <3>2, <3>3
  <2> QED
    BY <1>0, <1>2, <1>9, <2>2, ViewEmit, CacheSnapshot
<1>10. ASSUME NEW d \in DocIds, ResolveLimbo(d)
       PROVE  CacheInv' /\ ViewInv'
  <2>1. \E updates, keys : ApplyRemoteEvent(updates, keys)
    BY <1>10 DEF ResolveLimbo
  <2>2. /\ EmitNewSnapshots(cache', mutations, remoteKeys', TRUE)
        /\ ActiveQueue' = mutations
    <3>1. PICK updates, keys : ApplyRemoteEvent(updates, keys)
      BY <2>1
    <3>2. EmitNewSnapshots(cache', mutations, keys, TRUE) /\ remoteKeys' = keys
      BY <3>1 DEF ApplyRemoteEvent
    <3>3. ActiveQueue' = mutations
      BY <3>1 DEF ApplyRemoteEvent, ActiveQueue
    <3> QED
      BY <3>2, <3>3
  <2> QED
    BY <1>0, <1>2, <1>10, <2>2, ViewEmit, CacheResolveLimbo
<1>11. ASSUME GoOffline
       PROVE  CacheInv' /\ ViewInv'
  <2>1. /\ EmitNewSnapshots(cache', ActiveQueue, remoteKeys', FALSE)
        /\ UNCHANGED <<log, mutations, cache, remoteKeys, watched, signedIn>>
        /\ responses' = responses /\ ActiveQueue' = ActiveQueue
    BY <1>11 DEF GoOffline, backendVars, streamVars, ActiveQueue
  <2> QED
    BY <1>0, <1>2, <2>1, ViewEmit, CacheUnchanged
<1>12. ASSUME Restart \/ SignOut \/ SignIn
       PROVE  CacheInv' /\ ViewInv'
  <2>1. /\ UNCHANGED <<log, mutations, cache, remoteKeys, watched>> /\ responses' = <<>>
    BY <1>12 DEF Restart, SignOut, SignIn, RestartStreams, LoseStream, backendVars
  <2>2. \E queue \in Seq(Mutation) :
          /\ ActiveQueue' = queue
          /\ \/ EmitNewSnapshots(cache', queue, remoteKeys', current)
             \/ InitializeView(queue)
    <3>1. CASE Restart
      <4>1. ActiveQueue' = ActiveQueue /\ InitializeView(ActiveQueue)
        BY <2>1, <3>1 DEF Restart, ActiveQueue
      <4> QED
        BY <1>2, <4>1
    <3>2. CASE SignOut
      <4>1. ActiveQueue' = <<>> /\ EmitNewSnapshots(cache, <<>>, remoteKeys, current)
        BY <3>2 DEF SignOut, ActiveQueue
      <4> QED
        BY <1>2, <2>1, <4>1
    <3>3. CASE SignIn
      <4>1. /\ ActiveQueue' = mutations
            /\ EmitNewSnapshots(cache, mutations, remoteKeys, current) \/ InitializeView(mutations)
        BY <2>1, <3>3 DEF SignIn, ActiveQueue
      <4> QED
        BY <1>2, <2>1, <4>1
    <3> QED
      BY <1>12, <3>1, <3>2, <3>3
  <2> QED
    BY <1>0, <1>2, <2>1, <2>2, ViewEmit, CacheUnchanged
<1>13. ASSUME NEW d \in DocIds, NEW delete \in BOOLEAN, OtherDevice(d, delete)
       PROVE  CacheInv' /\ ViewInv'
  <2>1. UNCHANGED <<view, cache, mutations, signedIn, remoteKeys, current, limbo>>
    BY <1>13 DEF OtherDevice, viewVars
  <2> QED
    BY <1>0, <1>13, <2>1, ViewUnchanged, CacheOtherDevice
<1>14. ASSUME UNCHANGED vars
       PROVE  CacheInv' /\ ViewInv'
  BY <1>0, <1>14, CacheUnchanged, ViewUnchanged DEF vars, backendVars, viewVars, streamVars
<1>15. CacheInv' /\ ViewInv'
  BY <1>3, <1>4, <1>5, <1>6, <1>7, <1>8, <1>9, <1>10, <1>11, <1>12, <1>13, <1>14
     DEF Next, WriteStream
<1> QED
  BY <1>1, <1>15 DEF SyncInv

(* The invariant of the view holds always. *)
LEMMA SyncInvAlways == Spec => []SyncInv
<1>1. Init => SyncInv
  BY BaseInvInit, HistoryInit, OriginInit, CacheInit, ViewInit DEF WriteInv, SyncInv
<1> QED
  BY <1>1, SyncInvStep, PTL DEF Spec

(***************************************************************************)
(* A view that calls itself synced shows, for every journal without a      *)
(* write of this device under way, a text the backend had at the last      *)
(* snapshot of the watch stream or later; never one from before it,        *)
(* however snapshots, listings, limbo resolutions, acknowledgements and    *)
(* restarts were interleaved.                                              *)
(***************************************************************************)
THEOREM SyncedViewShowsBackend == Spec => []SyncedViewIsBackend
BY SyncInvAlways, SyncedViewFollows, PTL

-----------------------------------------------------------------------------
(* The text the queue makes of a cached document. *)

(* The text of a document under a queue, step by step. *)
EntryStep(d, m, entry) == IF m.id = d /\ IsValidFor(m, entry) THEN TextOf(m) ELSE entry

(* f is the run of texts of document d through the queue. *)
Runs(f, d, entry, queue) ==
  /\ f \in [0 .. Len(queue) -> Text]
  /\ f[0] = entry
  /\ \A n \in 1 .. Len(queue) : f[n] = EntryStep(d, queue[n], f[n - 1])

(* The text of a local document is the end of its run. *)
LEMMA LocalEntry ==
  ASSUME NEW d \in DocIds, NEW cached \in CachedDocument, NEW queue \in Seq(Mutation)
  PROVE  \E f : Runs(f, d, cached.entry, queue)
                /\ LocalDocument(d, cached, queue).entry = f[Len(queue)]
<1>1. PICK g \in [0 .. Len(queue) -> LocalDoc] :
        /\ g[0] = Base(cached)
        /\ \A n \in 1 .. Len(queue) : g[n] = Applied(d, queue[n], g[n - 1])
        /\ LocalDocument(d, cached, queue) = g[Len(queue)]
  BY LocalDocumentDef
<1> DEFINE f == [n \in 0 .. Len(queue) |-> g[n].entry]
<1>0. Len(queue) \in Nat
  BY LenZero
<1>2. f \in [0 .. Len(queue) -> Text]
  BY <1>1 DEF LocalDoc
<1>3. f[0] = cached.entry
  BY <1>0, <1>1 DEF Base
<1>4. ASSUME NEW n \in 1 .. Len(queue) PROVE f[n] = EntryStep(d, queue[n], f[n - 1])
  <2>1. f[n] = g[n].entry /\ f[n - 1] = g[n - 1].entry
    BY <1>0
  <2>2. g[n] = Applied(d, queue[n], g[n - 1])
    BY <1>1
  <2> HIDE DEF f
  <2> QED
    BY <2>1, <2>2 DEF Applied, ApplyToLocalView, EntryStep
<1>5. LocalDocument(d, cached, queue).entry = f[Len(queue)]
  BY <1>0, <1>1
<1> QED
  BY <1>2, <1>3, <1>4, <1>5 DEF Runs

(* A queue without its first s mutations, up to a later one. *)
Shifted(queue, rest, s) ==
  Len(rest) + s <= Len(queue) /\ \A n \in 1 .. Len(rest) : rest[n] = queue[n + s]

(* The two runs agree at k, shifted by s. *)
Agree(f, g, k, s) == f[k + s] = g[k]

(* Two runs that agree once agree from there on. *)
LEMMA RunsAgree ==
  ASSUME NEW d, NEW queue \in Seq(Mutation), NEW rest \in Seq(Mutation), NEW s \in {0, 1},
         NEW f, NEW g, NEW a, NEW b, Runs(f, d, a, queue), Runs(g, d, b, rest),
         Shifted(queue, rest, s), NEW k \in 0 .. Len(rest), Agree(f, g, k, s)
  PROVE  Agree(f, g, Len(rest), s)
<1>0. /\ Len(queue) \in Nat /\ Len(rest) \in Nat /\ Len(rest) + s <= Len(queue)
      /\ \A n \in 1 .. Len(rest) : rest[n] = queue[n + s]
  BY LenZero DEF Shifted
<1> DEFINE Differ == {n \in k .. Len(rest) : f[n + s] # g[n]}
<1>1. SUFFICES ASSUME Differ # {} PROVE FALSE
  BY <1>0 DEF Agree
<1>2. Differ \subseteq Nat
  BY <1>0
<1>3. PICK n \in Differ : \A j \in Differ : n <= j
  <2> HIDE DEF Differ
  <2> QED
    BY <1>1, <1>2, LeastNatural
<1>4. n # k
  BY <1>3 DEF Agree
<1>5. /\ n \in 1 .. Len(rest) /\ n - 1 \in k .. Len(rest) /\ ~ (n <= n - 1)
      /\ n + s \in 1 .. Len(queue) /\ (n + s) - 1 = (n - 1) + s
  BY <1>0, <1>3, <1>4
<1>6. f[(n - 1) + s] = g[n - 1]
  BY <1>3, <1>5
<1>7. f[n + s] = EntryStep(d, queue[n + s], f[(n - 1) + s])
  BY <1>5 DEF Runs
<1>8. g[n] = EntryStep(d, rest[n], g[n - 1])
  BY <1>5 DEF Runs
<1>9. rest[n] = queue[n + s]
  BY <1>0, <1>5
<1> QED
  BY <1>3, <1>6, <1>7, <1>8, <1>9

(* The text under a queue depends on the text in the cache only. *)
LEMMA EntryOfCache ==
  ASSUME NEW d \in DocIds, NEW a \in CachedDocument, NEW b \in CachedDocument,
         NEW queue \in Seq(Mutation), a.entry = b.entry
  PROVE  LocalDocument(d, a, queue).entry = LocalDocument(d, b, queue).entry
<1>0. Len(queue) \in Nat
  BY LenZero
<1>1. PICK f : Runs(f, d, a.entry, queue) /\ LocalDocument(d, a, queue).entry = f[Len(queue)]
  BY LocalEntry
<1>2. PICK g : Runs(g, d, b.entry, queue) /\ LocalDocument(d, b, queue).entry = g[Len(queue)]
  BY LocalEntry
<1>3. Agree(f, g, 0, 0) /\ 0 \in 0 .. Len(queue)
  BY <1>0, <1>1, <1>2 DEF Runs, Agree
<1>4. Shifted(queue, queue, 0)
  BY <1>0 DEF Shifted
<1>5. Agree(f, g, Len(queue), 0)
  BY <1>1, <1>2, <1>3, <1>4, RunsAgree
<1> QED
  BY <1>0, <1>1, <1>2, <1>5 DEF Agree

(* The front of the queue may be taken into the cache first. *)
LEMMA EntryWithoutFront ==
  ASSUME NEW d \in DocIds, NEW a \in CachedDocument, NEW b \in CachedDocument,
         NEW queue \in Seq(Mutation), queue # <<>>, b.entry = EntryStep(d, queue[1], a.entry)
  PROVE  LocalDocument(d, a, queue).entry = LocalDocument(d, b, Tail(queue)).entry
<1> DEFINE rest == Tail(queue)
<1>0. /\ Len(queue) \in Nat \ {0} /\ rest \in Seq(Mutation) /\ Len(rest) = Len(queue) - 1
      /\ \A n \in 1 .. Len(queue) - 1 : rest[n] = queue[n + 1]
  BY HeadTail
<1> HIDE DEF rest
<1>1. PICK f : Runs(f, d, a.entry, queue) /\ LocalDocument(d, a, queue).entry = f[Len(queue)]
  BY LocalEntry
<1>2. PICK g : Runs(g, d, b.entry, rest) /\ LocalDocument(d, b, rest).entry = g[Len(rest)]
  BY <1>0, LocalEntry
<1>3. f[1] = g[0]
  <2>1. f[1] = EntryStep(d, queue[1], f[1 - 1]) /\ f[0] = a.entry
    BY <1>0, <1>1 DEF Runs
  <2>2. g[0] = b.entry
    BY <1>2 DEF Runs
  <2> QED
    BY <2>1, <2>2
<1>4. 0 \in 0 .. Len(rest) /\ Len(queue) = Len(rest) + 1 /\ Agree(f, g, 0, 1)
  BY <1>0, <1>3 DEF Agree
<1>5. Shifted(queue, rest, 1)
  BY <1>0 DEF Shifted
<1>6. Agree(f, g, Len(rest), 1)
  BY <1>0, <1>1, <1>2, <1>4, <1>5, RunsAgree
<1> QED
  BY <1>1, <1>2, <1>4, <1>6 DEF rest, Agree

(* A new mutation of another document changes nothing. *)
LEMMA EntryAppendOther ==
  ASSUME NEW d \in DocIds, NEW a \in CachedDocument, NEW queue \in Seq(Mutation),
         NEW m \in Mutation, m.id # d
  PROVE  LocalDocument(d, a, Append(queue, m)).entry = LocalDocument(d, a, queue).entry
<1> DEFINE long == Append(queue, m)
<1>0. /\ Len(queue) \in Nat /\ long \in Seq(Mutation) /\ Len(long) = Len(queue) + 1
      /\ \A n \in 1 .. Len(queue) : long[n] = queue[n]
      /\ long[Len(queue) + 1] = m
  BY LenZero, AppendProperties
<1> HIDE DEF long
<1>1. PICK f : Runs(f, d, a.entry, long) /\ LocalDocument(d, a, long).entry = f[Len(long)]
  BY <1>0, LocalEntry
<1>2. PICK g : Runs(g, d, a.entry, queue) /\ LocalDocument(d, a, queue).entry = g[Len(queue)]
  BY LocalEntry
<1>3. Agree(f, g, 0, 0) /\ 0 \in 0 .. Len(queue) /\ Len(queue) + 0 = Len(queue)
  BY <1>0, <1>1, <1>2 DEF Runs, Agree
<1>4. Shifted(long, queue, 0)
  BY <1>0 DEF Shifted
<1>5. Agree(f, g, Len(queue), 0)
  BY <1>0, <1>1, <1>2, <1>3, <1>4, RunsAgree
<1>6. f[Len(queue) + 1] = f[Len(queue)]
  <2>1. Len(queue) + 1 \in 1 .. Len(long) /\ (Len(queue) + 1) - 1 = Len(queue)
    BY <1>0
  <2>2. f[Len(queue) + 1] = EntryStep(d, m, f[Len(queue)])
    BY <1>0, <1>1, <2>1 DEF Runs
  <2> QED
    BY <2>2 DEF EntryStep
<1> QED
  BY <1>0, <1>1, <1>2, <1>3, <1>5, <1>6 DEF long, Agree

(* The first k mutations of the queue are not about d. *)
Untouched(queue, d, k) == k \in 0 .. Len(queue) /\ \A n \in 1 .. k : queue[n].id # d

(* Up to the first mutation for it, a document is as the cache has it. *)
LEMMA RunsUntouched ==
  ASSUME NEW d, NEW queue \in Seq(Mutation), NEW f, NEW a, Runs(f, d, a, queue),
         NEW k, Untouched(queue, d, k)
  PROVE  f[k] = a
<1>0. Len(queue) \in Nat /\ k \in 0 .. Len(queue) /\ \A n \in 1 .. k : queue[n].id # d
  BY LenZero DEF Untouched
<1> DEFINE Differ == {n \in 0 .. k : f[n] # a}
<1>1. SUFFICES ASSUME Differ # {} PROVE FALSE
  BY <1>0
<1>2. Differ \subseteq Nat
  BY <1>0
<1>3. PICK n \in Differ : \A j \in Differ : n <= j
  <2> HIDE DEF Differ
  <2> QED
    BY <1>1, <1>2, LeastNatural
<1>4. n # 0
  BY <1>3 DEF Runs
<1>5. n \in 1 .. Len(queue) /\ n \in 1 .. k /\ n - 1 \in 0 .. k /\ ~ (n <= n - 1)
  BY <1>0, <1>3, <1>4
<1>6. f[n - 1] = a
  BY <1>3, <1>5
<1>7. f[n] = EntryStep(d, queue[n], f[n - 1])
  BY <1>5 DEF Runs
<1> QED
  BY <1>0, <1>3, <1>5, <1>6, <1>7 DEF EntryStep

(* Updates and deletions of a missing document leave it missing. *)
LEMMA RunsMissing ==
  ASSUME NEW d, NEW queue \in Seq(Mutation), NEW f, Runs(f, d, NoDocument, queue),
         \A n \in 1 .. Len(queue) : queue[n].id = d => queue[n].type # "set"
  PROVE  f[Len(queue)] = NoDocument
<1>0. Len(queue) \in Nat
  BY LenZero
<1> DEFINE Differ == {n \in 0 .. Len(queue) : f[n] # NoDocument}
<1>1. SUFFICES ASSUME Differ # {} PROVE FALSE
  BY <1>0
<1>2. Differ \subseteq Nat
  BY <1>0
<1>3. PICK n \in Differ : \A j \in Differ : n <= j
  <2> HIDE DEF Differ
  <2> QED
    BY <1>1, <1>2, LeastNatural
<1>4. n # 0
  BY <1>3 DEF Runs
<1>5. n \in 1 .. Len(queue) /\ n - 1 \in 0 .. Len(queue) /\ ~ (n <= n - 1)
  BY <1>0, <1>3, <1>4
<1>6. f[n - 1] = NoDocument
  BY <1>3, <1>5
<1>7. f[n] = EntryStep(d, queue[n], NoDocument)
  BY <1>5, <1>6 DEF Runs
<1>8. queue[n] \in Mutation
  BY <1>5
<1>9. queue[n].type \in {"set", "patch", "delete"}
  BY <1>8, MutationType
<1>10. EntryStep(d, queue[n], NoDocument) = NoDocument
  BY <1>5, <1>8, <1>9, TextOfType DEF EntryStep, IsValidFor
<1> QED
  BY <1>3, <1>7, <1>10

(* Other news of the cache under a queue with mutations for the document:  *)
(* the text is the same, unless the document is there no longer.           *)
LEMMA EntryOverNews ==
  ASSUME NEW d \in DocIds, NEW a \in CachedDocument, NEW b \in CachedDocument,
         NEW queue \in Seq(Mutation),
         \E k \in 1 .. Len(queue) : queue[k].id = d,
         \A i, j \in 1 .. Len(queue) :
           i < j /\ queue[j].type = "set" => queue[i].id # queue[j].id,
         LocalDocument(d, a, queue).entry # NoDocument
  PROVE  \/ LocalDocument(d, b, queue).entry = LocalDocument(d, a, queue).entry
         \/ /\ LocalDocument(d, b, queue).entry = NoDocument
            /\ a.entry # NoDocument /\ b.entry = NoDocument
<1>0. Len(queue) \in Nat
  BY LenZero
<1>1. PICK f : Runs(f, d, a.entry, queue) /\ LocalDocument(d, a, queue).entry = f[Len(queue)]
  BY LocalEntry
<1>2. PICK g : Runs(g, d, b.entry, queue) /\ LocalDocument(d, b, queue).entry = g[Len(queue)]
  BY LocalEntry
<1> DEFINE T == {k \in 1 .. Len(queue) : queue[k].id = d}
<1>3. PICK k \in T : \A j \in T : k <= j
  <2>1. T \subseteq Nat /\ T # {}
    BY <1>0
  <2> HIDE DEF T
  <2> QED
    BY <2>1, LeastNatural
<1>4. /\ k \in 1 .. Len(queue) /\ queue[k].id = d /\ k - 1 \in 0 .. Len(queue) /\ k \in 0 .. Len(queue)
      /\ \A n \in 1 .. k - 1 : queue[n].id # d
  <2>1. k \in 1 .. Len(queue) /\ queue[k].id = d
    BY <1>3
  <2>2. k - 1 \in 0 .. Len(queue) /\ k \in 0 .. Len(queue)
    BY <1>0, <2>1
  <2>3. ASSUME NEW n \in 1 .. k - 1 PROVE queue[n].id # d
    <3>1. n \in 1 .. Len(queue) /\ ~ k <= n
      BY <1>0, <2>1
    <3> QED
      BY <1>3, <3>1
  <2> QED
    BY <2>1, <2>2, <2>3
<1>5. f[k - 1] = a.entry /\ g[k - 1] = b.entry
  <2> DEFINE h == k - 1
  <2>1. Untouched(queue, d, h)
    BY <1>4 DEF Untouched
  <2> HIDE DEF h
  <2>2. f[h] = a.entry /\ g[h] = b.entry
    BY <1>1, <1>2, <2>1, RunsUntouched
  <2> QED
    BY <2>2 DEF h
<1>6. f[k] = EntryStep(d, queue[k], a.entry) /\ g[k] = EntryStep(d, queue[k], b.entry)
  BY <1>1, <1>2, <1>4, <1>5 DEF Runs
<1>7. ASSUME f[k] = g[k] PROVE f[Len(queue)] = g[Len(queue)]
  <2>1. Agree(f, g, k, 0)
    BY <1>0, <1>4, <1>7 DEF Agree
  <2>2. Shifted(queue, queue, 0)
    BY <1>0 DEF Shifted
  <2>3. Agree(f, g, Len(queue), 0)
    BY <1>1, <1>2, <1>4, <2>1, <2>2, RunsAgree
  <2> QED
    BY <1>0, <2>3 DEF Agree
<1>8. CASE queue[k].type # "patch" \/ (a.entry # NoDocument /\ b.entry # NoDocument)
  BY <1>1, <1>2, <1>4, <1>6, <1>7, <1>8 DEF EntryStep, IsValidFor
<1>9. CASE queue[k].type = "patch" /\ (a.entry = NoDocument \/ b.entry = NoDocument)
  <2>1. ASSUME NEW n \in 1 .. Len(queue), queue[n].id = d PROVE queue[n].type # "set"
    <3>1. k <= n
      BY <1>3, <2>1
    <3>2. CASE k = n
      BY <1>9, <3>2
    <3>3. CASE k # n
      <4>1. k < n
        BY <1>4, <3>1, <3>3
      <4> QED
        BY <1>4, <2>1, <4>1
    <3> QED
      BY <3>2, <3>3
  <2>2. a.entry = NoDocument => f[Len(queue)] = NoDocument
    BY <1>1, <2>1, RunsMissing
  <2>3. b.entry = NoDocument => g[Len(queue)] = NoDocument
    BY <1>2, <2>1, RunsMissing
  <2> QED
    BY <1>1, <1>2, <1>9, <2>2, <2>3
<1> QED
  BY <1>8, <1>9

-----------------------------------------------------------------------------
(* The texts of the user. *)

(* There was a commit for d after the write e. *)
OvertakenIn(l, d, e) == \E i, j \in 1 .. Len(l) : i < j /\ l[i].batch = e /\ l[j].id = d
(* A text of the user may go when its write was refused or overtaken. *)
ExcusedIn(rejected, l, d, e) == (\E m \in rejected : m.batch = e) \/ OvertakenIn(l, d, e)

(* A text of this device is named by the batch that made it. *)
EntryIsBatch == \A i \in 1 .. Len(log) : log[i].entry > 0 => log[i].batch = log[i].entry

(* What is shown without local changes is what the cache and the queue say *)
(* now; a local text that they no longer say was refused or overtaken.     *)
RemoteShown ==
  \A d \in DocIds :
    ~ view[d].local => view[d].entry = LocalDocument(d, cache[d], ActiveQueue).entry
(***************************************************************************)
(* A text shown as local is the one that queue and cache give, unless it   *)
(* is excused.                                                             *)
(***************************************************************************)
LocalShown ==
  \A d \in DocIds :
    view[d].local /\ view[d].entry > 0 =>
      \/ view[d].entry = LocalDocument(d, cache[d], mutations).entry
      \/ ExcusedIn(refused, log, d, view[d].entry)

(* The inductive invariant of what is shown. *)
ShownInv == EntryIsBatch /\ RemoteShown /\ LocalShown

(* All of it. *)
OwnInv == SyncInv /\ ShownInv

(* A document that is missing at a later version was deleted. *)
LEMMA DeletedBetween ==
  ASSUME NEW l \in Seq(Commit), NEW d, NEW u \in 0 .. Len(l), NEW w \in 0 .. Len(l), u <= w,
         TextIn(l, d, u) # NoDocument, TextIn(l, d, w) = NoDocument
  PROVE  DeletedIn(l, d)
<1>0. Len(l) \in Nat /\ u \in Nat /\ w \in Nat
  BY LenZero
<1> DEFINE i == LastIn(l, d, u)
           j == LastIn(l, d, w)
<1>1. i \in 0 .. u /\ (i # 0 => l[i].id = d)
  BY <1>0, LastInFacts
<1>2. j \in 0 .. w /\ (j # 0 => l[j].id = d) /\ \A n \in 1 .. w : l[n].id = d => n <= j
  BY <1>0, LastInFacts
<1>3. i # 0
  BY DEF TextIn
<1>4. j # 0 => l[j].entry = NoDocument
  BY DEF TextIn
<1> HIDE DEF i, j
<1>5. i \in 1 .. w /\ l[i].id = d
  BY <1>0, <1>1, <1>3
<1>6. i <= j
  BY <1>2, <1>5
<1>7. j \in 1 .. Len(l) /\ j # 0
  BY <1>0, <1>2, <1>5, <1>6
<1> QED
  BY <1>2, <1>4, <1>7 DEF DeletedIn

(* A document with another text at a later version has a later commit. *)
LEMMA ChangedBetween ==
  ASSUME NEW l \in Seq(Commit), NEW d, NEW u \in 0 .. Len(l), NEW w \in 0 .. Len(l), u <= w,
         TextIn(l, d, u) # TextIn(l, d, w)
  PROVE  \E j \in 1 .. Len(l) : u < j /\ l[j].id = d
<1>0. Len(l) \in Nat /\ u \in Nat /\ w \in Nat
  BY LenZero
<1> DEFINE j == LastIn(l, d, w)
<1>1. j \in 0 .. w /\ (j # 0 => l[j].id = d)
  BY <1>0, LastInFacts
<1>2. ~ j <= u
  BY <1>0, TextInStays
<1> HIDE DEF j
<1> QED
  BY <1>0, <1>1, <1>2

(* The text of this device at a version was committed by then. *)
LEMMA OwnTextCommitted ==
  ASSUME NEW l \in Seq(Commit), NEW d, NEW u \in 0 .. Len(l), TextIn(l, d, u) > 0,
         \A i \in 1 .. Len(l) : l[i].entry > 0 => l[i].batch = l[i].entry
  PROVE  \E i \in 1 .. Len(l) : i <= u /\ l[i].batch = TextIn(l, d, u)
<1>0. Len(l) \in Nat /\ u \in Nat
  BY LenZero
<1> DEFINE i == LastIn(l, d, u)
<1>1. i \in 0 .. u
  BY <1>0, LastInFacts
<1>2. i # 0 /\ TextIn(l, d, u) = l[i].entry
  BY DEF TextIn, NoDocument
<1> HIDE DEF i
<1> QED
  BY <1>0, <1>1, <1>2

(* Newer news of a document in the cache. *)
LEMMA TextNews ==
  ASSUME OwnInv, NEW d \in DocIds, NEW new \in CachedDocument,
         new.version \in 0 .. Len(log), new.entry = TextIn(log, d, new.version),
         cache[d].version <= new.version,
         LocalDocument(d, cache[d], mutations).entry > 0
  PROVE  LET e == LocalDocument(d, cache[d], mutations).entry
             f == LocalDocument(d, new, mutations).entry
         IN  f = e \/ OvertakenIn(log, d, e) \/ (f = NoDocument /\ DeletedIn(log, d))
<1> DEFINE e == LocalDocument(d, cache[d], mutations).entry
           f == LocalDocument(d, new, mutations).entry
           u == cache[d].version
           w == new.version
<1>0. CoreInv /\ BaseInv /\ CacheInv /\ HistoryInv /\ EntryIsBatch
  BY DEF OwnInv, SyncInv, WriteInv, BaseInv, ShownInv
<1>1. log \in Seq(Commit) /\ Len(log) \in Nat /\ mutations \in Seq(Mutation) /\ cache[d] \in CachedDocument
  BY <1>0, LenZero DEF CoreInv, WriteTypes, BaseInv, ViewTypes, DocumentCache
<1>2. u \in 0 .. Len(log) /\ cache[d].entry = TextIn(log, d, u)
  BY <1>0 DEF CacheInv, CacheIsBackend
<1>3. CASE IsQueued(d)
  <2>1. \/ f = e
        \/ f = NoDocument /\ cache[d].entry # NoDocument /\ new.entry = NoDocument
    <3>1. \E k \in 1 .. Len(mutations) : mutations[k].id = d
      BY <1>3 DEF IsQueued
    <3>2. \A i, j \in 1 .. Len(mutations) :
            i < j /\ mutations[j].type = "set" => mutations[i].id # mutations[j].id
      BY <1>0 DEF HistoryInv, SetIsFirst
    <3>3. LocalDocument(d, cache[d], mutations).entry # NoDocument
      BY DEF NoDocument
    <3> QED
      BY <1>1, <3>1, <3>2, <3>3, EntryOverNews
  <2> HIDE DEF e, f, u, w
  <2>2. CASE cache[d].entry # NoDocument /\ new.entry = NoDocument
    <3>1. DeletedIn(log, d)
      BY <1>1, <1>2, <2>2, DeletedBetween DEF u, w
    <3> QED
      BY <2>1, <3>1 DEF e, f
  <2> QED
    BY <2>1, <2>2 DEF e, f
<1>4. CASE ~ IsQueued(d)
  <2>1. \A i \in 1 .. Len(mutations) : mutations[i].id # d
    BY <1>4 DEF IsQueued
  <2>2. e = cache[d].entry /\ f = new.entry
    BY <1>1, <2>1, LocalDocumentFacts DEF Base
  <2>3. SUFFICES ASSUME f # e PROVE OvertakenIn(log, d, e)
    OBVIOUS
  <2>4. TextIn(log, d, u) = e /\ TextIn(log, d, w) # e /\ e > 0
    BY <1>2, <2>2, <2>3
  <2>5. w \in 0 .. Len(log) /\ u <= w
    OBVIOUS
  <2> HIDE DEF e, f, u, w
  <2>6. PICK j \in 1 .. Len(log) : u < j /\ log[j].id = d
    BY <1>1, <1>2, <2>4, <2>5, ChangedBetween
  <2>7. PICK i \in 1 .. Len(log) : i <= u /\ log[i].batch = e
    BY <1>0, <1>1, <1>2, <2>4, OwnTextCommitted DEF EntryIsBatch
  <2>8. i < j
    BY <1>2, <2>6, <2>7
  <2> QED
    BY <2>6, <2>7, <2>8 DEF OvertakenIn
<1> QED
  BY <1>3, <1>4

(* An acknowledgement, or a refusal, takes the front out of the queue. *)
LEMMA TextMutationResult ==
  ASSUME OwnInv, OnWriteStreamMutationResult, NEW d \in DocIds,
         LocalDocument(d, cache[d], mutations).entry > 0
  PROVE  LET e == LocalDocument(d, cache[d], mutations).entry
             f == LocalDocument(d, cache'[d], mutations').entry
         IN  f = e \/ OvertakenIn(log, d, e) \/ (f = NoDocument /\ DeletedIn(log, d))
<1> DEFINE e == LocalDocument(d, cache[d], mutations).entry
           f == LocalDocument(d, cache'[d], mutations').entry
           m == mutations[1]
           v == responses[1].version
           mid == [entry |-> EntryStep(d, m, cache[d].entry), version |-> 0, committed |-> FALSE]
<1>0. CoreInv /\ BaseInv /\ CacheInv /\ HistoryInv /\ SyncInv
  BY DEF OwnInv, SyncInv, WriteInv, BaseInv
<1>1. /\ log \in Seq(Commit) /\ Len(log) \in Nat /\ mutations \in Seq(Mutation)
      /\ cache[d] \in CachedDocument
  BY <1>0, LenZero DEF CoreInv, WriteTypes, BaseInv, ViewTypes, DocumentCache
<1>2. /\ responses # <<>> /\ v # NotFound /\ mutations' = Tail(mutations)
      /\ mutations # <<>> /\ m \in Mutation /\ 1 \in 1 .. Len(responses)
      /\ Head(pipeline) = m /\ Head(responses) = responses[1]
  BY <1>0, MutationResultFacts, FrontFacts, AnswersTail
<1>3. cache' = ApplyBatchResult(m, v)
  BY <1>2 DEF OnWriteStreamMutationResult, HandleSuccessfulWrite, AcknowledgeBatch
<1>4. cache' \in DocumentCache /\ mutations' \in Seq(Mutation)
  BY <1>0, ViewTypesMutationResult, CoreInvMutationResult DEF BaseInv, ViewTypes, CoreInv, WriteTypes
<1>5. cache'[d] \in CachedDocument
  BY <1>4 DEF DocumentCache
<1>6. cache[d].entry \in Text /\ TextOf(m) \in Text
  BY <1>1, <1>2, TextOfType DEF CachedDocument
<1>7. mid \in CachedDocument /\ mid.entry = EntryStep(d, m, cache[d].entry)
  BY <1>6 DEF CachedDocument, EntryStep
<1> HIDE DEF mid
<1>8. e = LocalDocument(d, mid, mutations').entry
  BY <1>1, <1>2, <1>7, EntryWithoutFront
<1>9. ASSUME cache'[d].entry = mid.entry PROVE f = e
  BY <1>4, <1>5, <1>7, <1>8, <1>9, EntryOfCache
<1>10. SUFFICES ASSUME cache'[d].entry # mid.entry
                PROVE  f = e \/ OvertakenIn(log, d, e) \/ (f = NoDocument /\ DeletedIn(log, d))
  BY <1>9
<1>11. Answered(log, v, m)
  BY <1>0, <1>2 DEF HistoryInv, AnswerInv
<1>12. v \in 1 .. Len(log) /\ log[v] = CommitOf(m)
  BY <1>2, <1>11 DEF Answered
<1>13. log[v].id = m.id /\ log[v].entry = TextOf(m) /\ log[v].batch = m.batch
  BY <1>12 DEF CommitOf
<1>14. TextIn(log, m.id, v) = TextOf(m)
  <2>1. LastIn(log, m.id, v) = v
    BY <1>1, <1>12, <1>13, LastInUnique
  <2> QED
    BY <1>1, <1>12, <1>13, <2>1 DEF TextIn
<1>15. m.id = d /\ IsValidFor(m, cache[d].entry) /\ mid.entry = TextOf(m)
  <2>1. m.id # d => cache'[d] = cache[d]
    BY <1>0, AcknowledgedIsBackend
  <2>2. m.id = d
    BY <1>7, <1>10, <2>1 DEF EntryStep
  <2>3. CASE ~ IsValidFor(m, cache[d].entry)
    <3>1. mid.entry = cache[d].entry
      BY <1>7, <2>3 DEF EntryStep
    <3>2. cache'[d] # cache[d]
      BY <1>10, <3>1
    <3>3. cache'[d] = ApplyToRemoteDocument(m, cache[d], v)
      BY <1>0, <1>3, <2>2, <3>2 DEF ApplyBatchResult, BaseInv, ViewTypes, DocumentCache
    <3>4. cache'[d].entry = NoDocument
      BY <2>3, <3>3 DEF ApplyToRemoteDocument
    <3>5. cache[d].entry = NoDocument
      BY <2>3 DEF IsValidFor
    <3> QED
      BY <1>10, <3>1, <3>4, <3>5
  <2>4. CASE IsValidFor(m, cache[d].entry)
    BY <1>7, <2>2, <2>4 DEF EntryStep
  <2> QED
    BY <2>2, <2>3, <2>4
<1>16. cache'[d] = cache[d]
  <2>1. SUFFICES ASSUME cache'[d] # cache[d] PROVE FALSE
    OBVIOUS
  <2>2. cache'[d] = ApplyToRemoteDocument(m, cache[d], v)
    BY <1>0, <1>3, <1>15, <2>1 DEF ApplyBatchResult, BaseInv, ViewTypes, DocumentCache
  <2>3. cache'[d].entry = TextOf(m)
    BY <1>15, <2>2 DEF ApplyToRemoteDocument
  <2> QED
    BY <1>10, <1>15, <2>3
<1> DEFINE w == cache[d].version
<1>17. w \in 0 .. Len(log) /\ cache[d].entry = TextIn(log, d, w)
  BY <1>0 DEF CacheInv, CacheIsBackend
<1>18. v <= w
  BY <1>0, <1>15, <1>16, AcknowledgedIsBackend
<1>19. v \in 0 .. Len(log)
  BY <1>1, <1>12
<1>20. TextIn(log, d, v) = mid.entry /\ TextIn(log, d, w) # mid.entry
  BY <1>10, <1>14, <1>15, <1>16, <1>17
<1>21. CASE \E k \in 1 .. Len(mutations') : mutations'[k].id = d
  <2>1. \A i, j \in 1 .. Len(mutations') :
          i < j /\ mutations'[j].type = "set" => mutations'[i].id # mutations'[j].id
    <3>1. HistoryInv'
      BY <1>0, WriteInvStream DEF SyncInv, WriteStream
    <3> QED
      BY <3>1 DEF HistoryInv, SetIsFirst
  <2>2. LocalDocument(d, mid, mutations').entry # NoDocument
    BY <1>8 DEF NoDocument
  <2>3. \/ f = e
        \/ f = NoDocument /\ mid.entry # NoDocument /\ cache'[d].entry = NoDocument
    BY <1>4, <1>5, <1>7, <1>8, <1>21, <2>1, <2>2, EntryOverNews
  <2> HIDE DEF e, f, v, w
  <2>4. CASE mid.entry # NoDocument /\ cache'[d].entry = NoDocument
    <3>1. DeletedIn(log, d)
      BY <1>1, <1>16, <1>17, <1>18, <1>19, <1>20, <2>4, DeletedBetween
    <3> QED
      BY <2>3, <3>1
  <2> QED
    BY <2>3, <2>4
<1>22. CASE ~ \E k \in 1 .. Len(mutations') : mutations'[k].id = d
  <2>1. LocalDocument(d, mid, mutations') = Base(mid)
    BY <1>4, <1>7, <1>22, LocalDocumentFacts
  <2>2. e = TextOf(m)
    BY <1>8, <1>15, <2>1 DEF Base
  <2>3. e = m.batch
    BY <2>2 DEF TextOf, NoDocument
  <2> HIDE DEF e, f, v, w, m
  <2>4. PICK j \in 1 .. Len(log) : v < j /\ log[j].id = d
    BY <1>1, <1>17, <1>18, <1>19, <1>20, ChangedBetween
  <2> QED
    BY <1>12, <1>13, <2>3, <2>4 DEF OvertakenIn
<1> QED
  BY <1>21, <1>22

-----------------------------------------------------------------------------
(* What a step does to a text on the queue. *)

(* A refused batch takes away its own text only. *)
LEMMA TextWriteError ==
  ASSUME OwnInv, HandleWriteError, NEW d \in DocIds,
         LocalDocument(d, cache[d], mutations).entry > 0
  PROVE  LET e == LocalDocument(d, cache[d], mutations).entry
             f == LocalDocument(d, cache'[d], mutations').entry
         IN  f = e \/ \E m \in refused' : m.batch = e
<1> DEFINE e == LocalDocument(d, cache[d], mutations).entry
           f == LocalDocument(d, cache'[d], mutations').entry
           m == mutations[1]
           mid == [entry |-> EntryStep(d, m, cache[d].entry), version |-> 0, committed |-> FALSE]
<1>0. CoreInv /\ BaseInv /\ HistoryInv /\ SyncInv
  BY DEF OwnInv, SyncInv, WriteInv, BaseInv
<1>1. mutations \in Seq(Mutation) /\ cache[d] \in CachedDocument
  BY <1>0 DEF CoreInv, WriteTypes, BaseInv, ViewTypes, DocumentCache
<1>2. /\ responses # <<>> /\ mutations' = Tail(mutations) /\ cache' = cache
      /\ mutations # <<>> /\ m \in Mutation /\ refused' = refused \cup {m}
  BY <1>0, WriteErrorFacts, FrontFacts
<1>3. mutations' \in Seq(Mutation)
  BY <1>0, CoreInvWriteError DEF CoreInv, WriteTypes
<1>4. cache[d].entry \in Text /\ TextOf(m) \in Text
  BY <1>1, <1>2, TextOfType DEF CachedDocument
<1>5. mid \in CachedDocument /\ mid.entry = EntryStep(d, m, cache[d].entry)
  BY <1>4 DEF CachedDocument, EntryStep
<1> HIDE DEF mid
<1>6. e = LocalDocument(d, mid, mutations').entry
  BY <1>1, <1>2, <1>5, EntryWithoutFront
<1>7. ASSUME cache[d].entry = mid.entry PROVE f = e
  BY <1>1, <1>2, <1>3, <1>5, <1>6, <1>7, EntryOfCache
<1>8. SUFFICES ASSUME cache[d].entry # mid.entry
               PROVE  f = e \/ \E r \in refused' : r.batch = e
  BY <1>7
<1>9. mid.entry = TextOf(m) /\ IsValidFor(m, cache[d].entry)
  BY <1>5, <1>8 DEF EntryStep
<1>10. m.type = "patch"
  <2>1. responses[1].version = NotFound /\ 1 \in 1 .. Len(responses)
    BY <1>0, <1>2, WriteErrorFacts, FrontFacts
  <2> QED
    BY <1>0, <2>1 DEF HistoryInv, AnswerInv, Answered
<1>11. cache[d].entry # NoDocument
  BY <1>9, <1>10 DEF IsValidFor
<1>12. CASE \E k \in 1 .. Len(mutations') : mutations'[k].id = d
  <2>1. \A i, j \in 1 .. Len(mutations') :
          i < j /\ mutations'[j].type = "set" => mutations'[i].id # mutations'[j].id
    <3>1. HistoryInv'
      BY <1>0, WriteInvStream DEF SyncInv, WriteStream
    <3> QED
      BY <3>1 DEF HistoryInv, SetIsFirst
  <2>2. LocalDocument(d, mid, mutations').entry # NoDocument
    BY <1>6 DEF NoDocument
  <2>3. LocalDocument(d, cache[d], mutations').entry = LocalDocument(d, mid, mutations').entry
    BY <1>1, <1>3, <1>5, <1>11, <1>12, <2>1, <2>2, EntryOverNews
  <2> QED
    BY <1>2, <1>6, <2>3
<1>13. CASE ~ \E k \in 1 .. Len(mutations') : mutations'[k].id = d
  <2>1. LocalDocument(d, mid, mutations') = Base(mid)
    BY <1>3, <1>5, <1>13, LocalDocumentFacts
  <2>2. e = TextOf(m)
    BY <1>6, <1>9, <2>1 DEF Base
  <2>3. e = m.batch
    BY <2>2 DEF TextOf, NoDocument
  <2> HIDE DEF e, f, m
  <2> QED
    BY <1>2, <2>3
<1> QED
  BY <1>12, <1>13

(* What a step may do to the text that the cache and the queue give a document. *)
LEMMA TextStep ==
  ASSUME OwnInv, [Next]_vars, written' = written, NEW d \in DocIds,
         LocalDocument(d, cache[d], mutations).entry > 0
  PROVE  LET e == LocalDocument(d, cache[d], mutations).entry
             f == LocalDocument(d, cache'[d], mutations').entry
         IN  \/ f = e
             \/ \E m \in refused' : m.batch = e
             \/ OvertakenIn(log, d, e)
             \/ f = NoDocument /\ DeletedIn(log, d) /\ signedIn'
<1> DEFINE e == LocalDocument(d, cache[d], mutations).entry
           f == LocalDocument(d, cache'[d], mutations').entry
           Goal == \/ f = e
                   \/ \E m \in refused' : m.batch = e
                   \/ OvertakenIn(log, d, e)
                   \/ f = NoDocument /\ DeletedIn(log, d) /\ signedIn'
<1>0. CoreInv /\ BaseInv /\ SyncInv
  BY DEF OwnInv, SyncInv, WriteInv, BaseInv
<1>1. ASSUME UNCHANGED <<cache, mutations>> PROVE Goal
  BY <1>1
<1>2. ASSUME mutations' = mutations, signedIn', CacheInv', log' = log,
             \A k \in DocIds : cache[k].version <= cache'[k].version
      PROVE  Goal
  <2>1. cache'[d] \in CachedDocument
    BY <1>0, BaseInvStep DEF BaseInv, ViewTypes, DocumentCache
  <2>2. cache'[d].version \in 0 .. Len(log) /\ cache'[d].entry = TextIn(log, d, cache'[d].version)
    BY <1>2 DEF CacheInv, CacheIsBackend
  <2>3. cache[d].version <= cache'[d].version
    BY <1>2
  <2>4. LET g == LocalDocument(d, cache'[d], mutations).entry
        IN  g = e \/ OvertakenIn(log, d, e) \/ (g = NoDocument /\ DeletedIn(log, d))
    BY <2>1, <2>2, <2>3, TextNews
  <2> QED
    BY <1>2, <2>4
<1>3. ASSUME NEW k \in DocIds, SaveNew(k) \/ SaveEdited(k) \/ DeleteJournal(k) PROVE FALSE
  <2>1. written' = written + 1 /\ written \in Nat
    BY <1>0, <1>3 DEF SaveNew, SaveEdited, DeleteJournal, WriteMutations, WriteLocally,
                      CoreInv, WriteTypes
  <2> QED
    BY <2>1
<1>4. ASSUME OnWriteStreamMutationResult PROVE Goal
  <2>1. signedIn'
    BY <1>0, <1>4, MutationResultFacts
  <2>2. f = e \/ OvertakenIn(log, d, e) \/ (f = NoDocument /\ DeletedIn(log, d))
    BY <1>4, TextMutationResult
  <2> HIDE DEF e, f
  <2> QED
    BY <2>1, <2>2
<1>5. ASSUME HandleWriteError PROVE Goal
  BY <1>5, TextWriteError
<1>6. ASSUME NEW v \in watched .. Len(log), WatchSnapshot(v) \/ WatchListing(v) PROVE Goal
  <2>1. mutations' = mutations /\ signedIn' /\ log' = log
    <3>1. PICK updates, keys : ApplyRemoteEvent(updates, keys)
      BY <1>6 DEF WatchSnapshot, WatchListing, RaiseWatchSnapshot
    <3> QED
      BY <3>1 DEF ApplyRemoteEvent, backendVars
  <2>2. CacheInv' /\ \A k \in DocIds : cache[k].version <= cache'[k].version
    BY <1>0, <1>6, CacheSnapshot
  <2> QED
    BY <1>2, <2>1, <2>2
<1>7. ASSUME NEW k \in DocIds, ResolveLimbo(k) PROVE Goal
  <2>1. mutations' = mutations /\ signedIn' /\ log' = log
    <3>1. PICK updates, keys : ApplyRemoteEvent(updates, keys)
      BY <1>7 DEF ResolveLimbo
    <3> QED
      BY <3>1 DEF ApplyRemoteEvent, backendVars
  <2>2. CacheInv' /\ \A i \in DocIds : cache[i].version <= cache'[i].version
    BY <1>0, <1>7, CacheResolveLimbo
  <2> QED
    BY <1>2, <2>1, <2>2
<1>8. ASSUME OnWriteStreamHandshakeComplete \/ BackendHandles \/ OnWriteStreamClose PROVE Goal
  <2>1. UNCHANGED <<cache, mutations>>
    BY <1>8 DEF OnWriteStreamHandshakeComplete, BackendHandles, BackendCommits, BackendRefuses,
                OnWriteStreamClose
  <2> QED
    BY <1>1, <2>1
<1>9. ASSUME GoOffline \/ Restart \/ SignOut \/ SignIn PROVE Goal
  <2>1. UNCHANGED <<cache, mutations>>
    BY <1>9 DEF GoOffline, Restart, SignOut, SignIn
  <2> QED
    BY <1>1, <2>1
<1>10. ASSUME NEW k, NEW delete, OtherDevice(k, delete) PROVE Goal
  <2>1. UNCHANGED <<cache, mutations>>
    BY <1>10 DEF OtherDevice
  <2> QED
    BY <1>1, <2>1
<1>11. ASSUME UNCHANGED vars PROVE Goal
  <2>1. UNCHANGED <<cache, mutations>>
    BY <1>11 DEF vars
  <2> QED
    BY <1>1, <2>1
<1> HIDE DEF Goal
<1>12. Goal
  BY <1>3, <1>4, <1>5, <1>6, <1>7, <1>8, <1>9, <1>10, <1>11 DEF Next, WriteStream
<1> QED
  BY <1>12 DEF Goal

-----------------------------------------------------------------------------
(* What is shown. *)

(* A computed view shows a document as the cache and the queue have it, or *)
(* waits for the watch stream and keeps what it shows.                     *)
LEMMA ComputeShows ==
  ASSUME NEW old \in DocumentView, NEW newCache \in DocumentCache,
         NEW queue \in Seq(Mutation), NEW d \in DocIds
  PROVE  LET new == LocalDocument(d, newCache[d], queue)
             shown == ComputeDocumentChanges(old, newCache, queue)[d]
         IN  \/ /\ shown = old[d] /\ old[d].local
                /\ new.committed /\ new.entry # NoDocument
             \/ shown.entry = new.entry /\ shown.local = new.local
<1> DEFINE new == LocalDocument(d, newCache[d], queue)
           shown == ComputeDocumentChanges(old, newCache, queue)[d]
           wait == /\ old[d].entry # NoDocument /\ new.entry # NoDocument
                   /\ ShouldWaitForSyncedDocument(new, old[d])
<1>1. shown = IF wait THEN old[d] ELSE [entry |-> new.entry, local |-> new.local]
  BY DEF ComputeDocumentChanges
<1> HIDE DEF new, shown
<1>2. CASE wait
  BY <1>1, <1>2 DEF ShouldWaitForSyncedDocument, new, shown
<1>3. CASE ~ wait
  <2>1. shown = [entry |-> new.entry, local |-> new.local]
    BY <1>1, <1>3
  <2>2. shown.entry = new.entry /\ shown.local = new.local
    BY <2>1
  <2> QED
    BY <2>2 DEF new, shown
<1> QED
  BY <1>2, <1>3

(* After a new mutation a document is not committed, or it is missing. *)
LEMMA AppendOwn ==
  ASSUME NEW d \in DocIds, NEW a \in CachedDocument, NEW queue \in Seq(Mutation),
         NEW m \in Mutation, m.id = d
  PROVE  LET new == LocalDocument(d, a, Append(queue, m))
         IN  ~ new.committed \/ new.entry = NoDocument
<1> DEFINE long == Append(queue, m)
           n == Len(queue)
<1>0. n \in Nat /\ long \in Seq(Mutation) /\ Len(long) = n + 1 /\ long[n + 1] = m
  BY LenZero, AppendProperties
<1> HIDE DEF long, n
<1>1. PICK f \in [0 .. Len(long) -> LocalDoc] :
        /\ \A i \in 1 .. Len(long) : f[i] = Applied(d, long[i], f[i - 1])
        /\ LocalDocument(d, a, long) = f[Len(long)]
  BY <1>0, LocalDocumentDef
<1>2. n + 1 \in 1 .. Len(long) /\ (n + 1) - 1 = n
  BY <1>0
<1>3. f[n + 1] = Applied(d, m, f[n])
  BY <1>0, <1>1, <1>2
<1>4. f[n + 1] = ApplyToLocalView(m, f[n])
  BY <1>3 DEF Applied
<1>5. ~ f[n + 1].committed \/ f[n + 1].entry = NoDocument
  <2>1. CASE IsValidFor(m, f[n].entry)
    <3>1. f[n + 1] = [entry |-> TextOf(m), local |-> m.type # "delete", committed |-> FALSE]
      BY <1>4, <2>1 DEF ApplyToLocalView
    <3>2. f[n + 1].committed = FALSE
      BY <3>1
    <3> QED
      BY <3>2
  <2>2. CASE ~ IsValidFor(m, f[n].entry)
    BY <1>4, <2>2 DEF ApplyToLocalView, IsValidFor
  <2> QED
    BY <2>1, <2>2
<1> QED
  BY <1>0, <1>1, <1>5 DEF long

(* Only HandleWriteError notes a refusal. *)
LEMMA RefusedGrows ==
  ASSUME [Next]_vars
  PROVE  refused \subseteq refused'
<1> USE DEF historyVars
<1>1. ASSUME NEW d \in DocIds, SaveNew(d) \/ SaveEdited(d) \/ DeleteJournal(d)
      PROVE  refused \subseteq refused'
  BY <1>1 DEF SaveNew, SaveEdited, DeleteJournal, WriteMutations
<1>2. ASSUME WriteStream PROVE refused \subseteq refused'
  BY <1>2 DEF WriteStream, OnWriteStreamHandshakeComplete, OnWriteStreamMutationResult,
              HandleWriteError
<1>3. ASSUME BackendHandles PROVE refused \subseteq refused'
  BY <1>3 DEF BackendHandles, BackendCommits, BackendRefuses
<1>4. ASSUME OnWriteStreamClose \/ GoOffline \/ Restart \/ SignOut \/ SignIn
      PROVE  refused \subseteq refused'
  BY <1>4 DEF OnWriteStreamClose, GoOffline, Restart, SignOut, SignIn
<1>5. ASSUME NEW v, WatchSnapshot(v) \/ WatchListing(v) PROVE refused \subseteq refused'
  BY <1>5 DEF WatchSnapshot, WatchListing, RaiseWatchSnapshot, ApplyRemoteEvent
<1>6. ASSUME NEW d, ResolveLimbo(d) PROVE refused \subseteq refused'
  BY <1>6 DEF ResolveLimbo, ApplyRemoteEvent
<1>7. ASSUME NEW d, NEW delete, OtherDevice(d, delete) PROVE refused \subseteq refused'
  BY <1>7 DEF OtherDevice
<1>8. ASSUME UNCHANGED vars PROVE refused \subseteq refused'
  BY <1>8 DEF vars
<1> QED
  BY <1>1, <1>2, <1>3, <1>4, <1>5, <1>6, <1>7, <1>8 DEF Next

(* A step appends at most one commit to the log, with its text. *)
LEMMA LogGrows ==
  ASSUME CoreInv, [Next]_vars
  PROVE  \/ log' = log
         \/ \E c \in Commit : log' = Append(log, c) /\ (c.entry > 0 => c.batch = c.entry)
<1>1. CASE BackendCommits
  <2> DEFINE m == Head(requests)
  <2>1. CommitOf(m) \in Commit /\ log' = Append(log, CommitOf(m))
    BY <1>1, BackendCommitsFacts
  <2>2. CommitOf(m).entry = TextOf(m) /\ CommitOf(m).batch = m.batch
    BY DEF CommitOf
  <2>3. TextOf(m) > 0 => TextOf(m) = m.batch
    BY DEF TextOf, NoDocument
  <2> QED
    BY <2>1, <2>2, <2>3
<1>2. ASSUME NEW d \in DocIds, NEW delete \in BOOLEAN, OtherDevice(d, delete)
      PROVE  \E c \in Commit : log' = Append(log, c) /\ (c.entry > 0 => c.batch = c.entry)
  <2> DEFINE n == Cardinality({i \in DOMAIN log : log[i].batch = 0})
             c == [id |-> d, entry |-> IF delete THEN NoDocument ELSE -(n + 1), batch |-> 0]
  <2>1. log' = Append(log, c)
    BY <1>2 DEF OtherDevice
  <2>2. n \in Nat /\ n < MaxForeign
    BY <1>2, ForeignCount DEF OtherDevice, CoreInv, WriteTypes
  <2> HIDE DEF n
  <2>3. /\ c.entry \in Text /\ ~ (c.entry > 0)
        /\ c \in Commit
    BY <2>2, SyncAssumption DEF Commit, Text, NoDocument
  <2> HIDE DEF c
  <2> QED
    BY <2>1, <2>3
<1> QED
  BY <1>1, <1>2, LogSteps

(* Every commit of a text carries the batch that wrote it. *)
LEMMA EntryIsBatchStep ==
  ASSUME CoreInv, EntryIsBatch, [Next]_vars
  PROVE  EntryIsBatch'
<1>1. CASE log' = log
  BY <1>1 DEF EntryIsBatch
<1>2. ASSUME NEW c \in Commit, log' = Append(log, c), c.entry > 0 => c.batch = c.entry
      PROVE  EntryIsBatch'
  <2>1. /\ Len(log) \in Nat /\ Len(log') = Len(log) + 1
        /\ \A i \in 1 .. Len(log) : log'[i] = log[i]
        /\ log'[Len(log) + 1] = c
    BY <1>2, LenZero, AppendProperties DEF CoreInv, WriteTypes
  <2>2. \A i \in 1 .. Len(log') : i \in 1 .. Len(log) \/ i = Len(log) + 1
    BY <2>1
  <2> QED
    BY <1>2, <2>1, <2>2 DEF EntryIsBatch
<1> QED
  BY <1>1, <1>2, LogGrows

(* What is excused stays so: log and refusals only grow. *)
LEMMA ExcusedStays ==
  ASSUME CoreInv, [Next]_vars, NEW d, NEW e
  PROVE  /\ OvertakenIn(log, d, e) => OvertakenIn(log', d, e)
         /\ ExcusedIn(refused, log, d, e) => ExcusedIn(refused', log', d, e)
<1>1. OvertakenIn(log, d, e) => OvertakenIn(log', d, e)
  <2>1. CASE log' = log
    BY <2>1
  <2>2. ASSUME NEW c \in Commit, log' = Append(log, c)
        PROVE  OvertakenIn(log, d, e) => OvertakenIn(log', d, e)
    <3>1. /\ Len(log) \in Nat /\ Len(log') = Len(log) + 1
          /\ \A i \in 1 .. Len(log) : log'[i] = log[i]
      BY <2>2, LenZero, AppendProperties DEF CoreInv, WriteTypes
    <3>2. \A i \in 1 .. Len(log) : i \in 1 .. Len(log')
      BY <3>1
    <3> QED
      BY <3>1, <3>2 DEF OvertakenIn
  <2> QED
    BY <2>1, <2>2, LogGrows
<1> QED
  BY <1>1, RefusedGrows DEF ExcusedIn

(* The part of a step that computes the view anew. *)
LEMMA ShownEmit ==
  ASSUME OwnInv, BaseInv', NEW queue \in Seq(Mutation), ActiveQueue' = queue,
         queue = mutations' \/ queue = <<>>, NEW isCurrent,
         \/ EmitNewSnapshots(cache', queue, remoteKeys', isCurrent)
         \/ InitializeView(queue) /\ UNCHANGED cache,
         \A d \in DocIds :
           LET new == LocalDocument(d, cache'[d], queue)
               e == LocalDocument(d, cache[d], mutations).entry
           IN  new.committed /\ new.entry # NoDocument /\ e > 0 =>
                 LocalDocument(d, cache'[d], mutations').entry = e \/ ExcusedIn(refused', log', d, e),
         \A d, e : ExcusedIn(refused, log, d, e) => ExcusedIn(refused', log', d, e)
  PROVE  RemoteShown' /\ LocalShown'
<1>0. view \in DocumentView /\ cache' \in DocumentCache /\ LocalShown
  BY DEF BaseInv, ViewTypes, OwnInv, SyncInv, WriteInv, ShownInv
<1>1. PICK old \in DocumentView :
        /\ view' = ComputeDocumentChanges(old, cache', queue)
        /\ old = view \/ old = EmptyView
  BY <1>0, EmptyViewType DEF EmitNewSnapshots, InitializeView
<1>2. ASSUME NEW d \in DocIds
      PROVE  /\ ~ view'[d].local => view'[d].entry = LocalDocument(d, cache'[d], queue).entry
             /\ view'[d].local /\ view'[d].entry > 0 =>
                  \/ view'[d].entry = LocalDocument(d, cache'[d], mutations').entry
                  \/ ExcusedIn(refused', log', d, view'[d].entry)
  <2> DEFINE new == LocalDocument(d, cache'[d], queue)
  <2>1. \/ view'[d] = old[d] /\ old[d].local /\ new.committed /\ new.entry # NoDocument
        \/ view'[d].entry = new.entry /\ view'[d].local = new.local
    BY <1>0, <1>1, ComputeShows
  <2>2. CASE view'[d] = old[d] /\ old[d].local /\ new.committed /\ new.entry # NoDocument
    <3>1. old = view
      BY <1>1, <2>2 DEF EmptyView
    <3>2. view'[d] = view[d] /\ view[d].local
      BY <2>2, <3>1
    <3> HIDE DEF new
    <3>3. SUFFICES ASSUME view[d].entry > 0
                   PROVE  \/ view[d].entry = LocalDocument(d, cache'[d], mutations').entry
                          \/ ExcusedIn(refused', log', d, view[d].entry)
      BY <3>2
    <3>4. \/ view[d].entry = LocalDocument(d, cache[d], mutations).entry
          \/ ExcusedIn(refused, log, d, view[d].entry)
      BY <1>0, <3>2, <3>3 DEF LocalShown
    <3> QED
      BY <2>2, <3>3, <3>4 DEF new
  <2>3. CASE view'[d].entry = new.entry /\ view'[d].local = new.local
    <3>1. queue = <<>> => ~ new.local
      <4>1. ASSUME queue = <<>> PROVE new = Base(cache'[d])
        <5>1. \A i \in 1 .. Len(queue) : queue[i].id # d
          BY <4>1
        <5> QED
          BY <1>0, <5>1, LocalDocumentFacts DEF DocumentCache
      <4> HIDE DEF new
      <4>2. queue = <<>> => new.local = FALSE
        BY <4>1 DEF Base
      <4> QED
        BY <4>2
    <3> HIDE DEF new
    <3>2. view'[d].local => queue = mutations'
      BY <2>3, <3>1
    <3> QED
      BY <2>3, <3>2 DEF new
  <2> QED
    BY <2>1, <2>2, <2>3
<1>3. RemoteShown'
  BY <1>2 DEF RemoteShown
<1>4. LocalShown'
  BY <1>2 DEF LocalShown
<1> QED
  BY <1>3, <1>4

-----------------------------------------------------------------------------
(* The texts of the user stay. *)

(* Initially, nothing is shown. *)
LEMMA ShownInit == Init => ShownInv
<1> SUFFICES ASSUME Init PROVE ShownInv
  OBVIOUS
<1>1. BaseInv
  BY BaseInvInit
<1>2. EntryIsBatch
  <2>1. Len(log) = 1 /\ log[1].entry = -1
    BY DEF Init
  <2> QED
    BY <2>1 DEF EntryIsBatch
<1>3. ASSUME NEW d \in DocIds
      PROVE  /\ view[d].local = FALSE
             /\ view[d].entry = LocalDocument(d, cache[d], ActiveQueue).entry
  <2>1. view[d] = [entry |-> NoDocument, local |-> FALSE]
    BY DEF Init, EmptyView
  <2>2. cache[d].entry = NoDocument /\ cache[d] \in CachedDocument
    BY <1>1 DEF Init, BaseInv, ViewTypes, DocumentCache
  <2>3. ActiveQueue = <<>> /\ ActiveQueue \in Seq(Mutation)
    BY EmptySeq DEF Init, ActiveQueue
  <2>4. LocalDocument(d, cache[d], ActiveQueue) = Base(cache[d])
    <3>1. \A i \in 1 .. Len(ActiveQueue) : ActiveQueue[i].id # d
      BY <2>3
    <3> QED
      BY <2>2, <2>3, <3>1, LocalDocumentFacts
  <2> QED
    BY <2>1, <2>2, <2>4 DEF Base
<1> QED
  BY <1>2, <1>3 DEF ShownInv, RemoteShown, LocalShown

(* A step leaves what the view is computed from alone, or computes it anew. *)
LEMMA ViewSteps ==
  ASSUME SyncInv, [Next]_vars
  PROVE  \/ UNCHANGED <<view, cache, mutations, signedIn>>
         \/ \E isCurrent :
              \/ EmitNewSnapshots(cache', ActiveQueue', remoteKeys', isCurrent)
              \/ InitializeView(ActiveQueue') /\ UNCHANGED cache
<1> DEFINE Goal == \/ UNCHANGED <<view, cache, mutations, signedIn>>
                   \/ \E isCurrent :
                        \/ EmitNewSnapshots(cache', ActiveQueue', remoteKeys', isCurrent)
                        \/ InitializeView(ActiveQueue') /\ UNCHANGED cache
<1>0. CoreInv
  BY DEF SyncInv, WriteInv, BaseInv
<1>1. ASSUME NEW d \in DocIds, SaveNew(d) \/ SaveEdited(d) \/ DeleteJournal(d)
      PROVE  Goal
  <2>1. \E type : WriteMutations(type, d)
    BY <1>1 DEF SaveNew, SaveEdited, DeleteJournal
  <2>2. EmitNewSnapshots(cache', mutations', remoteKeys', current) /\ ActiveQueue' = mutations'
    BY <2>1 DEF WriteMutations, ActiveQueue
  <2> QED
    BY <2>2
<1>2. ASSUME OnWriteStreamHandshakeComplete \/ BackendHandles \/ OnWriteStreamClose
      PROVE  Goal
  BY <1>2 DEF OnWriteStreamHandshakeComplete, BackendHandles, BackendCommits, BackendRefuses,
              OnWriteStreamClose, viewVars
<1>3. ASSUME OnWriteStreamMutationResult
      PROVE  Goal
  <2>1. EmitNewSnapshots(cache', mutations', remoteKeys', current) /\ signedIn' = signedIn
    BY <1>3 DEF OnWriteStreamMutationResult, HandleSuccessfulWrite
  <2>2. ActiveQueue' = mutations'
    BY <1>0, <1>3, <2>1, MutationResultFacts DEF ActiveQueue
  <2> QED
    BY <2>1, <2>2
<1>4. ASSUME HandleWriteError
      PROVE  Goal
  <2>1. EmitNewSnapshots(cache', mutations', remoteKeys', current) /\ signedIn' = signedIn
    BY <1>4 DEF HandleWriteError, HandleRejectedWrite, RejectBatch
  <2>2. ActiveQueue' = mutations'
    BY <1>0, <1>4, <2>1, WriteErrorFacts DEF ActiveQueue
  <2> QED
    BY <2>1, <2>2
<1>5. ASSUME NEW updates, NEW keys, ApplyRemoteEvent(updates, keys)
      PROVE  Goal
  <2>1. EmitNewSnapshots(cache', mutations, remoteKeys', TRUE) /\ ActiveQueue' = mutations
    BY <1>5 DEF ApplyRemoteEvent, ActiveQueue
  <2> QED
    BY <2>1
<1>6. ASSUME NEW v, WatchSnapshot(v) \/ WatchListing(v)
      PROVE  Goal
  <2>1. PICK updates, keys : ApplyRemoteEvent(updates, keys)
    BY <1>6 DEF WatchSnapshot, WatchListing, RaiseWatchSnapshot
  <2> QED
    BY <1>5, <2>1
<1>7. ASSUME NEW d, ResolveLimbo(d)
      PROVE  Goal
  <2>1. PICK updates, keys : ApplyRemoteEvent(updates, keys)
    BY <1>7 DEF ResolveLimbo
  <2> QED
    BY <1>5, <2>1
<1>8. ASSUME GoOffline \/ SignOut \/ SignIn \/ Restart
      PROVE  Goal
  <2>1. UNCHANGED <<cache, mutations, remoteKeys>>
    BY <1>8 DEF GoOffline, SignOut, SignIn, Restart
  <2>2. CASE GoOffline
    <3>1. EmitNewSnapshots(cache, ActiveQueue, remoteKeys, FALSE) /\ ActiveQueue' = ActiveQueue
      BY <2>2 DEF GoOffline, ActiveQueue
    <3> QED
      BY <2>1, <3>1
  <2>3. CASE SignOut
    <3>1. EmitNewSnapshots(cache, <<>>, remoteKeys, current) /\ ActiveQueue' = <<>>
      BY <2>3 DEF SignOut, ActiveQueue
    <3> QED
      BY <2>1, <3>1
  <2>4. CASE SignIn
    <3>1. /\ EmitNewSnapshots(cache, mutations, remoteKeys, current) \/ InitializeView(mutations)
          /\ ActiveQueue' = mutations
      BY <2>1, <2>4 DEF SignIn, ActiveQueue
    <3> QED
      BY <2>1, <3>1
  <2>5. CASE Restart
    <3>1. InitializeView(ActiveQueue) /\ ActiveQueue' = ActiveQueue
      BY <2>1, <2>5 DEF Restart, ActiveQueue
    <3> QED
      BY <2>1, <3>1
  <2> QED
    BY <1>8, <2>2, <2>3, <2>4, <2>5
<1>9. ASSUME NEW d, NEW delete, OtherDevice(d, delete)
      PROVE  Goal
  BY <1>9 DEF OtherDevice, viewVars
<1>10. ASSUME UNCHANGED vars
       PROVE  Goal
  BY <1>10 DEF vars, viewVars
<1> HIDE DEF Goal
<1>11. Goal
  BY <1>1, <1>2, <1>3, <1>4, <1>6, <1>7, <1>8, <1>9, <1>10 DEF Next, WriteStream
<1> QED
  BY <1>11 DEF Goal

(* While the view waits with a document, its text in the cache and the queue *)
(* stays, or was refused or overtaken.                                       *)
LEMMA WaitingText ==
  ASSUME OwnInv, [Next]_vars, NEW d \in DocIds,
         LocalDocument(d, cache'[d], ActiveQueue').committed,
         LocalDocument(d, cache'[d], ActiveQueue').entry # NoDocument,
         LocalDocument(d, cache[d], mutations).entry > 0
  PROVE  LET e == LocalDocument(d, cache[d], mutations).entry
         IN  \/ LocalDocument(d, cache'[d], mutations').entry = e
             \/ ExcusedIn(refused', log', d, e)
<1> DEFINE e == LocalDocument(d, cache[d], mutations).entry
           f == LocalDocument(d, cache'[d], mutations').entry
<1>0. CoreInv /\ BaseInv /\ SyncInv
  BY DEF OwnInv, SyncInv, WriteInv, BaseInv
<1>1. mutations \in Seq(Mutation) /\ cache[d] \in CachedDocument
  BY <1>0 DEF CoreInv, WriteTypes, BaseInv, ViewTypes, DocumentCache
<1>2. ASSUME NEW k \in DocIds, SaveNew(k) \/ SaveEdited(k) \/ DeleteJournal(k)
      PROVE  f = e
  <2>1. PICK type \in {"set", "patch", "delete"} : WriteMutations(type, k)
    BY <1>2 DEF SaveNew, SaveEdited, DeleteJournal
  <2> DEFINE m == NewMutation(type, k)
  <2>2. m \in Mutation /\ mutations' = Append(mutations, m)
    BY <1>0, <2>1, WriteMutationsFacts
  <2>3. cache' = cache /\ ActiveQueue' = mutations' /\ m.id = k
    BY <2>1 DEF WriteMutations, ActiveQueue, NewMutation
  <2> HIDE DEF m
  <2>4. k # d
    BY <1>1, <2>2, <2>3, AppendOwn
  <2> QED
    BY <1>1, <2>2, <2>3, <2>4, EntryAppendOther
<1>3. ASSUME written' = written
      PROVE  f = e \/ ExcusedIn(refused', log', d, e)
  <2>1. \/ f = e
        \/ \E m \in refused' : m.batch = e
        \/ OvertakenIn(log, d, e)
        \/ f = NoDocument /\ signedIn'
    BY <1>3, TextStep
  <2>2. signedIn' => f # NoDocument
    BY DEF ActiveQueue
  <2>3. OvertakenIn(log, d, e) => OvertakenIn(log', d, e)
    BY <1>0, ExcusedStays
  <2> HIDE DEF e, f
  <2> QED
    BY <2>1, <2>2, <2>3 DEF ExcusedIn
<1>4. written' = written \/ \E k \in DocIds : SaveNew(k) \/ SaveEdited(k) \/ DeleteJournal(k)
  <2>1. ASSUME WriteStream \/ BackendHandles \/ OnWriteStreamClose
        PROVE  written' = written
    BY <2>1 DEF WriteStream, OnWriteStreamHandshakeComplete, OnWriteStreamMutationResult,
                HandleWriteError, BackendHandles, BackendCommits, BackendRefuses,
                OnWriteStreamClose, backendVars
  <2>2. ASSUME NEW v, WatchSnapshot(v) \/ WatchListing(v)
        PROVE  written' = written
    BY <2>2 DEF WatchSnapshot, WatchListing, RaiseWatchSnapshot, ApplyRemoteEvent, backendVars
  <2>3. ASSUME NEW k, ResolveLimbo(k)
        PROVE  written' = written
    BY <2>3 DEF ResolveLimbo, ApplyRemoteEvent, backendVars
  <2>4. ASSUME GoOffline \/ Restart \/ SignOut \/ SignIn
        PROVE  written' = written
    BY <2>4 DEF GoOffline, Restart, SignOut, SignIn, backendVars
  <2>5. ASSUME NEW k, NEW delete, OtherDevice(k, delete)
        PROVE  written' = written
    BY <2>5 DEF OtherDevice
  <2>6. ASSUME UNCHANGED vars
        PROVE  written' = written
    BY <2>6 DEF vars, backendVars
  <2> QED
    BY <2>1, <2>2, <2>3, <2>4, <2>5, <2>6 DEF Next
<1> QED
  BY <1>2, <1>3, <1>4

(* Every step keeps the invariant of what is shown. *)
LEMMA ShownStep ==
  ASSUME OwnInv, [Next]_vars
  PROVE  ShownInv'
<1>0. CoreInv /\ BaseInv /\ SyncInv /\ ShownInv
  BY DEF OwnInv, SyncInv, WriteInv, BaseInv
<1>1. EntryIsBatch'
  BY <1>0, EntryIsBatchStep DEF ShownInv
<1>2. \A d, e : ExcusedIn(refused, log, d, e) => ExcusedIn(refused', log', d, e)
  BY <1>0, ExcusedStays
<1>3. CASE UNCHANGED <<view, cache, mutations, signedIn>>
  <2>1. ActiveQueue' = ActiveQueue
    BY <1>3 DEF ActiveQueue
  <2>2. RemoteShown'
    BY <1>0, <1>3, <2>1 DEF ShownInv, RemoteShown
  <2>3. LocalShown'
    BY <1>0, <1>2, <1>3 DEF ShownInv, LocalShown
  <2> QED
    BY <1>1, <2>2, <2>3 DEF ShownInv
<1>4. ASSUME NEW isCurrent,
             \/ EmitNewSnapshots(cache', ActiveQueue', remoteKeys', isCurrent)
             \/ InitializeView(ActiveQueue') /\ UNCHANGED cache
      PROVE  ShownInv'
  <2> DEFINE queue == ActiveQueue'
  <2>1. BaseInv' /\ queue = ActiveQueue' /\ queue \in Seq(Mutation)
    BY <1>0, BaseInvStep, EmptySeq DEF BaseInv, CoreInv, WriteTypes, ActiveQueue
  <2>2. queue = mutations' \/ queue = <<>>
    BY DEF ActiveQueue
  <2>3. \A d \in DocIds :
           LET new == LocalDocument(d, cache'[d], queue)
               e == LocalDocument(d, cache[d], mutations).entry
           IN  new.committed /\ new.entry # NoDocument /\ e > 0 =>
                 LocalDocument(d, cache'[d], mutations').entry = e \/ ExcusedIn(refused', log', d, e)
    BY WaitingText
  <2>4. \/ EmitNewSnapshots(cache', queue, remoteKeys', isCurrent)
        \/ InitializeView(queue) /\ UNCHANGED cache
    BY <1>4
  <2> HIDE DEF queue
  <2>5. RemoteShown' /\ LocalShown'
    BY <1>2, <2>1, <2>2, <2>3, <2>4, ShownEmit
  <2> QED
    BY <1>1, <2>5 DEF ShownInv
<1> QED
  BY <1>0, <1>3, <1>4, ViewSteps

(* It holds always. *)
LEMMA OwnInvAlways == Spec => []OwnInv
<1>1. Init => OwnInv
  BY BaseInvInit, HistoryInit, OriginInit, CacheInit, ViewInit, ShownInit
     DEF WriteInv, SyncInv, OwnInv
<1>2. OwnInv /\ [Next]_vars => OwnInv'
  BY SyncInvStep, ShownStep DEF OwnInv
<1> QED
  BY <1>1, <1>2, PTL DEF Spec

(* A step takes a text of the user off the view only if it is excused. *)
LEMMA OwnTextStep ==
  ASSUME OwnInv, [Next]_vars
  PROVE  OwnTextStaysStep
<1> SUFFICES ASSUME NEW d \in DocIds, signedIn, signedIn', view[d].entry > 0,
                    view'[d].entry # view[d].entry, written' = written
             PROVE  \/ \E m \in refused' : m.batch = view[d].entry
                    \/ view'[d].entry = NoDocument /\ DeletedIn(log, d)
                    \/ OvertakenIn(log, d, view[d].entry)
  <2>1. DOMAIN log = 1 .. Len(log)
    BY DomainsAreLengths DEF OwnInv, SyncInv, WriteInv
  <2> QED
    BY <2>1 DEF OwnTextStaysStep, DeletedOnce, DeletedIn, OvertakenIn
<1> DEFINE e == LocalDocument(d, cache[d], mutations).entry
           f == LocalDocument(d, cache'[d], mutations').entry
<1>0. CoreInv /\ BaseInv /\ SyncInv /\ RemoteShown /\ LocalShown
  BY DEF OwnInv, SyncInv, WriteInv, BaseInv, ShownInv
<1>1. ActiveQueue = mutations /\ ActiveQueue' = mutations'
  BY DEF ActiveQueue
<1>2. view[d].entry = e \/ ExcusedIn(refused, log, d, view[d].entry)
  BY <1>0, <1>1 DEF RemoteShown, LocalShown
<1>3. CASE ExcusedIn(refused, log, d, view[d].entry)
  BY <1>3, RefusedGrows DEF ExcusedIn
<1>4. CASE view[d].entry = e
  <2>1. \/ f = e
        \/ \E m \in refused' : m.batch = e
        \/ OvertakenIn(log, d, e)
        \/ f = NoDocument /\ DeletedIn(log, d)
    BY <1>4, TextStep
  <2>2. view'[d].entry = f
    <3>1. PICK isCurrent :
            \/ EmitNewSnapshots(cache', mutations', remoteKeys', isCurrent)
            \/ InitializeView(mutations') /\ UNCHANGED cache
      BY <1>0, <1>1, ViewSteps
    <3>2. /\ view \in DocumentView /\ cache' \in DocumentCache
          /\ mutations' \in Seq(Mutation)
      BY <1>0, BaseInvStep DEF BaseInv, ViewTypes, CoreInv, WriteTypes
    <3>3. PICK old \in DocumentView :
            /\ view' = ComputeDocumentChanges(old, cache', mutations')
            /\ old = view \/ old = EmptyView
      BY <3>1, <3>2, EmptyViewType DEF EmitNewSnapshots, InitializeView
    <3>4. \/ view'[d] = old[d] /\ old[d].local
          \/ view'[d].entry = f
      BY <3>2, <3>3, ComputeShows
    <3>5. CASE view'[d] = old[d] /\ old[d].local
      BY <3>3, <3>5 DEF EmptyView
    <3> QED
      BY <3>4, <3>5
  <2> HIDE DEF e, f
  <2> QED
    BY <1>4, <2>1, <2>2
<1> QED
  BY <1>2, <1>3, <1>4

(***************************************************************************)
(* While the user is in, a text of this device that is on the list stays   *)
(* there while its acknowledgement, the watch stream and restarts of the   *)
(* app race each other: it goes only with a new write of the user, a       *)
(* refusal, the deletion of the journal or a later commit for the same     *)
(* journal.                                                                *)
(***************************************************************************)
THEOREM OwnTextIsKept == Spec => OwnTextStays
<1>1. OwnInv /\ [Next]_vars => [OwnTextStaysStep]_vars
  BY OwnTextStep
<1> QED
  BY <1>1, OwnInvAlways, PTL DEF Spec, OwnTextStays

=============================================================================
