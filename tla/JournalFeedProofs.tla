-------------------------- MODULE JournalFeedProofs --------------------------
(***************************************************************************)
(* Proofs about JournalFeed, for every set of document ids and entries and *)
(* every bound.                                                            *)
(***************************************************************************)
EXTENDS JournalFeed, FiniteSetTheorems, TLAPS

-----------------------------------------------------------------------------
(* The changes between two document sets. *)

(* Two changes between the same document sets that are about the same      *)
(* document are the same change.                                           *)
LEMMA DocumentChangesFacts ==
  ASSUME NEW old \in DocumentSet, NEW new \in DocumentSet
  PROVE  /\ DocumentChanges(old, new) \subseteq Change
         /\ \A c1, c2 \in DocumentChanges(old, new) : c1.id = c2.id => c1 = c2
         /\ \A d \in DocIds : old[d] # new[d] =>
              \E c \in DocumentChanges(old, new) : c.id = d
<1>1. /\ DocumentChanges(old, new) \subseteq Change
      /\ \A c1, c2 \in DocumentChanges(old, new) : c1.id = c2.id => c1 = c2
  BY DEF DocumentChanges, Removed, Added, Modified, Keys, DocumentSet, Change
<1>2. ASSUME NEW d \in DocIds, old[d] # new[d]
      PROVE  \E c \in DocumentChanges(old, new) : c.id = d
  <2>1. CASE new[d] = NoDocument
    <3> DEFINE c == [type |-> "removed", id |-> d, doc |-> old[d]]
    <3>1. c \in Removed(old, new)
      BY <1>2, <2>1 DEF Removed, Keys
    <3> QED
      BY <3>1 DEF DocumentChanges
  <2>2. CASE old[d] = NoDocument
    <3> DEFINE c == [type |-> "added", id |-> d, doc |-> new[d]]
    <3>1. c \in Added(old, new)
      BY <1>2, <2>2 DEF Added, Keys
    <3> QED
      BY <3>1 DEF DocumentChanges
  <2>3. CASE old[d] # NoDocument /\ new[d] # NoDocument
    <3> DEFINE c == [type |-> "modified", id |-> d, doc |-> new[d]]
    <3>1. c \in Modified(old, new)
      BY <1>2, <2>3 DEF Modified, Keys
    <3> QED
      BY <3>1 DEF DocumentChanges
  <2> QED
    BY <2>1, <2>2, <2>3
<1> QED
  BY <1>1, <1>2

(* There are no more changes than documents. *)
LEMMA DocumentChangesFinite ==
  ASSUME NEW old \in DocumentSet, NEW new \in DocumentSet
  PROVE  Cardinality(DocumentChanges(old, new)) \in Nat
<1> DEFINE S == DocumentChanges(old, new)
           f == [c \in S |-> c.id]
<1>1. f \in Injection(S, DocIds)
  BY DocumentChangesFacts DEF Injection, IsInjective, Change
<1>2. IsFiniteSet(S)
  BY <1>1, FS_Injection, DocIdsAssumption
<1> QED
  BY <1>2, FS_CardinalityType

(***************************************************************************)
(* What a snapshot carries: a sequence of changes that belong to the two   *)
(* document sets, one for every document that differs and at most one for  *)
(* any document.                                                           *)
(***************************************************************************)
LEMMA SortedChangesFacts ==
  ASSUME NEW old \in DocumentSet, NEW new \in DocumentSet,
         NEW s \in SortedChanges(old, new)
  PROVE  /\ s \in Seq(Change)
         /\ \A i \in DOMAIN s : s[i] \in DocumentChanges(old, new)
         /\ \A i, j \in DOMAIN s : s[i].id = s[j].id => i = j
         /\ \A d \in DocIds : old[d] # new[d] => \E i \in DOMAIN s : s[i].id = d
<1> DEFINE S == DocumentChanges(old, new)
           n == Cardinality(S)
<1>1. /\ n \in Nat
      /\ S \subseteq Change
  BY DocumentChangesFinite, DocumentChangesFacts
<1>2. /\ s \in [1 .. n -> S]
      /\ \A i, j \in DOMAIN s : i < j => ChangeBefore(s[i], s[j])
      /\ \A c \in S : \E i \in DOMAIN s : s[i] = c
  BY DEF SortedChanges
<1> HIDE DEF n, S
<1>3. s \in Seq(Change) /\ DOMAIN s = 1 .. n
  BY <1>1, <1>2
<1>4. ASSUME NEW c \in S
      PROVE  ~ ChangeBefore(c, c)
  <2>1. c.doc.date \in Nat /\ c.id \in Nat
    BY <1>1, EntriesAssumption, DocIdsAssumption DEF Change
  <2>2. TypePosition[c.type] \in Nat
    BY <1>1 DEF Change, TypePosition
  <2> QED
    BY <2>1, <2>2 DEF ChangeBefore, QueryBefore
<1>5. ASSUME NEW i \in DOMAIN s, NEW j \in DOMAIN s, s[i].id = s[j].id
      PROVE  i = j
  <2>1. s[i] \in S /\ s[j] \in S
    BY <1>2
  <2>2. s[i] = s[j]
    BY <1>5, <2>1, DocumentChangesFacts DEF S
  <2>3. ~ (i < j) /\ ~ (j < i)
    BY <1>2, <1>4, <2>1, <2>2
  <2> QED
    BY <1>3, <1>1, <2>3
<1>6. ASSUME NEW d \in DocIds, old[d] # new[d]
      PROVE  \E i \in DOMAIN s : s[i].id = d
  BY <1>2, <1>6, DocumentChangesFacts DEF S
<1> QED
  BY <1>2, <1>3, <1>5, <1>6 DEF S

-----------------------------------------------------------------------------
(* Types. *)

(* The head and the tail of a nonempty sequence. *)
LEMMA HeadTailFacts ==
  ASSUME NEW T, NEW s \in Seq(T), s # <<>>
  PROVE  /\ Len(s) \in Nat \ {0} /\ DOMAIN s = 1 .. Len(s)
         /\ Head(s) = s[1] /\ Head(s) \in T
         /\ Tail(s) \in Seq(T)
         /\ Len(Tail(s)) = Len(s) - 1 /\ DOMAIN Tail(s) = 1 .. Len(s) - 1
         /\ \A i \in 1 .. Len(s) - 1 : Tail(s)[i] = s[i + 1]
OBVIOUS

(* No documents are a document set. *)
LEMMA EmptyDocumentSetType == EmptyDocumentSet \in DocumentSet
BY DEF EmptyDocumentSet, DocumentSet

(* A snapshot is an event. *)
LEMMA SnapshotType ==
  ASSUME NEW old \in DocumentSet, NEW new \in DocumentSet,
         NEW s \in SortedChanges(old, new)
  PROVE  Snapshot(old, new, s) \in Event
BY SortedChangesFacts DEF Snapshot, Event

(* The journal of an entry has its id and texts. *)
LEMMA JournalFacts ==
  ASSUME NEW d \in DocIds, NEW e \in Entries
  PROVE  /\ Journal(d, e) \in JournalType
         /\ Journal(d, e).id = d
         /\ Journal(d, e).title = e.title
         /\ Journal(d, e).description = e.description
BY DEF Journal, JournalType

(* Whether or not it is due, the initial event leaves the queue well typed. *)
LEMMA InitialEventType ==
  ASSUME TypeOK, NEW new \in DocumentSet, NEW isSynced, NEW state,
         RaiseInitialEventIfDue(new, isSynced, state)
  PROVE  queue' \in Seq(Event) /\ listener' \in {"waiting", "raised"}
<1>1. CASE RaiseInitialEvent(new) /\ listener' = "raised"
  <2>1. PICK s \in SortedChanges(EmptyDocumentSet, new) :
          queue' = Append(queue, Snapshot(EmptyDocumentSet, new, s))
    BY <1>1 DEF RaiseInitialEvent
  <2>2. Snapshot(EmptyDocumentSet, new, s) \in Event
    BY EmptyDocumentSetType, SnapshotType
  <2> QED
    BY <1>1, <2>1, <2>2 DEF TypeOK
<1>2. CASE listener' = "waiting" /\ UNCHANGED queue
  BY <1>2 DEF TypeOK
<1> QED
  BY <1>1, <1>2 DEF RaiseInitialEventIfDue

(* remove(at: i) keeps the type and shortens the list by one. *)
LEMMA WithoutFacts ==
  ASSUME NEW T, NEW list \in Seq(T), NEW i \in DOMAIN list
  PROVE  /\ Without(list, i) \in Seq(T)
         /\ Len(Without(list, i)) = Len(list) - 1
         /\ DOMAIN Without(list, i) = 1 .. Len(list) - 1
         /\ \A j \in 1 .. Len(list) - 1 :
              Without(list, i)[j] = IF j < i THEN list[j] ELSE list[j + 1]
<1>1. Len(list) \in Nat /\ Len(list) - 1 \in Nat /\ i \in 1 .. Len(list)
  OBVIOUS
<1>2. \A j \in 1 .. Len(list) - 1 :
        (IF j < i THEN list[j] ELSE list[j + 1]) \in T
  BY <1>1
<1> QED
  BY <1>1, <1>2 DEF Without

(* What the "modified" branch makes of the list. *)
LEMMA WithTextsFacts ==
  ASSUME NEW list \in Seq(JournalType), NEW d \in DocIds, NEW e \in Entries
  PROVE  /\ WithTexts(list, d, e) \in Seq(JournalType)
         /\ DOMAIN WithTexts(list, d, e) = DOMAIN list
         /\ Len(WithTexts(list, d, e)) = Len(list)
         /\ \A i \in DOMAIN list :
              LET j == WithTexts(list, d, e)[i] IN
              /\ j.id = list[i].id
              /\ list[i].id # d => j = list[i]
              /\ list[i].id = d => j.title = e.title /\ j.description = e.description
<1>1. Len(list) \in Nat /\ DOMAIN list = 1 .. Len(list)
  OBVIOUS
<1>2. \A i \in DOMAIN list : list[i] \in JournalType
  BY <1>1
<1>3. DOMAIN WithTexts(list, d, e) = DOMAIN list
  BY DEF WithTexts
<1>4. ASSUME NEW i \in DOMAIN list
      PROVE  LET j == WithTexts(list, d, e)[i] IN
             /\ j \in JournalType
             /\ j.id = list[i].id
             /\ list[i].id # d => j = list[i]
             /\ list[i].id = d => j.title = e.title /\ j.description = e.description
  BY <1>2 DEF WithTexts, JournalType
<1>5. /\ WithTexts(list, d, e) \in Seq(JournalType)
      /\ Len(WithTexts(list, d, e)) = Len(list)
  <2>1. WithTexts(list, d, e) \in [1 .. Len(list) -> JournalType]
    BY <1>1, <1>3, <1>4 DEF WithTexts
  <2> HIDE DEF WithTexts
  <2> QED
    BY <1>1, <2>1
<1> QED
  BY <1>3, <1>4, <1>5

(* Every step keeps the types. *)
LEMMA TypeOKStep == TypeOK /\ [Next]_vars => TypeOK'
<1> SUFFICES ASSUME TypeOK, [Next]_vars
             PROVE  TypeOK'
  OBVIOUS
<1> USE DEF workerVars, getDataVars, callVars
<1>1. CASE Listen
  <2>1. queue' \in Seq(Event) /\ listener' \in {"waiting", "raised"}
    BY <1>1, InitialEventType DEF Listen, TypeOK
  <2> QED
    BY <1>1, <2>1 DEF Listen, TypeOK
<1>2. ASSUME NEW new \in DocumentSet, NEW isSynced \in BOOLEAN,
             OnFirstViewSnapshot(new, isSynced)
      PROVE  TypeOK'
  <2>1. queue' \in Seq(Event) /\ listener' \in {"waiting", "raised"}
    BY <1>2, InitialEventType DEF OnFirstViewSnapshot
  <2> QED
    BY <1>2, <2>1 DEF OnFirstViewSnapshot, ViewMoves, TypeOK
<1>3. ASSUME NEW new \in DocumentSet, NEW isSynced \in BOOLEAN,
             OnViewSnapshot(new, isSynced)
      PROVE  TypeOK'
  <2>1. PICK s \in SortedChanges(docs, new) :
          queue' = IF s = <<>> THEN queue ELSE Append(queue, Snapshot(docs, new, s))
    BY <1>3 DEF OnViewSnapshot
  <2>2. Snapshot(docs, new, s) \in Event
    BY SnapshotType DEF TypeOK
  <2>3. queue' \in Seq(Event)
    BY <2>1, <2>2 DEF TypeOK
  <2> QED
    BY <1>3, <2>3 DEF OnViewSnapshot, ViewMoves, TypeOK
<1>4. ASSUME NEW state \in OnlineStates, OnlineStateChange(state)
      PROVE  TypeOK'
  <2>1. synced' \in BOOLEAN
    BY <1>4 DEF OnlineStateChange
  <2>2. /\ queue' \in Seq(Event)
        /\ listener' \in {"none", "waiting", "raised", "removed"}
    BY <1>4, <2>1, InitialEventType DEF OnlineStateChange, TypeOK
  <2> QED
    BY <1>4, <2>1, <2>2 DEF OnlineStateChange, TypeOK
<1>5. CASE ListenRejected
  <2>1. ErrorEvent \in Event
    BY DEF ErrorEvent, Event, TypeOK
  <2> QED
    BY <1>5, <2>1 DEF ListenRejected, TypeOK
<1>6. CASE HandleError
  BY <1>6 DEF HandleError, TypeOK
<1>7. CASE HandleEmpty
  <2>1. Head(queue).documents \in DocumentSet
    <3>1. Head(queue) \in Event
      BY <1>7, HeadTailFacts DEF HandleEmpty, TypeOK
    <3> QED
      BY <3>1 DEF Event
  <2> QED
    BY <1>7, <2>1 DEF HandleEmpty, TypeOK
<1>8. CASE HandleChanges
  <2>1. Head(queue).documents \in DocumentSet /\ Head(queue).changes \in Seq(Change)
    <3>1. Head(queue) \in Event
      BY <1>8, HeadTailFacts DEF HandleChanges, TypeOK
    <3> QED
      BY <3>1 DEF Event
  <2> QED
    BY <1>8, <2>1 DEF HandleChanges, TypeOK
<1>9. CASE HandleAdded
  <2>1. Head(todo).id \in DocIds /\ Head(todo).doc \in Entries
    <3>1. Head(todo) \in Change
      BY <1>9, HeadTailFacts DEF HandleAdded, NextChange, TypeOK
    <3> QED
      BY <3>1 DEF Change
  <2>2. datas' \in Seq(JournalType)
    BY <1>9, <2>1, JournalFacts DEF HandleAdded, TypeOK
  <2> QED
    BY <1>9, <2>2 DEF HandleAdded, NextChange, TypeOK
<1>10. CASE HandleModified
  <2>1. Head(todo).id \in DocIds /\ Head(todo).doc \in Entries
    <3>1. Head(todo) \in Change
      BY <1>10, HeadTailFacts DEF HandleModified, NextChange, TypeOK
    <3> QED
      BY <3>1 DEF Change
  <2>2. datas' \in Seq(JournalType)
    BY <1>10, <2>1, WithTextsFacts DEF HandleModified, TypeOK
  <2>3. todo' \in Seq(Change)
    BY <1>10, HeadTailFacts DEF HandleModified, NextChange, TypeOK
  <2> QED
    BY <1>10, <2>2, <2>3 DEF HandleModified, TypeOK
<1>11. CASE HandleRemoved
  <2>1. PICK i \in DOMAIN datas : datas' = Without(datas, i)
    BY <1>11 DEF HandleRemoved
  <2>2. datas' \in Seq(JournalType)
    BY <2>1, WithoutFacts DEF TypeOK
  <2>3. noData' \in BOOLEAN /\ dropped' \in BOOLEAN
    BY <1>11 DEF HandleRemoved
  <2> QED
    BY <1>11, <2>2, <2>3 DEF HandleRemoved, TypeOK
<1>12. CASE SkipRemoved
  BY <1>12 DEF SkipRemoved, NextChange, TypeOK
<1>13. CASE Return
  BY <1>13 DEF Return, TypeOK
<1>14. CASE UNCHANGED vars
  BY <1>14 DEF vars, TypeOK
<1> QED
  BY <1>1, <1>2, <1>3, <1>4, <1>5, <1>6, <1>7, <1>8, <1>9, <1>10, <1>11,
     <1>12, <1>13, <1>14 DEF Next, Worker, MainThread

(* Every variable of JournalFeed keeps its type. *)
THEOREM TypeCorrect == Spec => []TypeOK
<1>1. Init => TypeOK
  <2> SUFFICES ASSUME Init PROVE TypeOK
    OBVIOUS
  <2>1. queue \in Seq(Event) /\ todo \in Seq(Change) /\ datas \in Seq(JournalType)
    BY DEF Init
  <2> QED
    BY <2>1, EmptyDocumentSetType DEF Init, TypeOK
<1> QED
  BY <1>1, TypeOKStep, PTL DEF Spec

-----------------------------------------------------------------------------
(* The worker queue: events are appended, the list is left alone. *)

(* Appending the next snapshot of the view continues the chain. *)
LEMMA AppendSnapshot ==
  ASSUME TypeOK, EventsChain, NEW new \in DocumentSet, NEW old \in DocumentSet,
         NEW s \in SortedChanges(old, new), listener # "removed",
         old = IF queue = <<>> THEN Base ELSE queue[Len(queue)].documents,
         queue' = Append(queue, Snapshot(old, new, s)), Base' = Base
  PROVE  /\ EventsChain'
         /\ queue' # <<>> /\ queue'[Len(queue')].documents = new
<1> DEFINE ev == Snapshot(old, new, s)
<1>1. ev \in Event /\ ~ ev.err /\ ev.old_documents = old /\ ev.documents = new
      /\ ev.changes = s
  BY SnapshotType DEF Snapshot
<1> HIDE DEF ev
<1>2. queue \in Seq(Event)
  BY DEF TypeOK
<1>3. /\ Len(queue') = Len(queue) + 1 /\ Len(queue) \in Nat
      /\ queue'[Len(queue) + 1] = ev
      /\ \A i \in 1 .. Len(queue) : queue'[i] = queue[i]
  BY <1>1, <1>2 DEF ev
<1>4. ASSUME NEW i \in 1 .. Len(queue')
      PROVE  /\ ~ queue'[i].err
             /\ queue'[i].old_documents = IF i = 1 THEN Base ELSE queue'[i - 1].documents
             /\ queue'[i].changes \in
                  SortedChanges(queue'[i].old_documents, queue'[i].documents)
  <2>1. CASE i = Len(queue) + 1
    <3>1. CASE queue = <<>>
      BY <1>1, <1>3, <2>1, <3>1
    <3>2. CASE queue # <<>>
      <4>1. Len(queue) # 0
        BY <1>2, <3>2
      <4> QED
        BY <1>1, <1>3, <2>1, <3>2, <4>1
    <3> QED
      BY <3>1, <3>2
  <2>2. CASE i \in 1 .. Len(queue)
    <3>1. /\ ~ queue[i].err
          /\ queue[i].old_documents = IF i = 1 THEN Base ELSE queue[i - 1].documents
          /\ queue[i].changes \in SortedChanges(queue[i].old_documents, queue[i].documents)
      BY <2>2 DEF EventsChain
    <3>2. i # 1 => i - 1 \in 1 .. Len(queue)
      BY <1>3, <2>2
    <3> QED
      BY <1>3, <2>2, <3>1, <3>2
  <2> QED
    BY <1>3, <2>1, <2>2
<1> QED
  BY <1>1, <1>3, <1>4 DEF EventsChain

(* A listener that has raised nothing raises its first event, or waits. *)
LEMMA InitialEventInv ==
  ASSUME TypeOK, EventsChain, ListenerInStep, listener \in {"none", "waiting"},
         NEW new \in DocumentSet, NEW isSynced, NEW state, docs' = new,
         RaiseInitialEventIfDue(new, isSynced, state), UNCHANGED callVars
  PROVE  EventsChain' /\ ListenerInStep'
<1>1. Base' = Base /\ Base = shown
  BY DEF callVars, Base, ListenerInStep
<1>2. queue = <<>> /\ ~ running /\ shown = EmptyDocumentSet
  BY DEF ListenerInStep
<1>3. CASE RaiseInitialEvent(new) /\ listener' = "raised"
  <2>1. PICK s \in SortedChanges(EmptyDocumentSet, new) :
          queue' = Append(queue, Snapshot(EmptyDocumentSet, new, s))
    BY <1>3 DEF RaiseInitialEvent
  <2>2. EventsChain' /\ queue' # <<>> /\ queue'[Len(queue')].documents = new
    BY <1>1, <1>2, <2>1, AppendSnapshot, EmptyDocumentSetType
  <2> QED
    BY <1>3, <2>2 DEF ListenerInStep
<1>4. CASE listener' = "waiting" /\ UNCHANGED queue
  <2>1. EventsChain'
    BY <1>2, <1>4 DEF EventsChain
  <2> QED
    BY <1>2, <1>4, <2>1 DEF ListenerInStep, callVars
<1> QED
  BY <1>3, <1>4 DEF RaiseInitialEventIfDue

(* A step of the worker extends the chain of events, and nothing else. *)
LEMMA WorkerStep ==
  ASSUME TypeOK, EventsChain, ListenerInStep, Worker
  PROVE  EventsChain' /\ ListenerInStep' /\ UNCHANGED <<getDataVars, callVars>>
<1>1. CASE Listen
  <2>1. UNCHANGED <<getDataVars, callVars>> /\ docs' = docs /\ docs \in DocumentSet
    BY <1>1 DEF Listen, TypeOK
  <2> QED
    BY <1>1, <2>1, InitialEventInv DEF Listen
<1>2. ASSUME NEW new \in DocumentSet, NEW isSynced \in BOOLEAN,
             OnFirstViewSnapshot(new, isSynced)
      PROVE  EventsChain' /\ ListenerInStep' /\ UNCHANGED <<getDataVars, callVars>>
  BY <1>2, InitialEventInv DEF OnFirstViewSnapshot, ViewMoves
<1>3. ASSUME NEW new \in DocumentSet, NEW isSynced \in BOOLEAN,
             OnViewSnapshot(new, isSynced)
      PROVE  EventsChain' /\ ListenerInStep' /\ UNCHANGED <<getDataVars, callVars>>
  <2>1. PICK s \in SortedChanges(docs, new) :
          queue' = IF s = <<>> THEN queue ELSE Append(queue, Snapshot(docs, new, s))
    BY <1>3 DEF OnViewSnapshot
  <2>2. /\ listener = "raised" /\ listener' = "raised"
        /\ UNCHANGED <<getDataVars, callVars>> /\ docs' = new /\ docs \in DocumentSet
    BY <1>3 DEF OnViewSnapshot, ViewMoves, TypeOK
  <2>3. Base' = Base
    BY <2>2 DEF callVars, Base
  <2>4. docs = IF queue = <<>> THEN Base ELSE queue[Len(queue)].documents
    BY <2>2 DEF ListenerInStep
  <2>5. CASE s = <<>>
    <3>1. new = docs
      <4>1. \A d \in DocIds : docs[d] = new[d]
        BY <2>2, <2>5, SortedChangesFacts
      <4> QED
        BY <2>2, <4>1 DEF DocumentSet
    <3>2. queue' = queue
      BY <2>1, <2>5
    <3> QED
      BY <2>2, <2>3, <2>4, <3>1, <3>2 DEF EventsChain, ListenerInStep
  <2>6. CASE s # <<>>
    <3>1. EventsChain' /\ queue' # <<>> /\ queue'[Len(queue')].documents = new
      BY <2>1, <2>2, <2>3, <2>4, <2>6, AppendSnapshot
    <3> QED
      BY <2>2, <3>1 DEF ListenerInStep
  <2> QED
    BY <2>5, <2>6
<1>4. ASSUME NEW state \in OnlineStates, OnlineStateChange(state)
      PROVE  EventsChain' /\ ListenerInStep' /\ UNCHANGED <<getDataVars, callVars>>
  <2>1. UNCHANGED <<getDataVars, callVars>> /\ docs' = docs /\ docs \in DocumentSet
    BY <1>4 DEF OnlineStateChange, TypeOK
  <2>2. CASE listener = "waiting" /\ RaiseInitialEventIfDue(docs, synced', state)
    BY <2>1, <2>2, InitialEventInv
  <2>3. CASE UNCHANGED <<listener, queue>>
    BY <2>1, <2>3 DEF EventsChain, ListenerInStep, Base, callVars
  <2> QED
    BY <1>4, <2>1, <2>2, <2>3 DEF OnlineStateChange
<1>5. CASE ListenRejected
  <2>1. /\ queue' = Append(queue, ErrorEvent) /\ listener' = "removed"
        /\ UNCHANGED <<getDataVars, callVars>> /\ listener # "removed"
    BY <1>5 DEF ListenRejected
  <2>2. ErrorEvent \in Event /\ ErrorEvent.err /\ queue \in Seq(Event)
    BY DEF ErrorEvent, Event, TypeOK
  <2> HIDE DEF ErrorEvent
  <2>3. /\ Len(queue') = Len(queue) + 1 /\ Len(queue) \in Nat
        /\ queue'[Len(queue) + 1] = ErrorEvent
        /\ \A i \in 1 .. Len(queue) : queue'[i] = queue[i]
    BY <2>1, <2>2
  <2>4. Base' = Base
    BY <2>1 DEF callVars, Base
  <2>5. EventsChain'
    BY <2>1, <2>2, <2>3, <2>4 DEF EventsChain
  <2> QED
    BY <2>1, <2>5 DEF ListenerInStep
<1> QED
  BY <1>1, <1>2, <1>3, <1>4, <1>5 DEF Worker

-----------------------------------------------------------------------------
(* The main thread takes an event. *)

(* When the closure is done with the first event, or starts on it, the     *)
(* others still chain.                                                     *)
LEMMA TakeEvent ==
  ASSUME TypeOK, EventsChain, ListenerInStep, ~ running, queue # <<>>,
         ~ Head(queue).err, queue' = Tail(queue), UNCHANGED workerVars,
         Base' = Head(queue).documents
  PROVE  /\ EventsChain' /\ ListenerInStep'
         /\ Head(queue).documents \in DocumentSet
         /\ Head(queue).changes \in SortedChanges(shown, Head(queue).documents)
<1>1. queue \in Seq(Event) /\ shown \in DocumentSet
  BY DEF TypeOK
<1>2. /\ Len(queue) \in Nat \ {0}
      /\ Head(queue) = queue[1] /\ Head(queue) \in Event
      /\ queue' \in Seq(Event) /\ Len(queue') = Len(queue) - 1
      /\ \A i \in 1 .. Len(queue) - 1 : queue'[i] = queue[i + 1]
  BY <1>1, HeadTailFacts
<1>3. /\ Head(queue).documents \in DocumentSet
      /\ Head(queue).changes \in SortedChanges(shown, Head(queue).documents)
  <2>1. 1 \in 1 .. Len(queue) /\ Base = shown
    BY <1>2 DEF Base
  <2>2. /\ queue[1].old_documents = shown
        /\ queue[1].changes \in SortedChanges(queue[1].old_documents, queue[1].documents)
    BY <1>2, <2>1 DEF EventsChain
  <2> QED
    BY <1>2, <2>2 DEF Event
<1>4. EventsChain'
  <2> SUFFICES ASSUME NEW i \in 1 .. Len(queue')
               PROVE  \/ queue'[i].err /\ i = Len(queue') /\ listener' = "removed"
                      \/ /\ ~ queue'[i].err
                         /\ queue'[i].old_documents =
                              IF i = 1 THEN Base' ELSE queue'[i - 1].documents
                         /\ queue'[i].changes \in
                              SortedChanges(queue'[i].old_documents, queue'[i].documents)
    BY DEF EventsChain
  <2>1. i + 1 \in 1 .. Len(queue) /\ i + 1 # 1 /\ queue'[i] = queue[i + 1]
        /\ (i + 1) - 1 = i
    BY <1>2
  <2>2. \/ queue[i + 1].err /\ i + 1 = Len(queue) /\ listener = "removed"
        \/ /\ ~ queue[i + 1].err
           /\ queue[i + 1].old_documents = queue[i].documents
           /\ queue[i + 1].changes \in
                SortedChanges(queue[i + 1].old_documents, queue[i + 1].documents)
    BY <2>1 DEF EventsChain
  <2>3. queue[i].documents = IF i = 1 THEN Base' ELSE queue'[i - 1].documents
    <3>1. i # 1 => i - 1 \in 1 .. Len(queue) - 1 /\ (i - 1) + 1 = i
      BY <1>2
    <3> QED
      BY <1>2, <3>1
  <2> QED
    BY <1>2, <2>1, <2>2, <2>3 DEF workerVars
<1>5. ListenerInStep'
  <2>1. listener \notin {"none", "waiting"} /\ listener' = listener /\ docs' = docs
    BY DEF ListenerInStep, workerVars
  <2>2. CASE listener = "raised"
    <3>1. docs = queue[Len(queue)].documents
      BY <2>2 DEF ListenerInStep
    <3>2. CASE Len(queue) = 1
      <4>1. queue' = <<>>
        BY <1>1, <1>2, <3>2, HeadTailFacts
      <4> QED
        BY <1>2, <2>1, <2>2, <3>1, <3>2, <4>1 DEF ListenerInStep
    <3>3. CASE Len(queue) # 1
      <4>1. queue'[Len(queue')] = queue[Len(queue)] /\ Len(queue') # 0
        BY <1>2, <3>3
      <4>2. queue' # <<>>
        BY <1>2, <4>1
      <4> QED
        BY <2>1, <2>2, <3>1, <4>1, <4>2 DEF ListenerInStep
    <3> QED
      BY <3>2, <3>3
  <2> QED
    BY <2>1, <2>2 DEF ListenerInStep
<1> QED
  BY <1>3, <1>4, <1>5

(* A set of document changes from the empty set is a set of additions. *)
LEMMA FirstChangesAreAdded ==
  ASSUME NEW new \in DocumentSet, NEW c \in DocumentChanges(EmptyDocumentSet, new)
  PROVE  c.type = "added"
BY DEF DocumentChanges, Removed, Added, Modified, Keys, EmptyDocumentSet

(* What a change says about the two document sets. *)
LEMMA ChangeMeaning ==
  ASSUME NEW old \in DocumentSet, NEW new \in DocumentSet,
         NEW c \in DocumentChanges(old, new)
  PROVE  /\ c.id \in DocIds
         /\ c.type = "added" => /\ old[c.id] = NoDocument
                                /\ new[c.id] # NoDocument
                                /\ c.doc = new[c.id]
         /\ c.type = "modified" => /\ old[c.id] # NoDocument
                                   /\ new[c.id] # NoDocument
                                   /\ c.doc = new[c.id]
         /\ c.type = "removed" => /\ old[c.id] # NoDocument
                                  /\ new[c.id] = NoDocument
BY DEF DocumentChanges, Removed, Added, Modified, Keys

(* An error is the last event, and changes no list. *)
LEMMA ErrorStep ==
  ASSUME TypeOK, FeedInv, HandleError
  PROVE  FeedInv'
<1> USE DEF HandleError
<1>1. queue \in Seq(Event) /\ Head(queue) = queue[1] /\ 1 \in 1 .. Len(queue)
  BY HeadTailFacts DEF TypeOK
<1>2. Len(queue) = 1 /\ listener = "removed"
  BY <1>1 DEF FeedInv, EventsChain
<1>3. queue' = <<>>
  BY <1>1, <1>2, HeadTailFacts DEF TypeOK
<1>4. EventsChain' /\ ListenerInStep'
  <2>1. 1 .. Len(queue') = {} /\ listener' = "removed"
    BY <1>2, <1>3 DEF workerVars
  <2>2. EventsChain'
    BY <2>1 DEF EventsChain
  <2>3. ListenerInStep'
    BY <2>1 DEF ListenerInStep
  <2> QED
    BY <2>2, <2>3
<1>5. LoopInStep' /\ SpinnerOnlyAtFirst'
  BY DEF FeedInv, LoopInStep, SpinnerOnlyAtFirst
<1>6. Reflected' = Reflected
  BY DEF Reflected
<1>7. MirrorInLoop'
  BY <1>6 DEF FeedInv, MirrorInLoop
<1> QED
  BY <1>4, <1>5, <1>7 DEF FeedInv

(* A snapshot without changes leaves the documents as they were. *)
LEMMA EmptyStep ==
  ASSUME TypeOK, FeedInv, HandleEmpty
  PROVE  FeedInv'
<1> USE DEF HandleEmpty
<1>1. /\ EventsChain' /\ ListenerInStep'
      /\ Head(queue).documents \in DocumentSet
      /\ Head(queue).changes \in SortedChanges(shown, Head(queue).documents)
  <2>1. Base' = Head(queue).documents
    BY DEF Base
  <2> QED
    BY <2>1, TakeEvent DEF FeedInv
<1>2. shown' = shown
  <2>1. shown \in DocumentSet
    BY DEF TypeOK
  <2>2. \A d \in DocIds : shown[d] = Head(queue).documents[d]
    BY <1>1, <2>1, SortedChangesFacts
  <2> QED
    BY <1>1, <2>1, <2>2 DEF DocumentSet
<1>3. LoopInStep' /\ SpinnerOnlyAtFirst'
  BY DEF FeedInv, LoopInStep, SpinnerOnlyAtFirst
<1>4. Reflected' = Reflected
  BY <1>2 DEF Reflected
<1>5. MirrorInLoop'
  BY <1>4 DEF FeedInv, MirrorInLoop
<1> QED
  BY <1>1, <1>3, <1>5 DEF FeedInv

(* The loop starts: nothing is reflected yet. *)
LEMMA ChangesStep ==
  ASSUME TypeOK, FeedInv, HandleChanges
  PROVE  FeedInv'
<1> DEFINE new == Head(queue).documents
           s == Head(queue).changes
<1>1. /\ queue' = Tail(queue) /\ running' = TRUE /\ todo' = s /\ s # <<>>
      /\ target' = new /\ shown' = shown /\ heard' = heard /\ dropped' = dropped
      /\ datas' = datas /\ noData' = noData /\ ~ running
  BY DEF HandleChanges, getDataVars
<1>2. /\ EventsChain' /\ ListenerInStep'
      /\ new \in DocumentSet
      /\ s \in SortedChanges(shown, new)
  <2>1. Base' = new
    BY <1>1 DEF Base
  <2> QED
    BY <2>1, TakeEvent DEF FeedInv, HandleChanges
<1> HIDE DEF new, s
<1>3. /\ \A k \in DOMAIN s : s[k] \in DocumentChanges(shown, new)
      /\ \A k, l \in DOMAIN s : s[k].id = s[l].id => k = l
      /\ \A d \in DocIds : shown[d] # new[d] => \E k \in DOMAIN s : s[k].id = d
  BY <1>2, SortedChangesFacts DEF TypeOK
<1>4. LoopInStep' /\ SpinnerOnlyAtFirst'
  BY <1>1, <1>3 DEF FeedInv, LoopInStep, SpinnerOnlyAtFirst
<1>5. Reflected' = Reflected
  BY <1>1, <1>3 DEF Reflected
<1>6. MirrorInLoop'
  BY <1>1, <1>5 DEF FeedInv, MirrorInLoop
<1> QED
  BY <1>2, <1>4, <1>6 DEF FeedInv

-----------------------------------------------------------------------------
(* The main thread inside the loop. *)

(* One iteration that goes on to the next change. *)
LEMMA NextIteration ==
  ASSUME TypeOK, FeedInv, running, todo # <<>>, todo' = Tail(todo),
         UNCHANGED <<workerVars, queue, running, target, shown>>
  PROVE  /\ EventsChain' /\ ListenerInStep' /\ LoopInStep'
         /\ Head(todo) \in DocumentChanges(shown, target)
         /\ Reflected[Head(todo).id] = shown[Head(todo).id]
         /\ Reflected'[Head(todo).id] = target[Head(todo).id]
         /\ \A d \in DocIds \ {Head(todo).id} : Reflected'[d] = Reflected[d]
<1>1. EventsChain' /\ ListenerInStep'
  BY DEF FeedInv, EventsChain, ListenerInStep, Base, workerVars
<1>2. todo \in Seq(Change) /\ shown \in DocumentSet /\ target \in DocumentSet
  BY DEF TypeOK
<1>3. /\ Len(todo) \in Nat \ {0} /\ DOMAIN todo = 1 .. Len(todo)
      /\ Head(todo) = todo[1] /\ Head(todo) \in Change
      /\ DOMAIN todo' = 1 .. Len(todo) - 1
      /\ \A k \in 1 .. Len(todo) - 1 : todo'[k] = todo[k + 1]
  BY <1>2, HeadTailFacts
<1>4. /\ \A k \in DOMAIN todo : todo[k] \in DocumentChanges(shown, target)
      /\ \A k, l \in DOMAIN todo : todo[k].id = todo[l].id => k = l
  BY DEF FeedInv, LoopInStep
<1>5. LoopInStep'
  <2>1. \A k \in DOMAIN todo' : todo'[k] \in DocumentChanges(shown', target')
    BY <1>3, <1>4
  <2>2. ASSUME NEW k \in DOMAIN todo', NEW l \in DOMAIN todo', todo'[k].id = todo'[l].id
        PROVE  k = l
    <3>1. k + 1 \in DOMAIN todo /\ l + 1 \in DOMAIN todo /\ todo[k + 1].id = todo[l + 1].id
      BY <1>3, <2>2
    <3>2. k + 1 = l + 1
      BY <1>4, <3>1
    <3> QED
      BY <1>3, <3>2
  <2> QED
    BY <2>1, <2>2 DEF LoopInStep
<1>6. Head(todo) \in DocumentChanges(shown, target) /\ Head(todo).id \in DocIds
  BY <1>3, <1>4 DEF Change
<1>7. Reflected[Head(todo).id] = shown[Head(todo).id]
  BY <1>3, <1>6 DEF Reflected
<1>8. \A k \in DOMAIN todo' : todo'[k].id # Head(todo).id
  <2> SUFFICES ASSUME NEW k \in DOMAIN todo', todo'[k].id = Head(todo).id
               PROVE  FALSE
    OBVIOUS
  <2>1. k + 1 \in DOMAIN todo /\ 1 \in DOMAIN todo /\ todo[k + 1].id = todo[1].id
    BY <1>3
  <2>2. k + 1 = 1
    BY <1>4, <2>1
  <2> QED
    BY <1>3, <2>2
<1>9. Reflected'[Head(todo).id] = target[Head(todo).id]
  BY <1>6, <1>8 DEF Reflected
<1>10. ASSUME NEW d \in DocIds \ {Head(todo).id}
       PROVE  Reflected'[d] = Reflected[d]
  <2>1. (\A k \in DOMAIN todo' : todo'[k].id # d) <=> (\A k \in DOMAIN todo : todo[k].id # d)
    <3>1. ASSUME NEW k \in DOMAIN todo', todo'[k].id = d
          PROVE  \E l \in DOMAIN todo : todo[l].id = d
      BY <1>3, <3>1
    <3>2. ASSUME NEW l \in DOMAIN todo, todo[l].id = d
          PROVE  \E k \in DOMAIN todo' : todo'[k].id = d
      <4>1. l # 1
        BY <1>3, <3>2
      <4>2. l - 1 \in DOMAIN todo' /\ todo'[l - 1] = todo[l]
        BY <1>3, <4>1
      <4> QED
        BY <3>2, <4>2
    <3> QED
      BY <3>1, <3>2
  <2> QED
    BY <2>1 DEF Reflected
<1> QED
  BY <1>1, <1>5, <1>6, <1>7, <1>9, <1>10

(* The three edits of the list, each against the documents it reflects. *)

(* The id of a journal. *)
LEMMA JournalIds ==
  ASSUME NEW list \in Seq(JournalType), NEW i \in DOMAIN list
  PROVE  list[i].id \in DocIds
<1>1. list[i] \in JournalType
  OBVIOUS
<1> QED
  BY <1>1 DEF JournalType

(* A new document is appended. *)
LEMMA MirrorsAppend ==
  ASSUME NEW list \in Seq(JournalType), NEW old \in DocumentSet, NEW new \in DocumentSet,
         NEW d \in DocIds, NEW e \in Entries, old[d] = NoDocument, new[d] = e,
         \A x \in DocIds \ {d} : new[x] = old[x], Mirrors(list, old)
  PROVE  Mirrors(Append(list, Journal(d, e)), new)
<1> DEFINE list2 == Append(list, Journal(d, e))
<1>1. /\ Journal(d, e) \in JournalType /\ Journal(d, e).id = d
      /\ Journal(d, e).title = e.title /\ Journal(d, e).description = e.description
  BY JournalFacts
<1>2. /\ Len(list) \in Nat /\ DOMAIN list = 1 .. Len(list)
      /\ DOMAIN list2 = 1 .. Len(list) + 1
      /\ list2[Len(list) + 1] = Journal(d, e)
      /\ \A i \in 1 .. Len(list) : list2[i] = list[i]
  BY <1>1
<1> HIDE DEF list2
<1>3. \A i \in DOMAIN list : list[i].id \in DocIds /\ list[i].id # d
  BY JournalIds DEF Mirrors
<1>4. \A i, j \in DOMAIN list2 : list2[i].id = list2[j].id => i = j
  BY <1>1, <1>2, <1>3 DEF Mirrors
<1>5. ASSUME NEW i \in DOMAIN list2
      PROVE  /\ new[list2[i].id] # NoDocument
             /\ list2[i].title = new[list2[i].id].title
             /\ list2[i].description = new[list2[i].id].description
  <2>1. CASE i = Len(list) + 1
    BY <1>1, <1>2, <2>1, NoDocumentAssumption
  <2>2. CASE i \in 1 .. Len(list)
    BY <1>2, <1>3, <2>2 DEF Mirrors
  <2> QED
    BY <1>2, <2>1, <2>2
<1>6. ASSUME NEW k \in Keys(new)
      PROVE  \E i \in DOMAIN list2 : list2[i].id = k
  <2>1. CASE k = d
    BY <1>1, <1>2, <2>1
  <2>2. CASE k # d
    <3>1. k \in Keys(old)
      BY <2>2 DEF Keys
    <3> QED
      BY <1>2, <3>1 DEF Mirrors
  <2> QED
    BY <2>1, <2>2
<1>7. Mirrors(list2, new)
  BY <1>4, <1>5, <1>6 DEF Mirrors
<1> QED
  BY <1>7 DEF list2

(* A document gets new texts. *)
LEMMA MirrorsWithTexts ==
  ASSUME NEW list \in Seq(JournalType), NEW old \in DocumentSet, NEW new \in DocumentSet,
         NEW d \in DocIds, NEW e \in Entries, old[d] # NoDocument, new[d] = e,
         \A x \in DocIds \ {d} : new[x] = old[x], Mirrors(list, old)
  PROVE  Mirrors(WithTexts(list, d, e), new)
<1> DEFINE list2 == WithTexts(list, d, e)
<1>1. /\ DOMAIN list2 = DOMAIN list
      /\ \A i \in DOMAIN list :
              /\ list2[i].id = list[i].id
              /\ list[i].id # d => list2[i] = list[i]
              /\ list[i].id = d => list2[i].title = e.title /\ list2[i].description = e.description
  BY WithTextsFacts
<1> HIDE DEF list2
<1>2. \A i \in DOMAIN list : list[i].id \in DocIds
  BY JournalIds
<1>3. \A i, j \in DOMAIN list2 : list2[i].id = list2[j].id => i = j
  BY <1>1 DEF Mirrors
<1>4. ASSUME NEW i \in DOMAIN list2
      PROVE  /\ new[list2[i].id] # NoDocument
             /\ list2[i].title = new[list2[i].id].title
             /\ list2[i].description = new[list2[i].id].description
  <2>1. CASE list[i].id = d
    BY <1>1, <2>1, NoDocumentAssumption
  <2>2. CASE list[i].id # d
    BY <1>1, <1>2, <2>2 DEF Mirrors
  <2> QED
    BY <2>1, <2>2
<1>5. ASSUME NEW k \in Keys(new)
      PROVE  \E i \in DOMAIN list2 : list2[i].id = k
  <2>1. k \in Keys(old)
    BY DEF Keys
  <2> QED
    BY <1>1, <2>1 DEF Mirrors
<1>6. Mirrors(list2, new)
  BY <1>3, <1>4, <1>5 DEF Mirrors
<1> QED
  BY <1>6 DEF list2

(* A document is removed. *)
LEMMA MirrorsWithout ==
  ASSUME NEW list \in Seq(JournalType), NEW old \in DocumentSet, NEW new \in DocumentSet,
         NEW d \in DocIds, new[d] = NoDocument, NEW n \in DOMAIN list, list[n].id = d,
         \A x \in DocIds \ {d} : new[x] = old[x], Mirrors(list, old)
  PROVE  Mirrors(Without(list, n), new)
<1> DEFINE list2 == Without(list, n)
           From(j) == IF j < n THEN j ELSE j + 1
<1>1. /\ Len(list) \in Nat /\ DOMAIN list = 1 .. Len(list)
      /\ DOMAIN list2 = 1 .. Len(list) - 1
      /\ \A j \in 1 .. Len(list) - 1 : list2[j] = IF j < n THEN list[j] ELSE list[j + 1]
  BY WithoutFacts
<1> HIDE DEF list2
<1>2. ASSUME NEW j \in DOMAIN list2
      PROVE  From(j) \in DOMAIN list /\ From(j) # n /\ list2[j] = list[From(j)]
  BY <1>1
<1>3. \A i, j \in DOMAIN list2 : From(i) = From(j) => i = j
  BY <1>1
<1>4. \A i \in DOMAIN list \ {n} : \E j \in DOMAIN list2 : From(j) = i
  <2> SUFFICES ASSUME NEW i \in DOMAIN list \ {n}
               PROVE  \E j \in DOMAIN list2 : From(j) = i
    OBVIOUS
  <2>1. CASE i < n
    BY <1>1, <2>1
  <2>2. CASE n < i
    <3>1. i - 1 \in DOMAIN list2 /\ From(i - 1) = i
      BY <1>1, <2>2
    <3> QED
      BY <3>1
  <2> QED
    BY <1>1, <2>1, <2>2
<1> HIDE DEF From
<1>5. \A i \in DOMAIN list : list[i].id \in DocIds /\ (list[i].id = d => i = n)
  BY JournalIds DEF Mirrors
<1>6. \A i, j \in DOMAIN list2 : list2[i].id = list2[j].id => i = j
  BY <1>2, <1>3 DEF Mirrors
<1>7. ASSUME NEW i \in DOMAIN list2
      PROVE  /\ new[list2[i].id] # NoDocument
             /\ list2[i].title = new[list2[i].id].title
             /\ list2[i].description = new[list2[i].id].description
  <2>1. /\ From(i) \in DOMAIN list /\ list2[i] = list[From(i)]
        /\ list[From(i)].id \in DocIds \ {d}
    BY <1>2, <1>5
  <2> QED
    BY <2>1 DEF Mirrors
<1>8. ASSUME NEW k \in Keys(new)
      PROVE  \E i \in DOMAIN list2 : list2[i].id = k
  <2>1. k \in Keys(old) /\ k # d
    BY DEF Keys
  <2>2. PICK i \in DOMAIN list : list[i].id = k
    BY <2>1 DEF Mirrors
  <2>3. PICK j \in DOMAIN list2 : From(j) = i
    BY <1>4, <2>1, <2>2
  <2> QED
    BY <1>2, <2>2, <2>3
<1>9. Mirrors(list2, new)
  BY <1>6, <1>7, <1>8 DEF Mirrors
<1> QED
  BY <1>9 DEF list2

(* Each iteration keeps the invariant. *)

(* The branch for additions. *)
LEMMA AddedStep ==
  ASSUME TypeOK, FeedInv, HandleAdded
  PROVE  FeedInv'
<1> DEFINE c == Head(todo)
<1>1. /\ running /\ todo # <<>> /\ todo' = Tail(todo) /\ c.type = "added"
      /\ datas' = Append(datas, Journal(c.id, c.doc))
      /\ UNCHANGED <<workerVars, queue, noData, running, target, shown, heard, dropped>>
  BY DEF HandleAdded, NextChange
<1>2. /\ EventsChain' /\ ListenerInStep' /\ LoopInStep'
      /\ c \in DocumentChanges(shown, target)
      /\ Reflected[c.id] = shown[c.id]
      /\ Reflected'[c.id] = target[c.id]
      /\ \A d \in DocIds \ {c.id} : Reflected'[d] = Reflected[d]
  BY <1>1, NextIteration
<1>3. /\ datas \in Seq(JournalType) /\ shown \in DocumentSet /\ target \in DocumentSet
      /\ Reflected \in DocumentSet /\ Reflected' \in DocumentSet
  BY <1>1 DEF TypeOK, Reflected, DocumentSet
<1>4. /\ c.id \in DocIds /\ c.doc \in Entries
      /\ shown[c.id] = NoDocument /\ target[c.id] = c.doc
  BY <1>1, <1>2, <1>3, ChangeMeaning, DocumentChangesFacts DEF Change
<1> HIDE DEF c
<1>5. MirrorInLoop'
  BY <1>1, <1>2, <1>3, <1>4, MirrorsAppend DEF FeedInv, MirrorInLoop
<1>6. SpinnerOnlyAtFirst'
  <2>1. datas' # <<>>
    BY <1>1, <1>3, <1>4, JournalFacts
  <2> QED
    BY <1>1, <2>1 DEF FeedInv, SpinnerOnlyAtFirst
<1> QED
  BY <1>2, <1>5, <1>6 DEF FeedInv

(* The branch for modifications. *)
LEMMA ModifiedStep ==
  ASSUME TypeOK, FeedInv, HandleModified
  PROVE  FeedInv'
<1> DEFINE c == Head(todo)
<1>1. /\ running /\ todo # <<>> /\ todo' = Tail(todo) /\ c.type = "modified"
      /\ datas' = WithTexts(datas, c.id, c.doc)
      /\ UNCHANGED <<workerVars, queue, noData, running, target, shown, heard, dropped>>
  BY DEF HandleModified, NextChange
<1>2. /\ EventsChain' /\ ListenerInStep' /\ LoopInStep'
      /\ c \in DocumentChanges(shown, target)
      /\ Reflected[c.id] = shown[c.id]
      /\ Reflected'[c.id] = target[c.id]
      /\ \A d \in DocIds \ {c.id} : Reflected'[d] = Reflected[d]
  BY <1>1, NextIteration
<1>3. /\ datas \in Seq(JournalType) /\ shown \in DocumentSet /\ target \in DocumentSet
      /\ Reflected \in DocumentSet /\ Reflected' \in DocumentSet
  BY <1>1 DEF TypeOK, Reflected, DocumentSet
<1>4. /\ c.id \in DocIds /\ c.doc \in Entries
      /\ shown[c.id] # NoDocument /\ target[c.id] = c.doc
  BY <1>1, <1>2, <1>3, ChangeMeaning, DocumentChangesFacts DEF Change
<1> HIDE DEF c
<1>5. MirrorInLoop'
  BY <1>1, <1>2, <1>3, <1>4, MirrorsWithTexts DEF FeedInv, MirrorInLoop
<1>6. SpinnerOnlyAtFirst'
  <2>1. datas' = <<>> => datas = <<>>
    <3>1. Len(datas') = Len(datas)
      BY <1>1, <1>3, <1>4, WithTextsFacts
    <3> QED
      BY <1>3, <3>1
  <2>2. ~ heard => c.type = "added"
    BY <1>2, <1>3, FirstChangesAreAdded DEF FeedInv, SpinnerOnlyAtFirst
  <2> QED
    BY <1>1, <2>1, <2>2 DEF FeedInv, SpinnerOnlyAtFirst
<1> QED
  BY <1>2, <1>5, <1>6 DEF FeedInv

(* The branch that returns: what it leaves behind is counted as dropped. *)
LEMMA RemovedStep ==
  ASSUME TypeOK, FeedInv, HandleRemoved
  PROVE  FeedInv'
<1> DEFINE c == Head(todo)
<1>1. /\ running /\ todo # <<>> /\ todo' = <<>> /\ c.type = "removed"
      /\ noData' = (noData \/ datas' = <<>>)
      /\ dropped' = (dropped \/ Tail(todo) # <<>>)
      /\ UNCHANGED <<workerVars, queue, running, target, shown, heard>>
  BY DEF HandleRemoved, NextChange
<1>2. PICK i \in DOMAIN datas : datas[i].id = c.id /\ datas' = Without(datas, i)
  BY DEF HandleRemoved, FirstWithId
<1>3. EventsChain' /\ ListenerInStep'
  BY <1>1 DEF FeedInv, EventsChain, ListenerInStep, Base, workerVars
<1>4. LoopInStep'
  BY <1>1 DEF LoopInStep
<1>5. SpinnerOnlyAtFirst'
  BY <1>1 DEF FeedInv, SpinnerOnlyAtFirst
<1>6. MirrorInLoop'
  <2> SUFFICES ASSUME ~ dropped'
               PROVE  Mirrors(datas', Reflected')
    BY DEF MirrorInLoop
  <2>1. ~ dropped /\ todo' = Tail(todo)
    BY <1>1
  <2>2. /\ c \in DocumentChanges(shown, target)
        /\ Reflected'[c.id] = target[c.id]
        /\ \A d \in DocIds \ {c.id} : Reflected'[d] = Reflected[d]
    BY <1>1, <2>1, NextIteration
  <2>3. /\ datas \in Seq(JournalType) /\ shown \in DocumentSet /\ target \in DocumentSet
        /\ Reflected \in DocumentSet /\ Reflected' \in DocumentSet
    BY <1>1 DEF TypeOK, Reflected, DocumentSet
  <2>4. c.id \in DocIds /\ target[c.id] = NoDocument
    BY <1>1, <2>2, <2>3, ChangeMeaning
  <2>5. Mirrors(datas, Reflected)
    BY <2>1 DEF FeedInv, MirrorInLoop
  <2> HIDE DEF c
  <2> QED
    BY <1>2, <2>2, <2>3, <2>4, <2>5, MirrorsWithout
<1> QED
  BY <1>3, <1>4, <1>5, <1>6 DEF FeedInv

(* A removed document that is not in the list can only be one whose        *)
(* addition was left behind.                                               *)
LEMMA SkipStep ==
  ASSUME TypeOK, FeedInv, SkipRemoved
  PROVE  FeedInv'
<1> DEFINE c == Head(todo)
<1>1. /\ running /\ todo # <<>> /\ todo' = Tail(todo) /\ c.type = "removed"
      /\ \A i \in DOMAIN datas : datas[i].id # c.id
      /\ UNCHANGED <<workerVars, queue, datas, noData, running, target, shown, heard, dropped>>
  BY DEF SkipRemoved, NextChange, getDataVars
<1>2. /\ EventsChain' /\ ListenerInStep' /\ LoopInStep'
      /\ c \in DocumentChanges(shown, target)
      /\ Reflected[c.id] = shown[c.id]
  BY <1>1, NextIteration
<1>3. shown \in DocumentSet /\ target \in DocumentSet /\ Reflected \in DocumentSet
  BY DEF TypeOK, Reflected, DocumentSet
<1>4. c.id \in DocIds /\ shown[c.id] # NoDocument
  BY <1>1, <1>2, <1>3, ChangeMeaning
<1>5. dropped
  <2>1. c.id \in Keys(Reflected)
    BY <1>2, <1>4 DEF Keys
  <2> QED
    BY <1>1, <2>1 DEF FeedInv, MirrorInLoop, Mirrors
<1>6. MirrorInLoop'
  BY <1>1, <1>5 DEF MirrorInLoop
<1>7. SpinnerOnlyAtFirst'
  <2>1. ~ heard => c.type = "added"
    BY <1>2, <1>3, FirstChangesAreAdded DEF FeedInv, SpinnerOnlyAtFirst
  <2> QED
    BY <1>1, <2>1 DEF FeedInv, SpinnerOnlyAtFirst
<1> QED
  BY <1>2, <1>6, <1>7 DEF FeedInv

(* At the end of the loop the list reflects the whole snapshot. *)
LEMMA ReturnStep ==
  ASSUME TypeOK, FeedInv, Return
  PROVE  FeedInv'
<1>1. /\ running /\ ~ running' /\ todo = <<>> /\ shown' = target /\ heard'
      /\ UNCHANGED <<workerVars, queue, datas, noData, todo, target, dropped>>
  BY DEF Return, getDataVars
<1>2. EventsChain' /\ ListenerInStep'
  <2>1. Base' = Base
    BY <1>1 DEF Base
  <2> QED
    BY <1>1, <2>1 DEF FeedInv, EventsChain, ListenerInStep, workerVars
<1>3. LoopInStep' /\ SpinnerOnlyAtFirst'
  BY <1>1 DEF FeedInv, LoopInStep, SpinnerOnlyAtFirst
<1>4. Reflected' = Reflected
  BY <1>1 DEF Reflected
<1>5. MirrorInLoop'
  BY <1>1, <1>4 DEF FeedInv, MirrorInLoop
<1> QED
  BY <1>2, <1>3, <1>5 DEF FeedInv

-----------------------------------------------------------------------------
(* The theorems. *)

(* The invariant holds initially. *)
LEMMA FeedInvInit == Init => FeedInv
<1> SUFFICES ASSUME Init PROVE FeedInv
  OBVIOUS
<1>1. EventsChain /\ ListenerInStep /\ LoopInStep /\ SpinnerOnlyAtFirst
  BY DEF Init, EventsChain, ListenerInStep, LoopInStep, SpinnerOnlyAtFirst
<1>2. Reflected = EmptyDocumentSet /\ datas = <<>>
  BY DEF Init, Reflected, EmptyDocumentSet
<1>3. Keys(EmptyDocumentSet) = {}
  BY DEF Keys, EmptyDocumentSet
<1>4. MirrorInLoop
  BY <1>2, <1>3 DEF MirrorInLoop, Mirrors
<1> QED
  BY <1>1, <1>4 DEF FeedInv

(* Every step keeps the invariant. *)
LEMMA FeedInvStep == TypeOK /\ FeedInv /\ [Next]_vars => FeedInv'
<1> SUFFICES ASSUME TypeOK, FeedInv, [Next]_vars
             PROVE  FeedInv'
  OBVIOUS
<1>1. CASE Worker
  <2>1. EventsChain' /\ ListenerInStep' /\ UNCHANGED <<getDataVars, callVars>>
    BY <1>1, WorkerStep DEF FeedInv
  <2>2. LoopInStep' /\ SpinnerOnlyAtFirst'
    BY <2>1 DEF FeedInv, LoopInStep, SpinnerOnlyAtFirst, getDataVars, callVars
  <2>3. Reflected' = Reflected
    BY <2>1 DEF Reflected, callVars
  <2>4. MirrorInLoop'
    BY <2>1, <2>3 DEF FeedInv, MirrorInLoop, getDataVars, callVars
  <2> QED
    BY <2>1, <2>2, <2>4 DEF FeedInv
<1>2. CASE MainThread
  BY <1>2, ErrorStep, EmptyStep, ChangesStep, AddedStep, ModifiedStep, RemovedStep,
     SkipStep, ReturnStep DEF MainThread
<1>3. CASE UNCHANGED vars
  BY <1>3 DEF vars, workerVars, getDataVars, callVars, FeedInv, EventsChain,
     ListenerInStep, LoopInStep, SpinnerOnlyAtFirst, MirrorInLoop, Reflected, Base
<1> QED
  BY <1>1, <1>2, <1>3 DEF Next

(***************************************************************************)
(* Firestore's incremental snapshots and the progress of the closure of    *)
(* getData through them fit together at every moment.                      *)
(***************************************************************************)
THEOREM FeedCorrect == Spec => []FeedInv
BY TypeCorrect, FeedInvInit, FeedInvStep, PTL DEF Spec

(***************************************************************************)
(* As long as the "removed" branch has left no change behind, datas shows  *)
(* the result of the last snapshot the closure has handled.                *)
(***************************************************************************)
THEOREM MirrorCorrect == Spec => []MirrorUnlessDropped
<1>1. TypeOK /\ FeedInv => MirrorUnlessDropped
  <2> SUFFICES ASSUME TypeOK, FeedInv, ~ running, ~ dropped
               PROVE  Mirrors(datas, shown)
    BY DEF MirrorUnlessDropped
  <2>1. Mirrors(datas, Reflected)
    BY DEF FeedInv, MirrorInLoop
  <2>2. Reflected = shown
    BY DEF Reflected, TypeOK, DocumentSet
  <2> QED
    BY <2>1, <2>2
<1> QED
  BY <1>1, TypeCorrect, FeedCorrect, PTL

(* Once the closure has been called, the spinner never comes back. *)
THEOREM SpinnerCorrect == Spec => []NoSpinnerOnceHeard
<1>1. FeedInv => NoSpinnerOnceHeard
  BY DEF FeedInv, SpinnerOnlyAtFirst, NoSpinnerOnceHeard
<1> QED
  BY <1>1, FeedCorrect, PTL

(***************************************************************************)
(* Even after changes were left behind, each step of the closure moves the *)
(* list towards the snapshot it handles, never away from it.               *)
(***************************************************************************)
THEOREM MovesTowardsSnapshot == Spec => ListMovesTowardsSnapshot
<1>1. TypeOK /\ FeedInv /\ [Next]_vars => [ListStepTowardsSnapshot]_vars
  <2> SUFFICES ASSUME TypeOK, FeedInv, Next
               PROVE  ListStepTowardsSnapshot
    OBVIOUS
  <2> DEFINE c == Head(todo)
  <2>1. CASE datas' = datas
    BY <2>1 DEF ListStepTowardsSnapshot
  <2>2. ASSUME running, todo # <<>>
        PROVE  /\ c \in DocumentChanges(shown, target)
               /\ shown \in DocumentSet /\ target \in DocumentSet
               /\ c.id \in DocIds /\ c.doc \in Entries
               /\ datas \in Seq(JournalType)
    <3>1. todo \in Seq(Change)
      BY DEF TypeOK
    <3>2. c = todo[1] /\ 1 \in DOMAIN todo /\ c \in Change
      BY <2>2, <3>1, HeadTailFacts
    <3>3. c \in DocumentChanges(shown, target)
      BY <2>2, <3>2 DEF FeedInv, LoopInStep
    <3> QED
      BY <3>2, <3>3 DEF TypeOK, Change
  <2>3. CASE HandleAdded
    <3>1. /\ running /\ todo # <<>> /\ c.type = "added"
          /\ datas' = Append(datas, Journal(c.id, c.doc))
      BY <2>3 DEF HandleAdded, NextChange
    <3>2. target[c.id] # NoDocument
      BY <2>2, <3>1, ChangeMeaning
    <3> HIDE DEF c
    <3>3. Journal(c.id, c.doc) \in JournalType /\ Journal(c.id, c.doc).id = c.id
      BY <2>2, <3>1, JournalFacts
    <3>4. Ids(datas') \subseteq Ids(datas) \cup {c.id} /\ Ids(datas) \subseteq Ids(datas')
      BY <2>2, <3>1, <3>3 DEF Ids
    <3> QED
      BY <3>2, <3>4 DEF ListStepTowardsSnapshot
  <2>4. CASE HandleModified
    <3>1. /\ running /\ todo # <<>>
          /\ datas' = WithTexts(datas, c.id, c.doc)
      BY <2>4 DEF HandleModified, NextChange
    <3> HIDE DEF c
    <3>2. /\ DOMAIN datas' = DOMAIN datas
          /\ \A i \in DOMAIN datas : datas'[i].id = datas[i].id
      BY <2>2, <3>1, WithTextsFacts
    <3>3. Ids(datas') = Ids(datas)
      BY <3>2 DEF Ids
    <3> QED
      BY <3>3 DEF ListStepTowardsSnapshot
  <2>5. CASE HandleRemoved
    <3>1. running /\ todo # <<>> /\ c.type = "removed"
      BY <2>5 DEF HandleRemoved, NextChange
    <3>2. PICK n \in DOMAIN datas : datas[n].id = c.id /\ datas' = Without(datas, n)
      BY <2>5 DEF HandleRemoved, FirstWithId
    <3>3. target[c.id] = NoDocument
      BY <2>2, <3>1, ChangeMeaning
    <3> HIDE DEF c
    <3>4. /\ Len(datas) \in Nat /\ DOMAIN datas = 1 .. Len(datas)
          /\ DOMAIN datas' = 1 .. Len(datas) - 1
          /\ \A j \in 1 .. Len(datas) - 1 :
               datas'[j] = IF j < n THEN datas[j] ELSE datas[j + 1]
      BY <2>2, <3>1, <3>2, WithoutFacts
    <3>5. Ids(datas') \subseteq Ids(datas)
      BY <3>4 DEF Ids
    <3>6. ASSUME NEW i \in DOMAIN datas, i # n
          PROVE  datas[i].id \in Ids(datas')
      <4>1. CASE i < n
        BY <3>4, <4>1 DEF Ids
      <4>2. CASE n < i
        <5>1. i - 1 \in DOMAIN datas' /\ datas'[i - 1] = datas[i]
          BY <3>4, <4>2
        <5> QED
          BY <5>1 DEF Ids
      <4> QED
        BY <3>4, <3>6, <4>1, <4>2
    <3> QED
      BY <3>2, <3>3, <3>5, <3>6 DEF Ids, ListStepTowardsSnapshot
  <2>6. CASE Worker
    BY <2>1, <2>6, WorkerStep DEF FeedInv, getDataVars
  <2>7. CASE HandleError \/ HandleEmpty \/ HandleChanges \/ SkipRemoved \/ Return
    BY <2>1, <2>7 DEF HandleError, HandleEmpty, HandleChanges, SkipRemoved, Return, getDataVars
  <2> QED
    BY <2>3, <2>4, <2>5, <2>6, <2>7 DEF Next, MainThread
<1> QED
  BY <1>1, TypeCorrect, FeedCorrect, PTL DEF Spec, ListMovesTowardsSnapshot

=============================================================================
