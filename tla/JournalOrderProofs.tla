------------------------- MODULE JournalOrderProofs -------------------------
(***************************************************************************)
(* Proofs about JournalOrder: the feed implements a lagging copy of the    *)
(* query's result, and the patched list is the one a fresh getData would   *)
(* build.  Both rest on the invariant of JournalFeed.                      *)
(***************************************************************************)
EXTENDS JournalOrder, JournalFeedProofs, SequenceTheorems

-----------------------------------------------------------------------------
(* Results in transit. *)

(* No error is at the end of the events. *)
NoError(events) == \A i \in 1 .. Len(events) : ~ events[i].err

(* How many results the events hold. *)
Results(events) ==
  IF events # <<>> /\ events[Len(events)].err THEN Len(events) - 1 ELSE Len(events)

(* The results in the events are a sequence of document sets. *)
LEMMA ResultsFacts ==
  ASSUME NEW events \in Seq(Event)
  PROVE  /\ Results(events) \in Nat /\ Results(events) <= Len(events)
         /\ ResultsIn(events) = [i \in 1 .. Results(events) |-> events[i].documents]
         /\ ResultsIn(events) \in Seq(DocumentSet)
         /\ Len(ResultsIn(events)) = Results(events)
         /\ \A i \in 1 .. Results(events) : ResultsIn(events)[i] = events[i].documents
<1>1. Len(events) \in Nat /\ (events # <<>> => Len(events) # 0)
  OBVIOUS
<1>2. Results(events) \in Nat /\ Results(events) <= Len(events)
  BY <1>1 DEF Results
<1>3. ResultsIn(events) = [i \in 1 .. Results(events) |-> events[i].documents]
  BY DEF ResultsIn, Results
<1>4. \A i \in 1 .. Results(events) : events[i].documents \in DocumentSet
  <2>1. \A i \in 1 .. Results(events) : events[i] \in Event
    BY <1>1, <1>2
  <2> QED
    BY <2>1 DEF Event
<1> QED
  BY <1>2, <1>3, <1>4

(* Two sequences of results are equal if they agree at every place. *)
LEMMA SameResults ==
  ASSUME NEW s \in Seq(DocumentSet), NEW t \in Seq(DocumentSet), Len(s) = Len(t),
         \A i \in 1 .. Len(s) : s[i] = t[i]
  PROVE  s = t
BY SeqEqual

(* A result in front of others. *)
LEMMA FrontResult ==
  ASSUME NEW s \in Seq(DocumentSet), NEW e \in DocumentSet
  PROVE  /\ <<e>> \o s # <<>> /\ Head(<<e>> \o s) = e /\ Tail(<<e>> \o s) = s
         /\ <<>> \o s = s
         /\ <<e>> \o s \in Seq(DocumentSet)
<1>1. /\ <<e>> \in Seq(DocumentSet) /\ Len(<<e>>) = 1 /\ <<e>>[1] = e
      /\ Len(s) \in Nat
  OBVIOUS
<1> DEFINE t == <<e>> \o s
<1>2. /\ t \in Seq(DocumentSet) /\ Len(t) = 1 + Len(s)
      /\ \A i \in 1 .. 1 + Len(s) : t[i] = IF i <= 1 THEN e ELSE s[i - 1]
  BY <1>1, ConcatProperties
<1> HIDE DEF t
<1>3. t # <<>> /\ Head(t) = e
  BY <1>1, <1>2
<1>4. /\ Tail(t) \in Seq(DocumentSet) /\ Len(Tail(t)) = Len(s)
      /\ \A i \in 1 .. Len(s) : Tail(t)[i] = s[i]
  BY <1>1, <1>2, <1>3
<1>5. Tail(t) = s
  BY <1>4, SameResults
<1> QED
  BY <1>2, <1>3, <1>5, ConcatEmptySeq DEF t

(* A result behind others. *)
LEMMA AppendToConcat ==
  ASSUME NEW s \in Seq(DocumentSet), NEW t \in Seq(DocumentSet), NEW e \in DocumentSet
  PROVE  s \o Append(t, e) = Append(s \o t, e)
<1>1. /\ <<e>> \in Seq(DocumentSet) /\ s \o t \in Seq(DocumentSet)
  BY ConcatProperties
<1>2. Append(t, e) = t \o <<e>> /\ Append(s \o t, e) = (s \o t) \o <<e>>
  BY <1>1, AppendIsConcat
<1> QED
  BY <1>1, <1>2, ConcatAssociative

(* The first event is a snapshot: its result is the first one in transit. *)
LEMMA ResultsTail ==
  ASSUME NEW events \in Seq(Event), events # <<>>, ~ Head(events).err
  PROVE  ResultsIn(events) = <<Head(events).documents>> \o ResultsIn(Tail(events))
<1> DEFINE rest == Tail(events)
           e == Head(events).documents
<1>1. /\ Len(events) \in Nat \ {0} /\ Head(events) = events[1] /\ Head(events) \in Event
      /\ rest \in Seq(Event) /\ Len(rest) = Len(events) - 1
      /\ \A i \in 1 .. Len(events) - 1 : rest[i] = events[i + 1]
  BY HeadTailFacts
<1>2. e \in DocumentSet
  BY <1>1 DEF Event
<1> HIDE DEF rest, e
<1>3. Results(events) = Results(rest) + 1
  <2>1. CASE Len(events) = 1
    <3>1. rest = <<>> /\ Results(rest) = 0
      BY <1>1, <2>1 DEF Results
    <3> QED
      BY <1>1, <2>1, <3>1 DEF Results
  <2>2. CASE Len(events) # 1
    <3>1. rest # <<>> /\ rest[Len(rest)] = events[Len(events)]
      BY <1>1, <2>2
    <3> QED
      BY <1>1, <3>1 DEF Results
  <2> QED
    BY <2>1, <2>2
<1> DEFINE long == ResultsIn(events)
           short == ResultsIn(rest)
           t == <<e>> \o short
<1>4. /\ long \in Seq(DocumentSet) /\ Len(long) = Results(events)
      /\ \A i \in 1 .. Results(events) : long[i] = events[i].documents
  BY ResultsFacts
<1>5. /\ short \in Seq(DocumentSet) /\ Len(short) = Results(rest)
      /\ Results(rest) \in Nat /\ Results(rest) <= Len(rest)
      /\ \A i \in 1 .. Results(rest) : short[i] = rest[i].documents
  BY <1>1, ResultsFacts
<1> HIDE DEF long, short
<1>6. /\ t \in Seq(DocumentSet) /\ Len(t) = 1 + Results(rest)
      /\ \A i \in 1 .. 1 + Results(rest) : t[i] = IF i <= 1 THEN e ELSE short[i - 1]
  <2>1. <<e>> \in Seq(DocumentSet) /\ Len(<<e>>) = 1 /\ <<e>>[1] = e
    BY <1>2
  <2> QED
    BY <1>5, <2>1, ConcatProperties
<1> HIDE DEF t
<1>7. ASSUME NEW i \in 1 .. Len(long) PROVE long[i] = t[i]
  <2>1. CASE i = 1
    BY <1>1, <1>3, <1>4, <1>5, <1>6, <2>1 DEF e
  <2>2. CASE i # 1
    <3>1. i - 1 \in 1 .. Results(rest) /\ i - 1 \in 1 .. Len(events) - 1 /\ (i - 1) + 1 = i
      BY <1>1, <1>3, <1>4, <1>5, <2>2
    <3>2. short[i - 1] = events[i].documents
      BY <1>1, <1>5, <3>1
    <3> QED
      BY <1>3, <1>4, <1>5, <1>6, <2>2, <3>2
  <2> QED
    BY <2>1, <2>2
<1>8. long = t
  BY <1>3, <1>4, <1>5, <1>6, <1>7, SameResults
<1> QED
  BY <1>8 DEF long, t, short, rest, e

(* A new snapshot is the last one in transit. *)
LEMMA ResultsAppend ==
  ASSUME NEW events \in Seq(Event), NoError(events), NEW ev \in Event, ~ ev.err
  PROVE  ResultsIn(Append(events, ev)) = Append(ResultsIn(events), ev.documents)
<1> DEFINE more == Append(events, ev)
           long == ResultsIn(more)
           short == ResultsIn(events)
           t == Append(short, ev.documents)
<1>1. /\ Len(events) \in Nat /\ more \in Seq(Event) /\ more # <<>>
      /\ Len(more) = Len(events) + 1
      /\ \A i \in 1 .. Len(events) : more[i] = events[i]
      /\ more[Len(events) + 1] = ev
  BY AppendProperties
<1>2. ev.documents \in DocumentSet
  BY DEF Event
<1> HIDE DEF more
<1>3. Results(more) = Len(events) + 1 /\ Results(events) = Len(events)
  BY <1>1 DEF Results, NoError
<1>4. /\ long \in Seq(DocumentSet) /\ Len(long) = Results(more)
      /\ \A i \in 1 .. Results(more) : long[i] = more[i].documents
  BY <1>1, ResultsFacts
<1>5. /\ short \in Seq(DocumentSet) /\ Len(short) = Results(events)
      /\ \A i \in 1 .. Results(events) : short[i] = events[i].documents
  BY ResultsFacts
<1> HIDE DEF long, short
<1>6. /\ t \in Seq(DocumentSet) /\ Len(t) = Len(short) + 1
      /\ \A i \in 1 .. Len(short) : t[i] = short[i]
      /\ t[Len(short) + 1] = ev.documents
  BY <1>2, <1>5, AppendProperties
<1> HIDE DEF t
<1>7. ASSUME NEW i \in 1 .. Len(long) PROVE long[i] = t[i]
  <2>1. i \in 1 .. Len(events) \/ i = Len(events) + 1
    BY <1>1, <1>3, <1>4
  <2>2. long[i] = more[i].documents
    BY <1>4
  <2>3. CASE i = Len(events) + 1
    BY <1>1, <1>3, <1>5, <1>6, <2>2, <2>3
  <2>4. CASE i \in 1 .. Len(events)
    BY <1>1, <1>3, <1>5, <1>6, <2>2, <2>4
  <2> QED
    BY <2>1, <2>3, <2>4
<1>8. long = t
  BY <1>3, <1>4, <1>5, <1>6, <1>7, SameResults
<1> QED
  BY <1>8 DEF long, short, t, more

(* An error brings no result. *)
LEMMA ResultsError ==
  ASSUME NEW events \in Seq(Event), NoError(events), NEW ev \in Event, ev.err
  PROVE  ResultsIn(Append(events, ev)) = ResultsIn(events)
<1> DEFINE more == Append(events, ev)
<1>1. /\ Len(events) \in Nat /\ more \in Seq(Event) /\ more # <<>>
      /\ Len(more) = Len(events) + 1
      /\ \A i \in 1 .. Len(events) : more[i] = events[i]
      /\ more[Len(events) + 1] = ev
  BY AppendProperties
<1> HIDE DEF more
<1>3. Results(more) = Len(events) /\ Results(events) = Len(events)
  BY <1>1 DEF Results, NoError
<1>4. /\ ResultsIn(more) = [i \in 1 .. Len(events) |-> more[i].documents]
      /\ ResultsIn(events) = [i \in 1 .. Len(events) |-> events[i].documents]
  BY <1>1, <1>3, ResultsFacts
<1> QED
  BY <1>1, <1>4 DEF more

-----------------------------------------------------------------------------
(* The refinement. *)

(* A list that mirrors the documents shows their texts. *)
LEMMA MirrorShowsTexts ==
  ASSUME NEW list \in Seq(JournalType), NEW documents \in DocumentSet, Mirrors(list, documents)
  PROVE  TextsShown(list) = TextsOf(documents)
<1> SUFFICES ASSUME NEW d \in DocIds
             PROVE  TextsShown(list)[d] = TextsOf(documents)[d]
  BY DEF TextsShown, TextsOf
<1>1. CASE d \notin Ids(list)
  <2>1. documents[d] = NoDocument
    BY <1>1 DEF Ids, Mirrors, Keys
  <2> QED
    BY <1>1, <2>1 DEF TextsShown, TextsOf
<1>2. CASE d \in Ids(list)
  <2> DEFINE i == CHOOSE i \in DOMAIN list : list[i].id = d
  <2>1. i \in DOMAIN list /\ list[i].id = d
    BY <1>2 DEF Ids
  <2>2. TextsShown(list)[d] = [title |-> list[i].title, description |-> list[i].description]
    BY <1>2 DEF TextsShown
  <2> HIDE DEF i
  <2>3. /\ documents[d] # NoDocument
        /\ list[i].title = documents[d].title
        /\ list[i].description = documents[d].description
    BY <2>1 DEF Mirrors
  <2> QED
    BY <2>2, <2>3 DEF TextsOf
<1> QED
  BY <1>1, <1>2

(* As long as no change was left behind, the copy has the texts of shown. *)
CopyInv == ~ dropped => ListCopy = TextsOf(shown)

(* It follows from the invariant of the feed. *)
LEMMA CopyIsShown == TypeOK /\ FeedInv => CopyInv
<1> SUFFICES ASSUME TypeOK, FeedInv, ~ dropped
             PROVE  ListCopy = TextsOf(shown)
  BY DEF CopyInv
<1>1. CASE running
  BY <1>1 DEF ListCopy
<1>2. CASE ~ running
  <2>1. Reflected = shown
    BY <1>2 DEF Reflected, TypeOK, DocumentSet
  <2>2. Mirrors(datas, shown)
    BY <2>1 DEF FeedInv, MirrorInLoop
  <2>3. TextsShown(datas) = TextsOf(shown)
    BY <2>2, MirrorShowsTexts DEF TypeOK
  <2> QED
    BY <1>2, <2>3 DEF ListCopy
<1> QED
  BY <1>1, <1>2

(* What the state of the listener means for the copy. *)
LEMMA ListeningFacts ==
  /\ listener \in {"none", "waiting"} => ListeningState = "no"
  /\ listener = "raised" => ListeningState = "yes"
  /\ listener = "removed" => ListeningState = "ended"
BY DEF ListeningState

(* Before the first event nothing is in transit; an error is the last event. *)
LEMMA TransitFacts ==
  ASSUME TypeOK, FeedInv
  PROVE  /\ listener \in {"none", "waiting"} => queue = <<>> /\ InTransit = <<>>
         /\ listener # "removed" => NoError(queue)
<1>1. listener \in {"none", "waiting"} => queue = <<>> /\ ~ running
  BY DEF FeedInv, ListenerInStep
<1>2. ResultsIn(<<>>) = <<>>
  BY DEF ResultsIn
<1>3. NoError(queue) \/ listener = "removed"
  BY DEF FeedInv, EventsChain, NoError
<1> QED
  BY <1>1, <1>2, <1>3 DEF InTransit

(* Two document sets without a change between them are equal. *)
LEMMA NoChangeNoDifference ==
  ASSUME NEW old \in DocumentSet, NEW new \in DocumentSet, NEW s \in SortedChanges(old, new)
  PROVE  s = <<>> <=> old = new
<1>1. ASSUME s = <<>> PROVE old = new
  <2>1. \A d \in DocIds : old[d] = new[d]
    BY <1>1, SortedChangesFacts
  <2> QED
    BY <2>1 DEF DocumentSet
<1>2. ASSUME old = new PROVE s = <<>>
  <2>1. DocumentChanges(old, new) = {}
    BY <1>2 DEF DocumentChanges, Removed, Added, Modified
  <2>2. s \in Seq(Change) /\ \A i \in DOMAIN s : s[i] \in DocumentChanges(old, new)
    BY SortedChangesFacts
  <2>3. s # <<>> => 1 \in DOMAIN s
    BY <2>2, HeadTailFacts
  <2> QED
    BY <2>1, <2>2, <2>3
<1> QED
  BY <1>1, <1>2

(* The worker: what it does to the results in transit. *)
LEMMA InitialResult ==
  ASSUME TypeOK, FeedInv, listener \in {"none", "waiting"}, NEW new \in DocumentSet,
         NEW isSynced, NEW state, docs' = new,
         RaiseInitialEventIfDue(new, isSynced, state), UNCHANGED <<running, target>>
  PROVE  \/ listener' = "raised" /\ InTransit' = <<new>>
         \/ listener' = "waiting" /\ InTransit' = InTransit
<1>1. queue = <<>> /\ InTransit = <<>> /\ ~ running
  BY TransitFacts DEF FeedInv, ListenerInStep
<1>2. CASE RaiseInitialEvent(new) /\ listener' = "raised"
  <2>1. PICK s \in SortedChanges(EmptyDocumentSet, new) :
          queue' = Append(queue, Snapshot(EmptyDocumentSet, new, s))
    BY <1>2 DEF RaiseInitialEvent
  <2> DEFINE ev == Snapshot(EmptyDocumentSet, new, s)
  <2>2. ~ ev.err /\ ev.documents = new
    BY DEF Snapshot
  <2> HIDE DEF ev
  <2>3. queue' = <<ev>>
    BY <1>1, <2>1 DEF ev
  <2>4. ResultsIn(<<ev>>) = <<new>>
    BY <2>2 DEF ResultsIn
  <2>5. <<>> \o <<new>> = <<new>>
    OBVIOUS
  <2> QED
    BY <1>1, <1>2, <2>3, <2>4, <2>5 DEF InTransit
<1>3. CASE listener' = "waiting" /\ UNCHANGED queue
  BY <1>3 DEF InTransit
<1> QED
  BY <1>2, <1>3 DEF RaiseInitialEventIfDue

(* The steps of the worker are steps of the source and of its listening. *)
LEMMA WorkerRefines ==
  ASSUME TypeOK, FeedInv, Worker, ListCopy' = ListCopy
  PROVE  [Copy!Next]_Copy!vars
<1>0. UNCHANGED <<running, target, dropped>>
  BY WorkerStep DEF FeedInv, callVars
<1>1. ASSUME listener \in {"none", "waiting"}, NEW new \in DocumentSet, docs' = new,
             NEW isSynced, NEW state, RaiseInitialEventIfDue(new, isSynced, state)
      PROVE  [Copy!Next]_Copy!vars
  <2>1. \/ listener' = "raised" /\ InTransit' = <<new>>
        \/ listener' = "waiting" /\ InTransit' = InTransit
    BY <1>0, <1>1, InitialResult
  <2>2. ListeningState = "no"
    BY <1>1, ListeningFacts
  <2>3. CASE listener' = "raised" /\ InTransit' = <<new>>
    <3>1. ListeningState' = "yes"
      BY <2>3 DEF ListeningState
    <3>2. Copy!Start
      BY <1>0, <1>1, <2>2, <2>3, <3>1 DEF Copy!Start
    <3> QED
      BY <3>2 DEF Copy!Next
  <2>4. CASE listener' = "waiting" /\ InTransit' = InTransit
    <3>1. ListeningState' = "no"
      BY <2>4 DEF ListeningState
    <3>2. CASE new = docs
      BY <1>0, <1>1, <2>2, <2>4, <3>1, <3>2 DEF Copy!vars
    <3>3. CASE new # docs
      <4>1. Copy!Change
        BY <1>0, <1>1, <2>2, <2>4, <3>1, <3>3 DEF Copy!Change
      <4> QED
        BY <4>1 DEF Copy!Next
    <3> QED
      BY <3>2, <3>3
  <2> QED
    BY <2>1, <2>3, <2>4
<1>2. CASE Listen
  <2>1. docs' = docs /\ docs \in DocumentSet /\ listener = "none"
        /\ RaiseInitialEventIfDue(docs, synced, online)
    BY <1>2 DEF Listen, TypeOK
  <2> QED
    BY <1>1, <2>1
<1>3. ASSUME NEW new \in DocumentSet, NEW isSynced, OnFirstViewSnapshot(new, isSynced)
      PROVE  [Copy!Next]_Copy!vars
  BY <1>1, <1>3 DEF OnFirstViewSnapshot, ViewMoves
<1>4. ASSUME NEW new \in DocumentSet, NEW isSynced, OnViewSnapshot(new, isSynced)
      PROVE  [Copy!Next]_Copy!vars
  <2>1. PICK s \in SortedChanges(docs, new) :
          queue' = IF s = <<>> THEN queue ELSE Append(queue, Snapshot(docs, new, s))
    BY <1>4 DEF OnViewSnapshot
  <2>2. listener = "raised" /\ listener' = listener /\ docs' = new
    BY <1>4 DEF OnViewSnapshot, ViewMoves
  <2>3. ListeningState = "yes" /\ ListeningState' = ListeningState
    BY <2>2 DEF ListeningState
  <2>4. s = <<>> <=> docs = new
    BY NoChangeNoDifference DEF TypeOK
  <2>5. CASE s = <<>>
    <3>1. InTransit' = InTransit
      BY <1>0, <2>1, <2>5 DEF InTransit
    <3> QED
      BY <1>0, <2>2, <2>3, <2>4, <2>5, <3>1 DEF Copy!vars
  <2>6. CASE s # <<>>
    <3> DEFINE ev == Snapshot(docs, new, s)
               front == IF running THEN <<target>> ELSE <<>>
    <3>1. ev \in Event /\ ~ ev.err /\ ev.documents = new
      BY SnapshotType DEF TypeOK, Snapshot
    <3> HIDE DEF ev
    <3>2. NoError(queue) /\ queue \in Seq(Event)
      BY <2>2, TransitFacts DEF TypeOK
    <3>3. ResultsIn(queue') = Append(ResultsIn(queue), new)
      BY <2>1, <2>6, <3>1, <3>2, ResultsAppend DEF ev
    <3>4. ResultsIn(queue) \in Seq(DocumentSet) /\ front \in Seq(DocumentSet)
      BY <3>2, ResultsFacts DEF TypeOK
    <3>5. InTransit = front \o ResultsIn(queue) /\ InTransit' = front \o ResultsIn(queue')
      BY <1>0 DEF InTransit
    <3> HIDE DEF front
    <3>6. InTransit' = Append(InTransit, new)
      BY <3>3, <3>4, <3>5, AppendToConcat
    <3>7. Copy!Change
      BY <1>0, <2>2, <2>3, <2>4, <2>6, <3>6 DEF Copy!Change
    <3> QED
      BY <3>7 DEF Copy!Next
  <2> QED
    BY <2>5, <2>6
<1>5. ASSUME NEW state, OnlineStateChange(state)
      PROVE  [Copy!Next]_Copy!vars
  <2>1. docs' = docs /\ docs \in DocumentSet
    BY <1>5 DEF OnlineStateChange, TypeOK
  <2>2. CASE listener = "waiting" /\ RaiseInitialEventIfDue(docs, synced', state)
    BY <1>1, <2>1, <2>2
  <2>3. CASE UNCHANGED <<listener, queue>>
    <3>1. InTransit' = InTransit /\ ListeningState' = ListeningState
      BY <1>0, <2>3 DEF InTransit, ListeningState
    <3> QED
      BY <1>0, <2>1, <3>1 DEF Copy!vars
  <2> QED
    BY <1>5, <2>2, <2>3 DEF OnlineStateChange
<1>6. CASE ListenRejected
  <2>1. /\ queue' = Append(queue, ErrorEvent) /\ listener' = "removed" /\ docs' = docs
        /\ listener # "removed"
    BY <1>6 DEF ListenRejected
  <2>2. ErrorEvent \in Event /\ ErrorEvent.err
    <3>1. <<>> \in Seq(Change)
      OBVIOUS
    <3> QED
      BY <3>1 DEF ErrorEvent, Event, TypeOK
  <2>3. NoError(queue) /\ queue \in Seq(Event)
    BY <2>1, TransitFacts DEF TypeOK
  <2>4. ResultsIn(queue') = ResultsIn(queue)
    BY <2>1, <2>2, <2>3, ResultsError
  <2>5. InTransit' = InTransit
    BY <1>0, <2>4 DEF InTransit
  <2>6. ListeningState' = "ended"
    BY <2>1 DEF ListeningState
  <2>7. Copy!End
    BY <1>0, <2>1, <2>5, <2>6 DEF Copy!End
  <2> QED
    BY <2>7 DEF Copy!Next
<1> QED
  BY <1>2, <1>3, <1>4, <1>5, <1>6 DEF Worker

(* The closure takes the results in transit one by one. *)
LEMMA MainThreadRefines ==
  ASSUME TypeOK, FeedInv, MainThread,
         ListCopy = TextsOf(shown), ListCopy' = TextsOf(shown'), dropped' = dropped
  PROVE  [Copy!Next]_Copy!vars
<1>1. UNCHANGED <<docs, listener>> /\ ListeningState' = ListeningState
  BY DEF MainThread, HandleError, HandleEmpty, HandleChanges, HandleAdded, HandleModified,
         HandleRemoved, SkipRemoved, Return, workerVars, ListeningState
<1>2. /\ queue \in Seq(Event) /\ target \in DocumentSet /\ ResultsIn(queue) \in Seq(DocumentSet)
  BY ResultsFacts DEF TypeOK
<1>3. ASSUME InTransit' = InTransit, shown' = shown PROVE [Copy!Next]_Copy!vars
  BY <1>1, <1>3 DEF Copy!vars
<1>4. ASSUME NEW e \in DocumentSet, NEW rest \in Seq(DocumentSet),
             InTransit = <<e>> \o rest, InTransit' = rest, shown' = e
      PROVE  [Copy!Next]_Copy!vars
  <2>1. InTransit # <<>> /\ Head(InTransit) = e /\ Tail(InTransit) = rest
    BY <1>4, FrontResult
  <2>2. Copy!Show
    BY <1>1, <1>4, <2>1 DEF Copy!Show
  <2> QED
    BY <2>2 DEF Copy!Next
<1>5. CASE HandleError
  <2>1. ~ running /\ running' = running /\ queue # <<>> /\ Head(queue).err /\ queue' = Tail(queue)
        /\ shown' = shown
    BY <1>5 DEF HandleError
  <2>2. Len(queue) = 1 /\ queue[1].err /\ queue' = <<>>
    <3>1. Len(queue) \in Nat \ {0} /\ queue[1].err /\ Len(Tail(queue)) = Len(queue) - 1
          /\ Tail(queue) \in Seq(Event)
      BY <1>2, <2>1, HeadTailFacts
    <3>2. Len(queue) = 1
      <4>1. EventsChain /\ 1 \in 1 .. Len(queue)
        BY <3>1 DEF FeedInv
      <4>2. queue[1].err => 1 = Len(queue)
        BY <4>1 DEF EventsChain
      <4> QED
        BY <3>1, <4>2
    <3> QED
      BY <2>1, <3>1, <3>2
  <2>3. ResultsIn(queue) = <<>> /\ ResultsIn(queue') = <<>>
    BY <2>1, <2>2 DEF ResultsIn
  <2>4. InTransit' = InTransit
    BY <2>1, <2>3 DEF InTransit
  <2> QED
    BY <1>3, <2>1, <2>4
<1>6. ASSUME ~ running, queue # <<>>, ~ Head(queue).err
      PROVE  /\ Head(queue).documents \in DocumentSet
             /\ ResultsIn(Tail(queue)) \in Seq(DocumentSet)
             /\ InTransit = <<Head(queue).documents>> \o ResultsIn(Tail(queue))
  <2>1. Head(queue) \in Event /\ Tail(queue) \in Seq(Event)
    BY <1>2, <1>6, HeadTailFacts
  <2>2. ResultsIn(queue) = <<Head(queue).documents>> \o ResultsIn(Tail(queue))
    BY <1>2, <1>6, ResultsTail
  <2>3. InTransit = ResultsIn(queue)
    BY <1>2, <1>6, FrontResult DEF InTransit
  <2> QED
    BY <2>1, <2>2, <2>3, ResultsFacts DEF Event
<1>7. CASE HandleEmpty
  <2>1. /\ ~ running /\ running' = running /\ queue # <<>> /\ ~ Head(queue).err
        /\ queue' = Tail(queue) /\ shown' = Head(queue).documents
    BY <1>7 DEF HandleEmpty
  <2>2. InTransit' = ResultsIn(Tail(queue))
    BY <1>2, <1>6, <2>1, FrontResult DEF InTransit
  <2> QED
    BY <1>4, <1>6, <2>1, <2>2
<1>8. CASE HandleChanges
  <2>1. /\ ~ running /\ running' /\ queue # <<>> /\ ~ Head(queue).err
        /\ queue' = Tail(queue) /\ shown' = shown /\ target' = Head(queue).documents
    BY <1>8 DEF HandleChanges
  <2>2. InTransit' = <<Head(queue).documents>> \o ResultsIn(Tail(queue))
    BY <2>1 DEF InTransit
  <2> QED
    BY <1>3, <1>6, <2>1, <2>2
<1>9. CASE HandleAdded \/ HandleModified \/ HandleRemoved \/ SkipRemoved
  <2>1. UNCHANGED <<running, target, queue, shown>>
    BY <1>9 DEF HandleAdded, HandleModified, HandleRemoved, SkipRemoved
  <2>2. InTransit' = InTransit
    BY <2>1 DEF InTransit
  <2> QED
    BY <1>3, <2>1, <2>2
<1>10. CASE Return
  <2>1. running /\ ~ running' /\ shown' = target /\ queue' = queue
    BY <1>10 DEF Return
  <2>2. InTransit = <<target>> \o ResultsIn(queue) /\ InTransit' = ResultsIn(queue)
    BY <1>2, <2>1, FrontResult DEF InTransit
  <2> QED
    BY <1>2, <1>4, <2>1, <2>2
<1> QED
  BY <1>5, <1>7, <1>8, <1>9, <1>10 DEF MainThread

(* JournalOrder only watches JournalFeed. *)
LEMMA OrderSpecIsSpec == OrderSpec => Spec
<1>1. OrderInit => Init
  BY DEF OrderInit
<1>2. [OrderNext]_orderVars => [Next]_vars
  BY DEF OrderNext, orderVars
<1> QED
  BY <1>1, <1>2, PTL DEF OrderSpec, Spec

(* Every step is one of the lagging copy, or none. *)
LEMMA RefineStep ==
  ASSUME TypeOK, FeedInv, CopyInv, CopyInv', [OrderNext]_orderVars
  PROVE  [Copy!Next]_Copy!vars
<1>1. CASE UNCHANGED orderVars
  <2>1. UNCHANGED <<docs, queue, running, target, shown, datas, listener, dropped>>
    BY <1>1 DEF orderVars, vars, workerVars, getDataVars, callVars
  <2>2. InTransit' = InTransit /\ ListeningState' = ListeningState /\ ListCopy' = ListCopy
    BY <2>1 DEF InTransit, ListeningState, ListCopy
  <2> QED
    BY <2>1, <2>2 DEF Copy!vars
<1>2. CASE OrderNext /\ dropped'
  BY <1>2 DEF Copy!Next
<1>3. CASE OrderNext /\ ~ dropped'
  <2>1. ListCopy' = TextsOf(shown')
    BY <1>3 DEF CopyInv, TextsOf
  <2>2. CASE Worker
    <3>1. UNCHANGED <<running, shown, datas>>
      BY <2>2, WorkerStep DEF FeedInv, callVars, getDataVars
    <3>2. ListCopy' = ListCopy
      BY <3>1 DEF ListCopy
    <3> QED
      BY <2>2, <3>2, WorkerRefines
  <2>3. CASE MainThread
    <3>1. ~ dropped /\ dropped' = dropped
      BY <1>3, <2>3 DEF MainThread, HandleError, HandleEmpty, HandleChanges, HandleAdded,
         HandleModified, HandleRemoved, SkipRemoved, Return, TypeOK
    <3>2. ListCopy = TextsOf(shown)
      BY <3>1 DEF CopyInv
    <3> QED
      BY <2>1, <2>3, <3>1, <3>2, MainThreadRefines
  <2> QED
    BY <1>3, <2>2, <2>3 DEF OrderNext, Next
<1> QED
  BY <1>1, <1>2, <1>3

(***************************************************************************)
(* The view, the events on the main queue and the loop of the closure      *)
(* implement a lagging copy: unless the "removed" branch leaves changes    *)
(* behind, the list moves from one result of the query to the next and     *)
(* skips none, for every set of documents and every interleaving of the    *)
(* worker queue with the main thread.                                      *)
(***************************************************************************)
THEOREM FeedIsLaggingCopy == OrderSpec => ImplementsLaggingCopy
<1>1. OrderInit => Copy!Init
  <2> SUFFICES ASSUME OrderInit PROVE Copy!Init
    OBVIOUS
  <2>1. Init /\ ~ running /\ queue = <<>> /\ datas = <<>> /\ listener = "none"
    BY DEF OrderInit, Init
  <2>2. ResultsIn(queue) = <<>>
    BY <2>1 DEF ResultsIn
  <2>3. InTransit = <<>>
    BY <2>1, <2>2 DEF InTransit
  <2>4. Ids(datas) = {}
    BY <2>1 DEF Ids
  <2>5. ListCopy = TextsOf(EmptyDocumentSet)
    BY <2>1, <2>4 DEF ListCopy, TextsShown, TextsOf, EmptyDocumentSet
  <2>6. ListeningState = "no"
    BY <2>1, ListeningFacts
  <2> QED
    BY <2>1, <2>3, <2>5, <2>6 DEF Copy!Init, Init
<1>2. TypeOK /\ FeedInv /\ CopyInv /\ CopyInv' /\ [OrderNext]_orderVars => [Copy!Next]_Copy!vars
  BY RefineStep
<1> QED
  BY <1>1, <1>2, OrderSpecIsSpec, CopyIsShown, TypeCorrect, FeedCorrect, PTL
     DEF OrderSpec, ImplementsLaggingCopy, Copy!Spec

-----------------------------------------------------------------------------
(* The order of the list. *)

(* The comparator of the query: "date", then key. *)
Earlier(documents, a, b) ==
  \/ documents[a].date < documents[b].date
  \/ documents[a].date = documents[b].date /\ a < b

(* The list has the order of the query and the dates of the documents. *)
InQueryOrder(list, documents) ==
  /\ \A i, j \in DOMAIN list : i < j => Earlier(documents, list[i].id, list[j].id)
  /\ \A i \in DOMAIN list : list[i].date = DateString(documents[list[i].id].date)

(* The inductive invariant: the list is in order inside the loop, too. *)
OrderInv == ~ dropped /\ ~ disturbed => InQueryOrder(datas, Reflected)

(* A journal that comes last in the query is appended. *)
LEMMA OrderAppend ==
  ASSUME NEW list \in Seq(JournalType), NEW old \in DocumentSet, NEW new \in DocumentSet,
         NEW d \in DocIds, NEW e \in Entries, old[d] = NoDocument, new[d] = e,
         \A x \in DocIds \ {d} : new[x] = old[x],
         Mirrors(list, old), InQueryOrder(list, old),
         \A x \in Keys(old) : ~ Earlier(new, d, x)
  PROVE  InQueryOrder(Append(list, Journal(d, e)), new)
<1> DEFINE j0 == Journal(d, e)
           n == Len(list)
           list2 == Append(list, j0)
<1>1. j0 \in JournalType /\ j0.id = d /\ j0.date = DateString(e.date)
  BY JournalFacts DEF Journal
<1> HIDE DEF j0
<1>2. /\ n \in Nat /\ DOMAIN list = 1 .. n /\ list2 \in Seq(JournalType)
      /\ DOMAIN list2 = 1 .. n + 1
      /\ \A i \in 1 .. n : list2[i] = list[i]
      /\ list2[n + 1] = j0
  BY <1>1, AppendProperties
<1> HIDE DEF n, list2
<1>3. ASSUME NEW i \in 1 .. n
      PROVE  /\ list2[i] = list[i] /\ list[i].id \in Keys(old) /\ list[i].id # d
             /\ new[list[i].id] = old[list[i].id]
             /\ list[i].id \in DocIds
  <2>1. list[i].id \in DocIds /\ old[list[i].id] # NoDocument
    BY <1>2, <1>3, JournalIds DEF Mirrors
  <2> QED
    BY <1>2, <2>1 DEF Keys
<1>4. ASSUME NEW x \in Keys(old) PROVE Earlier(new, x, d)
  <2>1. x \in DocIds /\ x # d /\ old[x] # NoDocument /\ new[x] = old[x]
    BY <1>4 DEF Keys
  <2>2. new[x] \in Entries
    BY <2>1 DEF DocumentSet
  <2>3. new[x].date \in Nat /\ new[d].date \in Nat /\ x \in Nat /\ d \in Nat
    BY <2>1, <2>2, EntriesAssumption, DocIdsAssumption
  <2>4. ~ Earlier(new, d, x)
    BY <1>4
  <2> QED
    BY <2>1, <2>3, <2>4 DEF Earlier
<1>5. ASSUME NEW i \in 1 .. n + 1, NEW k \in 1 .. n + 1, i < k
      PROVE  Earlier(new, list2[i].id, list2[k].id)
  <2>1. i \in 1 .. n
    BY <1>2, <1>5
  <2>2. CASE k = n + 1
    BY <1>1, <1>2, <1>3, <1>4, <2>1, <2>2
  <2>3. CASE k # n + 1
    <3>1. k \in 1 .. n
      BY <1>2, <2>3
    <3>2. Earlier(old, list[i].id, list[k].id)
      BY <1>2, <1>5, <2>1, <3>1 DEF InQueryOrder
    <3>3. new[list[i].id] = old[list[i].id] /\ new[list[k].id] = old[list[k].id]
      BY <1>3, <2>1, <3>1
    <3>4. Earlier(new, list[i].id, list[k].id)
      BY <3>2, <3>3 DEF Earlier
    <3> QED
      BY <1>3, <2>1, <3>1, <3>4
  <2> QED
    BY <2>2, <2>3
<1>6. ASSUME NEW i \in 1 .. n + 1
      PROVE  list2[i].date = DateString(new[list2[i].id].date)
  <2>1. CASE i = n + 1
    BY <1>1, <1>2, <2>1
  <2>2. CASE i # n + 1
    <3>1. i \in 1 .. n
      BY <1>2, <2>2
    <3>2. list[i].date = DateString(old[list[i].id].date)
      BY <1>2, <3>1 DEF InQueryOrder
    <3> QED
      BY <1>3, <3>1, <3>2
  <2> QED
    BY <2>1, <2>2
<1>7. InQueryOrder(list2, new)
  BY <1>2, <1>5, <1>6 DEF InQueryOrder
<1> QED
  BY <1>7 DEF list2, j0

(* New texts with the old date change neither the order nor a date. *)
LEMMA OrderWithTexts ==
  ASSUME NEW list \in Seq(JournalType), NEW old \in DocumentSet, NEW new \in DocumentSet,
         NEW d \in DocIds, NEW e \in Entries, new[d] = e, e.date = old[d].date,
         \A x \in DocIds \ {d} : new[x] = old[x], InQueryOrder(list, old)
  PROVE  InQueryOrder(WithTexts(list, d, e), new)
<1> DEFINE list2 == WithTexts(list, d, e)
<1>1. /\ DOMAIN list2 = DOMAIN list
      /\ \A i \in DOMAIN list : list2[i].id = list[i].id /\ list[i].id \in DocIds
  BY WithTextsFacts, JournalIds
<1>2. ASSUME NEW i \in DOMAIN list PROVE list2[i].date = list[i].date
  <2>1. list[i] \in JournalType
    OBVIOUS
  <2> QED
    BY <2>1 DEF WithTexts, JournalType
<1> HIDE DEF list2
<1>3. \A x \in DocIds : new[x].date = old[x].date
  OBVIOUS
<1>4. ASSUME NEW i \in DOMAIN list2, NEW k \in DOMAIN list2, i < k
      PROVE  Earlier(new, list2[i].id, list2[k].id)
  <2>1. Earlier(old, list[i].id, list[k].id)
    BY <1>1, <1>4 DEF InQueryOrder
  <2>2. /\ list2[i].id = list[i].id /\ list2[k].id = list[k].id
        /\ new[list[i].id].date = old[list[i].id].date
        /\ new[list[k].id].date = old[list[k].id].date
    BY <1>1, <1>3
  <2> QED
    BY <2>1, <2>2 DEF Earlier
<1>5. ASSUME NEW i \in DOMAIN list2
      PROVE  list2[i].date = DateString(new[list2[i].id].date)
  BY <1>1, <1>2, <1>3 DEF InQueryOrder
<1>6. InQueryOrder(list2, new)
  BY <1>4, <1>5 DEF InQueryOrder
<1> QED
  BY <1>6 DEF list2

(* What is left after a removal is in order. *)
LEMMA OrderWithout ==
  ASSUME NEW list \in Seq(JournalType), NEW old \in DocumentSet, NEW new \in DocumentSet,
         NEW d \in DocIds, NEW n \in DOMAIN list, list[n].id = d,
         \A x \in DocIds \ {d} : new[x] = old[x],
         Mirrors(list, old), InQueryOrder(list, old)
  PROVE  InQueryOrder(Without(list, n), new)
<1> DEFINE list2 == Without(list, n)
           From(j) == IF j < n THEN j ELSE j + 1
<1>1. /\ Len(list) \in Nat /\ DOMAIN list = 1 .. Len(list)
      /\ DOMAIN list2 = 1 .. Len(list) - 1
      /\ \A j \in 1 .. Len(list) - 1 : list2[j] = list[From(j)]
  BY WithoutFacts
<1> HIDE DEF list2
<1>2. ASSUME NEW j \in DOMAIN list2
      PROVE  /\ From(j) \in DOMAIN list /\ From(j) # n /\ list2[j] = list[From(j)]
             /\ list[From(j)].id \in DocIds
             /\ new[list[From(j)].id] = old[list[From(j)].id]
  <2>1. From(j) \in DOMAIN list /\ From(j) # n /\ list2[j] = list[From(j)]
    BY <1>1
  <2> HIDE DEF From
  <2>2. list[From(j)].id # d
    BY <2>1 DEF Mirrors
  <2>3. list[From(j)].id \in DocIds
    BY <2>1, JournalIds
  <2> QED
    BY <2>1, <2>2, <2>3
<1>3. ASSUME NEW i \in DOMAIN list2, NEW k \in DOMAIN list2, i < k
      PROVE  Earlier(new, list2[i].id, list2[k].id)
  <2>1. From(i) < From(k)
    BY <1>1, <1>3
  <2> HIDE DEF From
  <2>2. Earlier(old, list[From(i)].id, list[From(k)].id)
    BY <1>2, <2>1 DEF InQueryOrder
  <2> QED
    BY <1>2, <2>2 DEF Earlier
<1> HIDE DEF From
<1>4. ASSUME NEW i \in DOMAIN list2
      PROVE  list2[i].date = DateString(new[list2[i].id].date)
  BY <1>2 DEF InQueryOrder
<1>5. InQueryOrder(list2, new)
  BY <1>3, <1>4 DEF InQueryOrder
<1> QED
  BY <1>5 DEF list2

(* A step that edits neither the list nor what it reflects. *)
LEMMA OrderKept ==
  ASSUME OrderInv, datas' = datas, Reflected' = Reflected,
         ~ dropped' => ~ dropped, ~ disturbed' => ~ disturbed
  PROVE  OrderInv'
<1>1. ~ dropped' /\ ~ disturbed' => InQueryOrder(datas', Reflected')
  BY DEF OrderInv
<1> QED
  BY <1>1 DEF OrderInv

(* An addition that is not out of order goes where the query has it. *)
LEMMA OrderAdded ==
  ASSUME TypeOK, FeedInv, OrderInv, HandleAdded, ~ dropped', ~ disturbed, ~ AddsOutOfOrder
  PROVE  InQueryOrder(datas', Reflected')
<1> DEFINE c == Head(todo)
<1>1. /\ running /\ todo # <<>> /\ todo' = Tail(todo) /\ c.type = "added"
      /\ datas' = Append(datas, Journal(c.id, c.doc))
      /\ UNCHANGED <<workerVars, queue, noData, running, target, shown, heard, dropped>>
  BY DEF HandleAdded, NextChange
<1>2. /\ c \in DocumentChanges(shown, target)
      /\ Reflected[c.id] = shown[c.id]
      /\ Reflected'[c.id] = target[c.id]
      /\ \A d \in DocIds \ {c.id} : Reflected'[d] = Reflected[d]
  BY <1>1, NextIteration
<1>3. /\ datas \in Seq(JournalType) /\ shown \in DocumentSet /\ target \in DocumentSet
      /\ Reflected \in DocumentSet /\ Reflected' \in DocumentSet
  BY <1>1 DEF TypeOK, Reflected, DocumentSet
<1>4. /\ c.id \in DocIds /\ c.doc \in Entries
      /\ shown[c.id] = NoDocument /\ target[c.id] = c.doc
  BY <1>1, <1>2, <1>3, ChangeMeaning, DocumentChangesFacts DEF Change
<1>5. \A d \in Keys(Reflected) : ~ QueryBefore(c, [id |-> d, doc |-> Reflected[d]])
  BY <1>1 DEF AddsOutOfOrder, NextChange
<1>6. Mirrors(datas, Reflected) /\ InQueryOrder(datas, Reflected)
  BY <1>1 DEF FeedInv, MirrorInLoop, OrderInv
<1> HIDE DEF c
<1>7. ASSUME NEW d \in Keys(Reflected) PROVE ~ Earlier(Reflected', c.id, d)
  <2>1. d \in DocIds /\ d # c.id
    BY <1>2, <1>4 DEF Keys
  <2>2. ~ QueryBefore(c, [id |-> d, doc |-> Reflected[d]])
    BY <1>5
  <2>3. Reflected'[d] = Reflected[d] /\ Reflected'[c.id] = c.doc
    BY <1>2, <1>4, <2>1
  <2> QED
    BY <2>2, <2>3 DEF Earlier, QueryBefore
<1> QED
  BY <1>1, <1>2, <1>3, <1>4, <1>6, <1>7, OrderAppend

(* A modification that keeps the date keeps the order. *)
LEMMA OrderModified ==
  ASSUME TypeOK, FeedInv, OrderInv, HandleModified, ~ dropped', ~ disturbed, ~ ChangesDate
  PROVE  InQueryOrder(datas', Reflected')
<1> DEFINE c == Head(todo)
<1>1. /\ running /\ todo # <<>> /\ todo' = Tail(todo) /\ c.type = "modified"
      /\ datas' = WithTexts(datas, c.id, c.doc)
      /\ UNCHANGED <<workerVars, queue, noData, running, target, shown, heard, dropped>>
  BY DEF HandleModified, NextChange
<1>2. /\ c \in DocumentChanges(shown, target)
      /\ Reflected[c.id] = shown[c.id]
      /\ Reflected'[c.id] = target[c.id]
      /\ \A d \in DocIds \ {c.id} : Reflected'[d] = Reflected[d]
  BY <1>1, NextIteration
<1>3. /\ datas \in Seq(JournalType) /\ shown \in DocumentSet /\ target \in DocumentSet
      /\ Reflected \in DocumentSet /\ Reflected' \in DocumentSet
  BY <1>1 DEF TypeOK, Reflected, DocumentSet
<1>4. /\ c.id \in DocIds /\ c.doc \in Entries
      /\ shown[c.id] # NoDocument /\ target[c.id] = c.doc
  BY <1>1, <1>2, <1>3, ChangeMeaning, DocumentChangesFacts DEF Change
<1>5. c.doc.date = shown[c.id].date
  BY <1>1 DEF ChangesDate, NextChange
<1>6. InQueryOrder(datas, Reflected)
  BY <1>1 DEF OrderInv
<1> HIDE DEF c
<1> QED
  BY <1>1, <1>2, <1>3, <1>4, <1>5, <1>6, OrderWithTexts

(* A removal that leaves no change behind. *)
LEMMA OrderRemoved ==
  ASSUME TypeOK, FeedInv, OrderInv, HandleRemoved, ~ dropped', ~ disturbed
  PROVE  InQueryOrder(datas', Reflected')
<1> DEFINE c == Head(todo)
<1>1. /\ running /\ todo # <<>> /\ todo' = <<>> /\ c.type = "removed"
      /\ dropped' = (dropped \/ Tail(todo) # <<>>)
      /\ UNCHANGED <<workerVars, queue, running, target, shown, heard>>
  BY DEF HandleRemoved, NextChange
<1>2. PICK i \in DOMAIN datas : datas[i].id = c.id /\ datas' = Without(datas, i)
  BY DEF HandleRemoved, FirstWithId
<1>3. ~ dropped /\ todo' = Tail(todo)
  BY <1>1
<1>4. /\ c \in DocumentChanges(shown, target)
      /\ \A d \in DocIds \ {c.id} : Reflected'[d] = Reflected[d]
  BY <1>1, <1>3, NextIteration
<1>5. /\ datas \in Seq(JournalType) /\ shown \in DocumentSet /\ target \in DocumentSet
      /\ Reflected \in DocumentSet /\ Reflected' \in DocumentSet
  BY <1>1 DEF TypeOK, Reflected, DocumentSet
<1>6. c.id \in DocIds
  BY <1>4, <1>5, ChangeMeaning
<1>7. Mirrors(datas, Reflected) /\ InQueryOrder(datas, Reflected)
  BY <1>3 DEF FeedInv, MirrorInLoop, OrderInv
<1> HIDE DEF c
<1> QED
  BY <1>2, <1>4, <1>5, <1>6, <1>7, OrderWithout

(* A skipped removal is of a document the list has lost before. *)
LEMMA OrderSkip ==
  ASSUME TypeOK, FeedInv, SkipRemoved
  PROVE  dropped'
<1> DEFINE c == Head(todo)
<1>1. /\ running /\ todo # <<>> /\ todo' = Tail(todo) /\ c.type = "removed"
      /\ \A i \in DOMAIN datas : datas[i].id # c.id
      /\ UNCHANGED <<workerVars, queue, datas, noData, running, target, shown, heard, dropped>>
  BY DEF SkipRemoved, NextChange, getDataVars
<1>2. c \in DocumentChanges(shown, target) /\ Reflected[c.id] = shown[c.id]
  BY <1>1, NextIteration
<1>3. shown \in DocumentSet /\ target \in DocumentSet
  BY DEF TypeOK
<1>4. c.id \in DocIds /\ shown[c.id] # NoDocument
  BY <1>1, <1>2, <1>3, ChangeMeaning
<1>5. c.id \in Keys(Reflected)
  BY <1>2, <1>4 DEF Keys
<1> QED
  BY <1>1, <1>5 DEF FeedInv, MirrorInLoop, Mirrors

(* Every step keeps the order. *)
LEMMA OrderStep ==
  ASSUME TypeOK, FeedInv, OrderInv, [OrderNext]_orderVars, disturbed \in BOOLEAN
  PROVE  OrderInv'
<1>1. CASE UNCHANGED orderVars
  <2>1. datas' = datas /\ dropped' = dropped /\ disturbed' = disturbed
        /\ UNCHANGED <<running, todo, target, shown>>
    BY <1>1 DEF orderVars, vars, getDataVars, callVars
  <2>2. Reflected' = Reflected
    BY <2>1 DEF Reflected
  <2> QED
    BY <2>1, <2>2, OrderKept
<1>2. CASE OrderNext
  <2>1. ~ disturbed' => ~ disturbed /\ ~ AddsOutOfOrder /\ ~ ChangesDate
    BY <1>2 DEF OrderNext
  <2>2. CASE Worker
    <3>1. datas' = datas /\ UNCHANGED <<running, todo, target, shown, dropped>>
      BY <2>2, WorkerStep DEF FeedInv, callVars, getDataVars
    <3>2. Reflected' = Reflected
      BY <3>1 DEF Reflected
    <3> QED
      BY <2>1, <3>1, <3>2, OrderKept
  <2>3. CASE HandleError
    <3>1. datas' = datas /\ UNCHANGED <<running, todo, target, shown, dropped>>
      BY <2>3 DEF HandleError
    <3>2. Reflected' = Reflected
      BY <3>1 DEF Reflected
    <3> QED
      BY <2>1, <3>1, <3>2, OrderKept
  <2>4. CASE HandleEmpty
    <3>1. /\ datas' = datas /\ dropped' = dropped /\ ~ running /\ running' = running
          /\ Head(queue).changes = <<>> /\ shown' = Head(queue).documents
      BY <2>4 DEF HandleEmpty
    <3>2. /\ Head(queue).documents \in DocumentSet
          /\ Head(queue).changes \in SortedChanges(shown, Head(queue).documents)
      <4>1. Base' = Head(queue).documents
        BY <3>1 DEF Base
      <4>2. /\ EventsChain /\ ListenerInStep /\ queue # <<>> /\ ~ Head(queue).err
            /\ queue' = Tail(queue) /\ UNCHANGED workerVars
        BY <2>4 DEF FeedInv, HandleEmpty
      <4> QED
        BY <3>1, <4>1, <4>2, TakeEvent
    <3>3. shown' = shown
      <4>1. shown \in DocumentSet
        BY DEF TypeOK
      <4> QED
        BY <3>1, <3>2, <4>1, NoChangeNoDifference
    <3>4. Reflected' = Reflected
      BY <3>1, <3>3 DEF Reflected
    <3> QED
      BY <2>1, <3>1, <3>4, OrderKept
  <2>5. CASE HandleChanges
    <3> DEFINE new == Head(queue).documents
               s == Head(queue).changes
    <3>1. /\ running' /\ todo' = s /\ target' = new /\ shown' = shown /\ dropped' = dropped
          /\ datas' = datas /\ ~ running
      BY <2>5 DEF HandleChanges, getDataVars
    <3>2. new \in DocumentSet /\ s \in SortedChanges(shown, new)
      <4>1. Base' = new
        BY <3>1 DEF Base
      <4>2. /\ EventsChain /\ ListenerInStep /\ queue # <<>> /\ ~ Head(queue).err
            /\ queue' = Tail(queue) /\ UNCHANGED workerVars
        BY <2>5 DEF FeedInv, HandleChanges
      <4> QED
        BY <3>1, <4>1, <4>2, TakeEvent
    <3> HIDE DEF new, s
    <3>3. \A d \in DocIds : shown[d] # new[d] => \E k \in DOMAIN s : s[k].id = d
      BY <3>2, SortedChangesFacts DEF TypeOK
    <3>4. Reflected' = Reflected
      BY <3>1, <3>3 DEF Reflected
    <3> QED
      BY <2>1, <3>1, <3>4, OrderKept
  <2>6. CASE Return
    <3>1. /\ running /\ ~ running' /\ todo = <<>> /\ shown' = target /\ datas' = datas
          /\ todo' = todo /\ dropped' = dropped
      BY <2>6 DEF Return, getDataVars
    <3>2. Reflected' = Reflected
      BY <3>1 DEF Reflected
    <3> QED
      BY <2>1, <3>1, <3>2, OrderKept
  <2>7. CASE HandleAdded
    BY <2>1, <2>7, OrderAdded DEF OrderInv
  <2>8. CASE HandleModified
    BY <2>1, <2>8, OrderModified DEF OrderInv
  <2>9. CASE HandleRemoved
    BY <2>1, <2>9, OrderRemoved DEF OrderInv
  <2>10. CASE SkipRemoved
    BY <2>10, OrderSkip DEF OrderInv
  <2> QED
    BY <1>2, <2>2, <2>3, <2>4, <2>5, <2>6, <2>7, <2>8, <2>9, <2>10 DEF OrderNext, Next, MainThread
<1> QED
  BY <1>1, <1>2
(* The changes of a first snapshot. *)
LEMMA FirstChanges ==
  ASSUME NEW documents \in DocumentSet
  PROVE  DocumentChanges(EmptyDocumentSet, documents) =
           {[type |-> "added", id |-> d, doc |-> documents[d]] : d \in Keys(documents)}
<1>1. Keys(EmptyDocumentSet) = {}
  BY DEF Keys, EmptyDocumentSet
<1> QED
  BY <1>1 DEF DocumentChanges, Removed, Added, Modified

(* A list in the order of the query is the one a fresh getData builds. *)
LEMMA FreshFromOrder ==
  ASSUME NEW documents \in DocumentSet, NEW list \in Seq(JournalType),
         Mirrors(list, documents), InQueryOrder(list, documents)
  PROVE  list \in FreshLists(documents)
<1> DEFINE n == Len(list)
           S == DocumentChanges(EmptyDocumentSet, documents)
           At(d) == [type |-> "added", id |-> d, doc |-> documents[d]]
           s == [i \in 1 .. n |-> At(list[i].id)]
<1>1. n \in Nat /\ DOMAIN list = 1 .. n
  OBVIOUS
<1>2. ASSUME NEW i \in 1 .. n
      PROVE  /\ list[i] \in JournalType /\ list[i].id \in Keys(documents)
             /\ list[i].id \in DocIds /\ documents[list[i].id] \in Entries
  <2>1. list[i] \in JournalType /\ list[i].id \in DocIds
    BY <1>1, JournalIds
  <2>2. documents[list[i].id] # NoDocument
    BY <1>1 DEF Mirrors
  <2> QED
    BY <2>1, <2>2 DEF Keys, DocumentSet
<1>3. S = {At(d) : d \in Keys(documents)}
  BY FirstChanges
<1>4. s \in [1 .. n -> S]
  BY <1>2, <1>3
<1>5. ASSUME NEW i \in 1 .. n
      PROVE  s[i].type = "added" /\ s[i].id = list[i].id /\ s[i].doc = documents[list[i].id]
  OBVIOUS
<1>6. \A c \in S : \E i \in 1 .. n : s[i] = c
  <2> SUFFICES ASSUME NEW c \in S PROVE \E i \in 1 .. n : s[i] = c
    OBVIOUS
  <2>1. PICK d \in Keys(documents) : c = At(d)
    BY <1>3
  <2>2. PICK i \in 1 .. n : list[i].id = d
    BY <1>1 DEF Mirrors
  <2> QED
    BY <2>1, <2>2
<1> HIDE DEF s, S, At
<1>7. \A i, j \in 1 .. n : s[i] = s[j] => i = j
  BY <1>1, <1>5 DEF Mirrors
<1>8. Cardinality(S) = n
  <2>1. s \in Bijection(1 .. n, S)
    BY <1>4, <1>6, <1>7 DEF Bijection, Injection, Surjection, IsInjective
  <2>2. ExistsBijection(1 .. n, S)
    BY <2>1 DEF ExistsBijection
  <2> QED
    BY <1>1, <2>2, FS_CountingElements
<1>9. ASSUME NEW i \in 1 .. n, NEW j \in 1 .. n, i < j
      PROVE  ChangeBefore(s[i], s[j])
  <2>1. Earlier(documents, list[i].id, list[j].id)
    BY <1>1, <1>9 DEF InQueryOrder
  <2>2. QueryBefore(s[i], s[j])
    BY <1>5, <2>1 DEF QueryBefore, Earlier
  <2> QED
    BY <1>5, <2>2 DEF ChangeBefore
<1>10. s \in SortedChanges(EmptyDocumentSet, documents)
  <2>1. DOMAIN s = 1 .. n
    BY <1>4
  <2>2. s \in [1 .. Cardinality(S) -> S]
    BY <1>4, <1>8
  <2> QED
    BY <1>6, <1>9, <2>1, <2>2 DEF SortedChanges, S
<1>11. ASSUME NEW i \in 1 .. n PROVE list[i] = Journal(s[i].id, s[i].doc)
  <2>1. /\ list[i].title = documents[list[i].id].title
        /\ list[i].description = documents[list[i].id].description
    BY <1>1 DEF Mirrors
  <2>2. list[i].date = DateString(documents[list[i].id].date)
    BY <1>1 DEF InQueryOrder
  <2>3. list[i] \in JournalType
    BY <1>2
  <2> QED
    BY <1>5, <2>1, <2>2, <2>3 DEF Journal, JournalType
<1>12. list = [i \in DOMAIN s |-> Journal(s[i].id, s[i].doc)]
  <2>1. DOMAIN s = 1 .. n
    BY <1>4
  <2>2. list = [i \in 1 .. n |-> list[i]]
    BY <1>1
  <2> QED
    BY <1>11, <2>1, <2>2
<1> QED
  BY <1>10, <1>12 DEF FreshLists

(***************************************************************************)
(* Unless a journal was added out of order, a date was changed or a        *)
(* removal left changes behind, the list the closure has patched together  *)
(* is, journal by journal, the one a fresh getData would build from the    *)
(* last snapshot: same order, same dates, for every set of documents.      *)
(***************************************************************************)
THEOREM ListIsFresh == OrderSpec => []FreshUnlessDisturbed
<1> DEFINE Inv == OrderInv /\ disturbed \in BOOLEAN
<1>1. OrderInit => Inv
  <2> SUFFICES ASSUME OrderInit PROVE Inv
    OBVIOUS
  <2>1. datas = <<>> /\ disturbed \in BOOLEAN
    BY DEF OrderInit, Init
  <2>2. InQueryOrder(datas, Reflected)
    BY <2>1 DEF InQueryOrder
  <2> QED
    BY <2>1, <2>2 DEF OrderInv
<1>2. TypeOK /\ FeedInv /\ Inv /\ [OrderNext]_orderVars => Inv'
  <2> SUFFICES ASSUME TypeOK, FeedInv, Inv, [OrderNext]_orderVars PROVE Inv'
    OBVIOUS
  <2>1. disturbed' \in BOOLEAN
    BY DEF OrderNext, orderVars
  <2> QED
    BY <2>1, OrderStep
<1>3. TypeOK /\ FeedInv /\ Inv => FreshUnlessDisturbed
  <2> SUFFICES ASSUME TypeOK, FeedInv, OrderInv, ~ running, ~ dropped, ~ disturbed
               PROVE  datas \in FreshLists(shown)
    BY DEF FreshUnlessDisturbed
  <2>1. shown \in DocumentSet /\ datas \in Seq(JournalType)
    BY DEF TypeOK
  <2>2. Reflected = shown
    BY <2>1 DEF Reflected, DocumentSet
  <2> QED
    BY <2>1, <2>2, FreshFromOrder DEF FeedInv, MirrorInLoop, OrderInv
<1> QED
  BY OrderSpecIsSpec, <1>1, <1>2, <1>3, TypeCorrect, FeedCorrect, PTL DEF OrderSpec
=============================================================================
