------------------------- MODULE JournalSyncProofs --------------------------
(***************************************************************************)
(* Proofs about JournalSync: the write path.  The chain is                 *)
(*   CoreInv     the pipeline and the stream against the mutation queue    *)
(*   ViewTypes   the types of cache and view                               *)
(*   HistoryInv  what the log of the backend holds                         *)
(*   OriginInv   what cache and view take from the log                     *)
(* JournalSyncViewProofs goes on from here to what the user sees.          *)
(*                                                                         *)
(* Induction over a queue or a log is done by its least counterexample     *)
(* (LeastNatural).                                                         *)
(***************************************************************************)
EXTENDS JournalSync, SequenceTheorems, FiniteSetTheorems, WellFoundedInduction, TLAPS

(* A nonempty set of naturals has a least element. *)
LEMMA LeastNatural ==
  ASSUME NEW T, T \subseteq Nat, T # {}
  PROVE  \E n \in T : \A m \in T : n <= m
<1> DEFINE R == {ss \in Nat \X Nat : ss[1] < ss[2]}
<1>0. OpToRel(<, Nat) = R
  BY DEF OpToRel
<1>1. PICK n \in T : \A m \in T : <<m, n>> \notin OpToRel(<, Nat)
  BY NatLessThanWellFounded, WFMin
<1>2. \A m \in T : <<m, n>> \notin R
  BY <1>1, <1>0, Zenon
<1>3. n \in Nat /\ \A m \in T : m \in Nat
  OBVIOUS
<1>4. \A m \in T : ~ (m < n)
  BY <1>2, <1>3
<1> QED
  BY <1>4

(* A nonempty set of numbers up to v has a greatest element. *)
LEMMA GreatestBelow ==
  ASSUME NEW v \in Nat, NEW S, S \subseteq 1 .. v, S # {}
  PROVE  \E n \in S : \A m \in S : m <= n
<1> DEFINE T == {i \in Nat : v - i \in S}
<1>1. T \subseteq Nat
  OBVIOUS
<1>2. T # {}
  <2>1. PICK n \in S : TRUE
    OBVIOUS
  <2>2. n \in 1 .. v
    BY <2>1
  <2>3. v - n \in Nat /\ v - (v - n) = n
    BY <2>2
  <2> QED
    BY <2>1, <2>3
<1>3. PICK t \in T : \A u \in T : t <= u
  <2> HIDE DEF T
  <2> QED
    BY <1>1, <1>2, LeastNatural
<1>4. ASSUME NEW m \in S PROVE m <= v - t
  <2>1. m \in 1 .. v
    BY <1>4
  <2>2. v - m \in Nat /\ v - (v - m) = m
    BY <2>1
  <2>3. t <= v - m
    BY <1>3, <2>2
  <2> QED
    BY <2>1, <2>3, <1>3
<1> QED
  BY <1>3, <1>4

-----------------------------------------------------------------------------
(* The local view of a document. *)

(* What the mutation queue makes of a cached document. *)
LocalDoc == [entry : Text, local : BOOLEAN, committed : BOOLEAN]

(* The cached document, before any mutation is applied to it. *)
Base(cached) ==
  [entry |-> cached.entry, local |-> FALSE, committed |-> cached.committed]

(* One mutation of the queue applied to what the earlier ones have left. *)
Applied(d, m, doc) == IF m.id = d THEN ApplyToLocalView(m, doc) ELSE doc

(* Only a delete leaves no text. *)
LEMMA TextOfType ==
  ASSUME NEW m \in Mutation
  PROVE  TextOf(m) \in Text /\ (m.type = "delete" <=> TextOf(m) = NoDocument)
BY SyncAssumption DEF Mutation, TextOf, Text, NoDocument

(* Applying a mutation gives a document again. *)
LEMMA AppliedType ==
  ASSUME NEW d, NEW m \in Mutation, NEW doc \in LocalDoc
  PROVE  Applied(d, m, doc) \in LocalDoc
BY TextOfType DEF Applied, ApplyToLocalView, LocalDoc

(***************************************************************************)
(* LocalDocument folds the queue over the cached document: there is a run  *)
(* of intermediate documents that starts at the cached one, takes one      *)
(* mutation per step and ends with the result.                             *)
(***************************************************************************)
LEMMA LocalDocumentDef ==
  ASSUME NEW d \in DocIds, NEW cached \in CachedDocument, NEW queue \in Seq(Mutation)
  PROVE  \E f \in [0 .. Len(queue) -> LocalDoc] :
           /\ f[0] = Base(cached)
           /\ \A n \in 1 .. Len(queue) : f[n] = Applied(d, queue[n], f[n - 1])
           /\ LocalDocument(d, cached, queue) = f[Len(queue)]
<1> DEFINE Step(f, n) == IF n = 0 THEN Base(cached) ELSE Applied(d, queue[n], f[n - 1])
           Good(k) == \E f \in [0 .. k -> LocalDoc] : \A n \in 0 .. k : f[n] = Step(f, n)
           Bad == {k \in 0 .. Len(queue) : ~ Good(k)}
<1>0. Base(cached) \in LocalDoc
  BY DEF Base, LocalDoc, CachedDocument
<1>1. ASSUME Bad # {} PROVE FALSE
  <2>1. PICK k \in Bad : \A j \in Bad : k <= j
    <3>1. Bad \subseteq Nat
      OBVIOUS
    <3> HIDE DEF Bad
    <3> QED
      BY <1>1, <3>1, LeastNatural
  <2>2. CASE k = 0
    <3> DEFINE f == [n \in 0 .. 0 |-> Base(cached)]
    <3>1. f \in [0 .. 0 -> LocalDoc]
      BY <1>0
    <3>2. \A n \in 0 .. 0 : f[n] = Step(f, n)
      OBVIOUS
    <3> QED
      BY <2>1, <2>2, <3>1, <3>2
  <2>3. CASE k > 0
    <3>1. Good(k - 1)
      <4>1. k \in 0 .. Len(queue) /\ k - 1 \in 0 .. Len(queue) /\ ~ (k <= k - 1)
        BY <2>1, <2>3
      <4> HIDE DEF Good
      <4> QED
        BY <2>1, <4>1
    <3>2. PICK g \in [0 .. k - 1 -> LocalDoc] : \A n \in 0 .. k - 1 : g[n] = Step(g, n)
      BY <3>1
    <3> DEFINE f == [n \in 0 .. k |-> IF n = k THEN Applied(d, queue[k], g[k - 1]) ELSE g[n]]
    <3>3. Applied(d, queue[k], g[k - 1]) \in LocalDoc
      BY <2>1, <2>3, AppliedType
    <3>4. f \in [0 .. k -> LocalDoc]
      BY <3>3
    <3>5. \A n \in 0 .. k : f[n] = Step(f, n)
      BY <3>2, <2>3
    <3> QED
      BY <2>1, <3>4, <3>5
  <2> QED
    BY <2>1, <2>2, <2>3
<1>2. PICK f \in [0 .. Len(queue) -> LocalDoc] : \A n \in 0 .. Len(queue) : f[n] = Step(f, n)
  BY <1>1
<1> DEFINE IsOver(g) == g = [n \in 0 .. Len(queue) |-> Step(g, n)]
           Over == CHOOSE g : IsOver(g)
<1>3. IsOver(f)
  BY <1>2
<1>4. IsOver(Over)
  BY <1>3
<1>5. LocalDocument(d, cached, queue) = Over[Len(queue)]
  BY DEF LocalDocument, Applied, Base
<1>6. \A n \in 0 .. Len(queue) : Over[n] = Step(Over, n)
  BY <1>4
<1> HIDE DEF Over
<1> DEFINE Differ == {k \in 0 .. Len(queue) : Over[k] # f[k]}
<1>7. ASSUME Differ # {} PROVE FALSE
  <2>1. PICK k \in Differ : \A j \in Differ : k <= j
    <3>1. Differ \subseteq Nat
      OBVIOUS
    <3> HIDE DEF Differ
    <3> QED
      BY <1>7, <3>1, LeastNatural
  <2> QED
    BY <2>1, <1>2, <1>6
<1>8. Over[Len(queue)] = f[Len(queue)]
  BY <1>7
<1> QED
  BY <1>2, <1>5, <1>8

(* What mutations leave of a document is typed, and it is the cached text, *)
(* no document, or marked as local.                                        *)
LEMMA LocalDocumentFacts ==
  ASSUME NEW d \in DocIds, NEW cached \in CachedDocument, NEW queue \in Seq(Mutation)
  PROVE  LET new == LocalDocument(d, cached, queue) IN
         /\ new \in LocalDoc
         /\ new.local \/ new.entry = NoDocument \/ new.entry = cached.entry
         /\ (\A i \in 1 .. Len(queue) : queue[i].id # d) => new = Base(cached)
<1>1. PICK f \in [0 .. Len(queue) -> LocalDoc] :
        /\ f[0] = Base(cached)
        /\ \A n \in 1 .. Len(queue) : f[n] = Applied(d, queue[n], f[n - 1])
        /\ LocalDocument(d, cached, queue) = f[Len(queue)]
  BY LocalDocumentDef
<1> DEFINE Shape(doc) == doc.local \/ doc.entry = NoDocument \/ doc.entry = cached.entry
           Bad == {n \in 0 .. Len(queue) : ~ Shape(f[n])}
           Touched == {n \in 0 .. Len(queue) : f[n] # Base(cached)}
<1>2. Bad \subseteq Nat /\ Touched \subseteq Nat
  OBVIOUS
<1>3. Shape(f[Len(queue)])
  <2>1. SUFFICES ASSUME Bad # {} PROVE FALSE
    OBVIOUS
  <2>2. PICK n \in Bad : \A k \in Bad : n <= k
    <3> HIDE DEF Bad
    <3> QED
      BY <1>2, <2>1, LeastNatural
  <2>3. n # 0
    BY <1>1, <2>2 DEF Base
  <2>4. n \in 1 .. Len(queue) /\ n - 1 \in 0 .. Len(queue) /\ ~ (n <= n - 1)
    BY <2>2, <2>3
  <2>5. Shape(f[n - 1])
    BY <2>2, <2>4
  <2>6. queue[n] \in Mutation
    BY <2>4
  <2>7. Shape(f[n])
    <3>1. CASE f[n] = f[n - 1]
      BY <2>5, <3>1
    <3>2. CASE f[n] # f[n - 1]
      <4>1. f[n] = [entry |-> TextOf(queue[n]), local |-> queue[n].type # "delete",
                    committed |-> FALSE]
        BY <1>1, <2>4, <3>2 DEF Applied, ApplyToLocalView
      <4>2. CASE queue[n].type = "delete"
        BY <2>6, <4>1, <4>2, TextOfType
      <4>3. CASE queue[n].type # "delete"
        <5>1. f[n].local = (queue[n].type # "delete")
          BY <4>1
        <5> QED
          BY <4>3, <5>1
      <4> QED
        BY <4>2, <4>3
    <3> QED
      BY <3>1, <3>2
  <2> QED
    BY <2>2, <2>7
<1>4. ASSUME \A i \in 1 .. Len(queue) : queue[i].id # d
      PROVE  f[Len(queue)] = Base(cached)
  <2>1. SUFFICES ASSUME Touched # {} PROVE FALSE
    OBVIOUS
  <2>2. PICK n \in Touched : \A k \in Touched : n <= k
    <3> HIDE DEF Touched
    <3> QED
      BY <1>2, <2>1, LeastNatural
  <2>3. n # 0
    BY <1>1, <2>2
  <2>4. n \in 1 .. Len(queue) /\ n - 1 \in 0 .. Len(queue) /\ ~ (n <= n - 1)
    BY <2>2, <2>3
  <2>5. f[n - 1] = Base(cached)
    BY <2>2, <2>4
  <2> QED
    BY <1>1, <1>4, <2>2, <2>4, <2>5 DEF Applied
<1>5. f[Len(queue)] \in LocalDoc
  OBVIOUS
<1> QED
  BY <1>1, <1>3, <1>4, <1>5

(* The types of the cache and of the view. *)
DocumentCache == [DocIds -> CachedDocument]
DocumentView == [DocIds -> ViewDocument]

(* The computed view is a view. *)
LEMMA ComputeType ==
  ASSUME NEW old \in DocumentView, NEW newCache \in DocumentCache,
         NEW queue \in Seq(Mutation)
  PROVE  ComputeDocumentChanges(old, newCache, queue) \in DocumentView
<1>1. ASSUME NEW d \in DocIds
      PROVE  LocalDocument(d, newCache[d], queue) \in LocalDoc
  BY LocalDocumentFacts DEF DocumentCache
<1> QED
  BY <1>1 DEF ComputeDocumentChanges, DocumentView, ViewDocument, LocalDoc

(***************************************************************************)
(* What the computed view shows without local changes is what the cache    *)
(* has, or nothing; it is what the cache has if no mutation is for it.     *)
(***************************************************************************)
LEMMA ComputeFacts ==
  ASSUME NEW old \in DocumentView, NEW newCache \in DocumentCache,
         NEW queue \in Seq(Mutation), NEW d \in DocIds,
         ~ ComputeDocumentChanges(old, newCache, queue)[d].local
  PROVE  LET new == ComputeDocumentChanges(old, newCache, queue)[d] IN
         /\ new.entry = NoDocument \/ new.entry = newCache[d].entry
         /\ (\A i \in 1 .. Len(queue) : queue[i].id # d) => new.entry = newCache[d].entry
<1> DEFINE new == LocalDocument(d, newCache[d], queue)
<1>1. /\ new \in LocalDoc
      /\ new.local \/ new.entry = NoDocument \/ new.entry = newCache[d].entry
      /\ (\A i \in 1 .. Len(queue) : queue[i].id # d) => new = Base(newCache[d])
  BY LocalDocumentFacts DEF DocumentCache
<1>2. ComputeDocumentChanges(old, newCache, queue)[d] =
        IF /\ old[d].entry # NoDocument /\ new.entry # NoDocument
           /\ ShouldWaitForSyncedDocument(new, old[d])
        THEN old[d]
        ELSE [entry |-> new.entry, local |-> new.local]
  BY DEF ComputeDocumentChanges
<1>3. ~ (/\ old[d].entry # NoDocument /\ new.entry # NoDocument
         /\ ShouldWaitForSyncedDocument(new, old[d]))
  BY <1>2 DEF ShouldWaitForSyncedDocument
<1> HIDE DEF new
<1>4. ComputeDocumentChanges(old, newCache, queue)[d] = [entry |-> new.entry, local |-> new.local]
  BY <1>2, <1>3
<1> QED
  BY <1>1, <1>4 DEF Base

-----------------------------------------------------------------------------
(* The backend as a log. *)

(* LastCommit and Backend, of a log given as a parameter. *)
LastIn(l, d, v) ==
  LET commits == {i \in 1 .. v : l[i].id = d} IN
  IF commits = {} THEN 0 ELSE CHOOSE i \in commits : \A j \in commits : j <= i

(* The text of a document after the first v commits of a log l. *)
TextIn(l, d, v) == IF LastIn(l, d, v) = 0 THEN NoDocument ELSE l[LastIn(l, d, v)].entry

(* LastCommit and Backend, with the log as an argument. *)
LEMMA BackendIsTextIn ==
  \A d, v : LastCommit(d, v) = LastIn(log, d, v) /\ Backend(d, v) = TextIn(log, d, v)
BY DEF LastCommit, Backend, CommitsOf, LastIn, TextIn

(* The last commit of a document at a version. *)
LEMMA LastInFacts ==
  ASSUME NEW l, NEW d, NEW v \in Nat
  PROVE  /\ LastIn(l, d, v) \in 0 .. v
         /\ LastIn(l, d, v) # 0 => l[LastIn(l, d, v)].id = d
         /\ \A i \in 1 .. v : l[i].id = d => i <= LastIn(l, d, v)
<1> DEFINE S == {i \in 1 .. v : l[i].id = d}
<1>1. CASE S = {}
  BY <1>1 DEF LastIn
<1>2. CASE S # {}
  <2>1. \E n \in S : \A m \in S : m <= n
    <3>1. S \subseteq 1 .. v
      OBVIOUS
    <3> HIDE DEF S
    <3> QED
      BY <1>2, <3>1, GreatestBelow
  <2>2. LastIn(l, d, v) = CHOOSE i \in S : \A j \in S : j <= i
    BY <1>2 DEF LastIn
  <2>3. LastIn(l, d, v) \in S /\ \A j \in S : j <= LastIn(l, d, v)
    BY <2>1, <2>2
  <2> QED
    BY <2>3
<1> QED
  BY <1>1, <1>2

(* Whatever is the last commit is LastIn. *)
LEMMA LastInUnique ==
  ASSUME NEW l, NEW d, NEW v \in Nat, NEW n \in 0 .. v,
         n # 0 => l[n].id = d,
         \A i \in 1 .. v : l[i].id = d => i <= n
  PROVE  LastIn(l, d, v) = n
BY LastInFacts

(* At every version from the last commit on, the document is the same. *)
LEMMA TextInStays ==
  ASSUME NEW l, NEW d, NEW v \in Nat, NEW u \in Nat, LastIn(l, d, v) <= u, u <= v
  PROVE  LastIn(l, d, u) = LastIn(l, d, v) /\ TextIn(l, d, u) = TextIn(l, d, v)
<1>1. LastIn(l, d, u) = LastIn(l, d, v)
  BY LastInFacts
<1> QED
  BY <1>1 DEF TextIn

(* The text after some commits is a text. *)
LEMMA TextInType ==
  ASSUME NEW l \in Seq(Commit), NEW d, NEW v \in 0 .. Len(l)
  PROVE  TextIn(l, d, v) \in Text
<1>1. NoDocument \in Text
  BY SyncAssumption DEF NoDocument, Text
<1>2. LastIn(l, d, v) # 0 => l[LastIn(l, d, v)] \in Commit
  BY LastInFacts
<1> QED
  BY <1>1, <1>2 DEF TextIn, Commit

(* A commit changes nothing at the versions before it. *)
LEMMA TextInOld ==
  ASSUME NEW l \in Seq(Commit), NEW c \in Commit, NEW d, NEW v \in 0 .. Len(l)
  PROVE  /\ LastIn(Append(l, c), d, v) = LastIn(l, d, v)
         /\ TextIn(Append(l, c), d, v) = TextIn(l, d, v)
<1> DEFINE k == Append(l, c)
<1>1. \A i \in 1 .. v : k[i] = l[i]
  BY AppendProperties
<1> HIDE DEF k
<1>2. LastIn(l, d, v) \in 0 .. v
  BY LastInFacts
<1>3. LastIn(k, d, v) = LastIn(l, d, v)
  BY <1>1, <1>2, LastInFacts, LastInUnique
<1>4. TextIn(k, d, v) = TextIn(l, d, v)
  BY <1>1, <1>2, <1>3 DEF TextIn
<1> QED
  BY <1>3, <1>4 DEF k

(* A commit is what the backend has of its document, and of no other.      *)
LEMMA TextInNew ==
  ASSUME NEW l \in Seq(Commit), NEW c \in Commit, NEW d
  PROVE  /\ TextIn(Append(l, c), d, Len(l) + 1) =
              IF c.id = d THEN c.entry ELSE TextIn(l, d, Len(l))
         /\ LastIn(Append(l, c), d, Len(l) + 1) =
              IF c.id = d THEN Len(l) + 1 ELSE LastIn(l, d, Len(l))
<1> DEFINE k == Append(l, c)
           n == Len(l) + 1
<1>1. n \in Nat /\ k[n] = c /\ \A i \in 1 .. Len(l) : k[i] = l[i]
  BY AppendProperties
<1> HIDE DEF k
<1>2. CASE c.id = d
  <2>1. LastIn(k, d, n) = n
    BY <1>1, <1>2, LastInUnique
  <2> QED
    BY <1>1, <1>2, <2>1 DEF TextIn, k
<1>3. CASE c.id # d
  <2>1. /\ LastIn(l, d, Len(l)) \in 0 .. Len(l)
        /\ LastIn(l, d, Len(l)) # 0 => l[LastIn(l, d, Len(l))].id = d
        /\ \A i \in 1 .. Len(l) : l[i].id = d => i <= LastIn(l, d, Len(l))
    BY LastInFacts
  <2>2. LastIn(k, d, n) = LastIn(l, d, Len(l))
    BY <1>1, <1>3, <2>1, LastInUnique
  <2> QED
    BY <1>1, <1>3, <2>1, <2>2 DEF TextIn, k
<1> QED
  BY <1>2, <1>3

-----------------------------------------------------------------------------
(* The queue and the pipeline. *)

(* The batch ids of a queue go up. *)
Increasing(queue) ==
  \A i, j \in 1 .. Len(queue) : i < j => queue[i].batch < queue[j].batch

(* The smaller of two numbers. *)
Least(a, b) == IF a < b THEN a ELSE b

(* What FirstOf returns: a prefix, shortened to n. *)
LEMMA FirstOfFacts ==
  ASSUME NEW S, NEW seq \in Seq(S), NEW n \in Nat
  PROVE  /\ FirstOf(seq, n) \in Seq(S)
         /\ Len(FirstOf(seq, n)) = Least(n, Len(seq))
         /\ \A i \in 1 .. Least(n, Len(seq)) : FirstOf(seq, n)[i] = seq[i]
<1> DEFINE m == IF n < Len(seq) THEN n ELSE Len(seq)
<1>1. m \in Nat /\ m <= Len(seq) /\ \A i \in 1 .. m : seq[i] \in S
  OBVIOUS
<1>2. FirstOf(seq, n) = SubSeq(seq, 1, m)
  BY DEF FirstOf
<1>3. Least(n, Len(seq)) = m
  BY DEF Least
<1> HIDE DEF m
<1>4. /\ SubSeq(seq, 1, m) \in Seq(S)
      /\ Len(SubSeq(seq, 1, m)) = IF 1 <= m THEN m - 1 + 1 ELSE 0
      /\ \A i \in 1 .. m - 1 + 1 : SubSeq(seq, 1, m)[i] = seq[1 + i - 1]
  BY <1>1, SubSeqProperties
<1>5. m - 1 + 1 = m /\ \A i \in 1 .. m : 1 + i - 1 = i
  BY <1>1
<1>6. Len(SubSeq(seq, 1, m)) = m
  BY <1>1, <1>4
<1>7. \A i \in 1 .. m : SubSeq(seq, 1, m)[i] = seq[i]
  BY <1>4, <1>5
<1> QED
  BY <1>2, <1>3, <1>4, <1>6, <1>7

(* Taking the front batch out of the queue leaves the rest.                *)
LEMMA WithoutFront ==
  ASSUME NEW queue \in Seq(Mutation), queue # <<>>, Increasing(queue)
  PROVE  WithoutBatch(queue, queue[1].batch) = Tail(queue)
<1> DEFINE at == CHOOSE i \in DOMAIN queue : queue[i].batch = queue[1].batch
<1>1. Len(queue) \in Nat \ {0} /\ \A i \in 1 .. Len(queue) : queue[i].batch \in Int
  <2>1. Len(queue) \in Nat \ {0}
    BY EmptySeq
  <2>2. ASSUME NEW i \in 1 .. Len(queue) PROVE queue[i].batch \in Int
    <3>1. queue[i] \in Mutation
      OBVIOUS
    <3> QED
      BY <3>1 DEF Mutation
  <2> QED
    BY <2>1, <2>2
<1>2. DOMAIN queue = 1 .. Len(queue)
  OBVIOUS
<1>3. 1 \in DOMAIN queue
  BY <1>1, <1>2
<1>4. at \in DOMAIN queue /\ queue[at].batch = queue[1].batch
  BY <1>3
<1>5. WithoutBatch(queue, queue[1].batch) =
        SubSeq(queue, 1, at - 1) \o SubSeq(queue, at + 1, Len(queue))
  BY DEF WithoutBatch
<1> HIDE DEF at
<1>6. at = 1
  BY <1>1, <1>2, <1>4 DEF Increasing
<1>7. SubSeq(queue, 1, 0) = <<>>
  BY SubSeqEmpty
<1>8. SubSeq(queue, 2, Len(queue)) = Tail(queue)
  BY TailIsSubSeq
<1>9. Tail(queue) \in Seq(Mutation)
  BY HeadTailProperties
<1> QED
  BY <1>5, <1>6, <1>7, <1>8, <1>9, ConcatEmptySeq

(* The pipeline is the front of the queue, no longer than its bound. *)
IsPrefixOf(pipe, queue) ==
  /\ pipe \in Seq(Mutation) /\ Len(pipe) <= Len(queue) /\ Len(pipe) <= MaxPending
  /\ \A i \in 1 .. Len(pipe) : pipe[i] = queue[i]

(* The pipeline has the first batches, as many as it may have. *)
IsFilled(pipe, queue) ==
  /\ pipe \in Seq(Mutation) /\ Len(pipe) = Least(MaxPending, Len(queue))
  /\ \A i \in 1 .. Len(pipe) : pipe[i] = queue[i]

(***************************************************************************)
(* A pipeline that holds the first batches of the queue is filled up to    *)
(* the first MaxPending of them.                                           *)
(***************************************************************************)
LEMMA FilledPipeline ==
  ASSUME NEW queue \in Seq(Mutation), Increasing(queue), NEW pipe, IsPrefixOf(pipe, queue)
  PROVE  /\ NextBatches(pipe, queue) \in Seq(Mutation)
         /\ Len(NextBatches(pipe, queue)) = Least(MaxPending, Len(queue)) - Len(pipe)
         /\ \A i \in 1 .. Len(NextBatches(pipe, queue)) :
              NextBatches(pipe, queue)[i] = queue[Len(pipe) + i]
         /\ IsFilled(pipe \o NextBatches(pipe, queue), queue)
<1> DEFINE n == Len(pipe)
           last == IF pipe = <<>> THEN 0 ELSE pipe[Len(pipe)].batch
           Passed(k) == /\ \A i \in 1 .. k : queue[i].batch <= last
                        /\ k < Len(queue) => queue[k + 1].batch > last
           passed == CHOOSE k \in 0 .. Len(queue) : Passed(k)
           rest == SubSeq(queue, n + 1, Len(queue))
           more == NextBatches(pipe, queue)
<1>0. MaxPending \in Nat
  BY SyncAssumption
<1>1. /\ pipe \in Seq(Mutation) /\ n \in Nat /\ Len(queue) \in Nat
      /\ n <= Len(queue) /\ n <= MaxPending
      /\ \A i \in 1 .. n : pipe[i] = queue[i]
  BY DEF IsPrefixOf
<1>2. \A i \in 1 .. Len(queue) : queue[i].batch \in Nat \ {0}
  <2>1. ASSUME NEW i \in 1 .. Len(queue) PROVE queue[i] \in Mutation
    OBVIOUS
  <2> QED
    BY <2>1, SyncAssumption DEF Mutation
<1>3. last = IF n = 0 THEN 0 ELSE queue[n].batch
  BY <1>1, EmptySeq
<1> HIDE DEF last
<1>4. Passed(n)
  <2>1. ASSUME NEW i \in 1 .. n PROVE queue[i].batch <= last
    <3>1. i < n => queue[i].batch < queue[n].batch
      BY <1>1 DEF Increasing
    <3>2. queue[i].batch \in Nat /\ queue[n].batch \in Nat /\ last = queue[n].batch
      BY <1>1, <1>2, <1>3
    <3> QED
      BY <1>1, <3>1, <3>2
  <2>2. ASSUME n < Len(queue) PROVE queue[n + 1].batch > last
    <3>1. n + 1 \in 1 .. Len(queue) /\ n < n + 1 /\ queue[n + 1].batch \in Nat \ {0}
      BY <1>1, <1>2, <2>2
    <3>2. n # 0 => queue[n].batch < queue[n + 1].batch /\ queue[n].batch \in Nat
      BY <1>1, <1>2, <3>1 DEF Increasing
    <3> QED
      BY <1>3, <3>1, <3>2
  <2> QED
    BY <2>1, <2>2
<1>5. ASSUME NEW k \in 0 .. Len(queue), Passed(k) PROVE k = n
  <2>1. ~ (k < n)
    <3>1. SUFFICES ASSUME k < n PROVE FALSE
      OBVIOUS
    <3>2. k + 1 \in 1 .. Len(queue) /\ n \in 1 .. Len(queue) /\ k < Len(queue) /\ n # 0
      BY <1>1, <3>1
    <3>3. queue[k + 1].batch > queue[n].batch
      BY <1>3, <1>5, <3>2
    <3>4. k + 1 = n \/ k + 1 < n
      BY <1>1, <3>1
    <3> QED
      BY <1>2, <3>2, <3>3, <3>4 DEF Increasing
  <2>2. ~ (k > n)
    <3>1. SUFFICES ASSUME k > n PROVE FALSE
      OBVIOUS
    <3>2. n + 1 \in 1 .. k /\ n + 1 \in 1 .. Len(queue)
      BY <1>1, <3>1
    <3>3. queue[n + 1].batch <= last
      BY <1>5, <3>2
    <3> QED
      BY <1>1, <1>2, <1>3, <3>2, <3>3 DEF Increasing
  <2> QED
    BY <1>1, <2>1, <2>2
<1>6. NextBatches(pipe, queue) =
        FirstOf(SubSeq(queue, passed + 1, Len(queue)), MaxPending - Len(pipe))
  BY DEF NextBatches, last
<1>7. passed = n
  <2>1. n \in 0 .. Len(queue)
    BY <1>1
  <2> HIDE DEF Passed, n
  <2> QED
    BY <1>4, <1>5, <2>1
<1> HIDE DEF passed, Passed
<1>8. more = FirstOf(rest, MaxPending - n)
  BY <1>6, <1>7
<1>9. /\ rest \in Seq(Mutation)
      /\ Len(rest) = Len(queue) - n
      /\ \A i \in 1 .. Len(queue) - n : rest[i] = queue[n + i]
  <2>1. \A i \in n + 1 .. Len(queue) : queue[i] \in Mutation
    BY <1>1
  <2>2. /\ rest \in Seq(Mutation)
        /\ Len(rest) = IF n + 1 <= Len(queue) THEN Len(queue) - (n + 1) + 1 ELSE 0
        /\ \A i \in 1 .. Len(queue) - (n + 1) + 1 : rest[i] = queue[(n + 1) + i - 1]
    BY <1>1, <2>1, SubSeqProperties
  <2>3. Len(queue) - (n + 1) + 1 = Len(queue) - n
    BY <1>1
  <2>4. \A i \in Int : (n + 1) + i - 1 = n + i
    BY <1>1
  <2> QED
    BY <1>1, <2>2, <2>3, <2>4
<1> HIDE DEF rest, more
<1>10. MaxPending - n \in Nat /\ Least(MaxPending - n, Len(rest)) = Least(MaxPending, Len(queue)) - n
  BY <1>0, <1>1, <1>9 DEF Least
<1>11. /\ more \in Seq(Mutation)
       /\ Len(more) = Least(MaxPending, Len(queue)) - n
       /\ \A i \in 1 .. Len(more) : more[i] = rest[i]
  <2> DEFINE p == MaxPending - n
             len == Least(p, Len(rest))
  <2>1. /\ FirstOf(rest, p) \in Seq(Mutation)
        /\ Len(FirstOf(rest, p)) = len
        /\ \A i \in 1 .. len : FirstOf(rest, p)[i] = rest[i]
    <3>1. p \in Nat
      BY <1>10
    <3> HIDE DEF p
    <3> QED
      BY <1>9, <3>1, FirstOfFacts
  <2>2. more = FirstOf(rest, p) /\ len = Least(MaxPending, Len(queue)) - n
    BY <1>8, <1>10
  <2> HIDE DEF p, len
  <2> QED
    BY <2>1, <2>2
<1>12. \A i \in 1 .. Len(more) : more[i] = queue[n + i]
  BY <1>0, <1>1, <1>9, <1>11 DEF Least
<1>13. IsFilled(pipe \o more, queue)
  <2>1. /\ pipe \o more \in Seq(Mutation)
        /\ Len(pipe \o more) = n + Len(more)
        /\ \A i \in 1 .. n + Len(more) :
             (pipe \o more)[i] = IF i <= n THEN pipe[i] ELSE more[i - n]
    BY <1>1, <1>11, ConcatProperties
  <2>2. Len(pipe \o more) = Least(MaxPending, Len(queue))
    BY <1>0, <1>1, <1>11, <2>1 DEF Least
  <2>3. ASSUME NEW i \in 1 .. n + Len(more) PROVE (pipe \o more)[i] = queue[i]
    <3>1. CASE i <= n
      BY <1>1, <2>1, <3>1
    <3>2. CASE ~ (i <= n)
      <4>1. i - n \in 1 .. Len(more) /\ n + (i - n) = i
        BY <1>1, <1>11, <2>1, <3>2
      <4> QED
        BY <1>12, <2>1, <3>2, <4>1
    <3> QED
      BY <3>1, <3>2
  <2> QED
    BY <2>1, <2>2, <2>3 DEF IsFilled
<1> QED
  BY <1>11, <1>12, <1>13 DEF more

-----------------------------------------------------------------------------
(* The invariant of the write path: definitions. *)

(* The variables of the write path. *)
writeVars == <<backendVars, mutations, streamVars, signedIn, historyVars>>

(***************************************************************************)
(* The types of the write path: the log, the mutation queue, the stream    *)
(* and the histories.                                                      *)
(***************************************************************************)
WriteTypes ==
  /\ log \in Seq(Commit)
  /\ written \in Nat
  /\ mutations \in Seq(Mutation)
  /\ pipeline \in Seq(Mutation)
  /\ open \in BOOLEAN
  /\ requests \in Seq(Mutation)
  /\ responses \in Seq(Response)
  /\ signedIn \in BOOLEAN
  /\ refused \subseteq Mutation
  /\ answerLost \in BOOLEAN

(* The types of the cache and of the view. *)
ViewTypes ==
  /\ cache \in DocumentCache
  /\ remoteKeys \subseteq DocIds
  /\ watched \in 0 .. Len(log)
  /\ view \in DocumentView
  /\ current \in BOOLEAN
  /\ limbo \subseteq DocIds
  /\ faults \in Nat

(* The writes under way are those of the pipeline behind the n answered. *)
Sent(reqs, n, pipe) ==
  /\ Len(reqs) = Len(pipe) - n
  /\ \A i \in 1 .. Len(reqs) : reqs[i] = pipe[n + i]

(* The batches on the queue have been written, oldest first. *)
QueueInv ==
  /\ \A i \in 1 .. Len(mutations) : mutations[i].batch <= written
  /\ Increasing(mutations)

(***************************************************************************)
(* The write stream against the queue: the pipeline is the front of the    *)
(* queue and is full, the responses answer its first batches in turn and   *)
(* only the last one may be an error, and what was sent and not yet        *)
(* handled follows them. A closed stream carries nothing.                  *)
(***************************************************************************)
StreamInv ==
  /\ IsFilled(pipeline, ActiveQueue)
  /\ Len(responses) <= Len(pipeline)
  /\ \A i \in 1 .. Len(responses) : responses[i].batch = mutations[i].batch
  /\ \A i \in 1 .. Len(responses) - 1 : responses[i].version # NotFound
  /\ open /\ ~ Ended => Sent(requests, Len(responses), pipeline)
  /\ ~ open => requests = <<>> /\ responses = <<>>

(* The inductive invariant of the write path. *)
CoreInv == WriteTypes /\ QueueInv /\ StreamInv

(* Only the empty sequence has length zero. *)
LEMMA LenZero ==
  ASSUME NEW S, NEW seq \in Seq(S)
  PROVE  /\ Len(seq) \in Nat
         /\ seq = <<>> <=> Len(seq) = 0
BY EmptySeq

(* Head and Tail, by their places. *)
LEMMA HeadTail ==
  ASSUME NEW S, NEW seq \in Seq(S), seq # <<>>
  PROVE  /\ Len(seq) \in Nat \ {0}
         /\ Head(seq) = seq[1] /\ seq[1] \in S
         /\ Tail(seq) \in Seq(S) /\ Len(Tail(seq)) = Len(seq) - 1
         /\ \A i \in 1 .. Len(seq) - 1 : Tail(seq)[i] = seq[i + 1]
BY HeadTailProperties, EmptySeq

(* The fields of a mutation. *)
LEMMA MutationType ==
  ASSUME NEW m \in Mutation
  PROVE  /\ m.batch \in Nat \ {0} /\ m.batch <= MaxWrites
         /\ m.id \in DocIds /\ m.type \in {"set", "patch", "delete"}
BY SyncAssumption DEF Mutation

(* While an answer is on the way, the user is in and the front of the      *)
(* pipeline is the front of the queue.                                     *)
LEMMA FrontFacts ==
  ASSUME CoreInv, responses # <<>>
  PROVE  /\ signedIn /\ open /\ mutations # <<>> /\ pipeline # <<>>
         /\ ActiveQueue = mutations
         /\ Head(pipeline) = mutations[1] /\ Head(pipeline) = Head(mutations)
         /\ Len(responses) \in Nat \ {0} /\ Len(responses) <= Len(pipeline)
         /\ Len(pipeline) <= Len(mutations)
         /\ mutations[1] \in Mutation
<1>1. Len(responses) \in Nat \ {0}
  BY LenZero DEF CoreInv, WriteTypes
<1>2. Len(pipeline) \in Nat \ {0} /\ Len(ActiveQueue) # 0 /\ Len(pipeline) <= Len(ActiveQueue)
  <2>1. Len(ActiveQueue) \in Nat
    BY LenZero, EmptySeq DEF CoreInv, WriteTypes, ActiveQueue
  <2> QED
    BY <1>1, <2>1, LenZero, SyncAssumption DEF CoreInv, WriteTypes, StreamInv, IsFilled, Least
<1>3. signedIn
  BY <1>2, EmptySeq DEF ActiveQueue
<1>4. ActiveQueue = mutations
  BY <1>3 DEF ActiveQueue
<1>5. mutations # <<>> /\ pipeline # <<>>
  BY <1>2, <1>4, LenZero DEF CoreInv, WriteTypes
<1>6. Head(pipeline) = pipeline[1] /\ Head(mutations) = mutations[1] /\ mutations[1] \in Mutation
  BY <1>5, HeadTail DEF CoreInv, WriteTypes
<1>7. pipeline[1] = mutations[1]
  BY <1>2, <1>4 DEF CoreInv, StreamInv, IsFilled
<1> QED
  BY <1>1, <1>2, <1>3, <1>4, <1>5, <1>6, <1>7 DEF CoreInv, StreamInv

(* Taking the front out of the queue and of the pipeline.                  *)
LEMMA FrontTaken ==
  ASSUME CoreInv, responses # <<>>
  PROVE  LET queue == Tail(mutations) IN
         /\ WithoutBatch(mutations, Head(pipeline).batch) = queue
         /\ queue \in Seq(Mutation) /\ Len(queue) = Len(mutations) - 1
         /\ \A i \in 1 .. Len(mutations) - 1 : queue[i] = mutations[i + 1]
         /\ Increasing(queue)
         /\ \A i \in 1 .. Len(queue) : queue[i].batch <= written
         /\ IsPrefixOf(Tail(pipeline), queue)
         /\ Len(Tail(pipeline)) = Len(pipeline) - 1
         /\ \A i \in 1 .. Len(pipeline) - 1 : Tail(pipeline)[i] = pipeline[i + 1]
<1> DEFINE queue == Tail(mutations)
<1>1. /\ signedIn /\ open /\ mutations # <<>> /\ pipeline # <<>>
      /\ ActiveQueue = mutations
      /\ Head(pipeline) = mutations[1]
      /\ Len(pipeline) <= Len(mutations)
  BY FrontFacts
<1>2. /\ Len(mutations) \in Nat \ {0} /\ queue \in Seq(Mutation) /\ Len(queue) = Len(mutations) - 1
      /\ \A i \in 1 .. Len(mutations) - 1 : queue[i] = mutations[i + 1]
  BY <1>1, HeadTail DEF CoreInv, WriteTypes
<1>3. /\ Len(pipeline) \in Nat \ {0} /\ Tail(pipeline) \in Seq(Mutation)
      /\ Len(Tail(pipeline)) = Len(pipeline) - 1
      /\ \A i \in 1 .. Len(pipeline) - 1 : Tail(pipeline)[i] = pipeline[i + 1]
  BY <1>1, HeadTail DEF CoreInv, WriteTypes
<1>4. WithoutBatch(mutations, Head(pipeline).batch) = queue
  BY <1>1, WithoutFront DEF CoreInv, WriteTypes, QueueInv
<1> HIDE DEF queue
<1>5. Increasing(queue) /\ \A i \in 1 .. Len(queue) : queue[i].batch <= written
  BY <1>2 DEF CoreInv, QueueInv, Increasing
<1>6. IsPrefixOf(Tail(pipeline), queue)
  <2>1. Len(Tail(pipeline)) <= Len(queue) /\ Len(Tail(pipeline)) <= MaxPending
    BY <1>1, <1>2, <1>3, SyncAssumption DEF CoreInv, StreamInv, IsFilled, Least
  <2>2. ASSUME NEW i \in 1 .. Len(Tail(pipeline)) PROVE Tail(pipeline)[i] = queue[i]
    <3>1. i \in 1 .. Len(pipeline) - 1 /\ i \in 1 .. Len(mutations) - 1 /\ i + 1 \in 1 .. Len(pipeline)
      BY <1>1, <1>2, <1>3
    <3> QED
      BY <1>1, <1>2, <1>3, <3>1 DEF CoreInv, StreamInv, IsFilled
  <2> QED
    BY <1>3, <2>1, <2>2 DEF IsPrefixOf
<1> QED
  BY <1>2, <1>3, <1>4, <1>5, <1>6 DEF queue

-----------------------------------------------------------------------------
(* The write path: the user writes. *)

(* What is added to the pipeline is sent behind what was sent before.      *)
LEMMA SentMore ==
  ASSUME NEW reqs \in Seq(Mutation), NEW pipe \in Seq(Mutation), NEW more \in Seq(Mutation),
         NEW n \in Nat, n <= Len(pipe), Sent(reqs, n, pipe)
  PROVE  Sent(reqs \o more, n, pipe \o more)
<1>1. /\ Len(reqs) \in Nat /\ Len(pipe) \in Nat /\ Len(more) \in Nat
      /\ Len(reqs) = Len(pipe) - n
      /\ \A i \in 1 .. Len(reqs) : reqs[i] = pipe[n + i]
  BY LenZero DEF Sent
<1>2. /\ Len(reqs \o more) = Len(reqs) + Len(more)
      /\ \A i \in 1 .. Len(reqs) + Len(more) :
           (reqs \o more)[i] = IF i <= Len(reqs) THEN reqs[i] ELSE more[i - Len(reqs)]
  BY ConcatProperties
<1>3. /\ Len(pipe \o more) = Len(pipe) + Len(more)
      /\ \A i \in 1 .. Len(pipe) + Len(more) :
           (pipe \o more)[i] = IF i <= Len(pipe) THEN pipe[i] ELSE more[i - Len(pipe)]
  BY ConcatProperties
<1>4. ASSUME NEW i \in 1 .. Len(reqs) + Len(more)
      PROVE  (reqs \o more)[i] = (pipe \o more)[n + i]
  <2>1. n + i \in 1 .. Len(pipe) + Len(more) /\ i - Len(reqs) = n + i - Len(pipe)
        /\ (i <= Len(reqs) <=> n + i <= Len(pipe))
    BY <1>1
  <2>2. (pipe \o more)[n + i] =
          IF n + i <= Len(pipe) THEN pipe[n + i] ELSE more[n + i - Len(pipe)]
    BY <1>3, <2>1
  <2>3. (reqs \o more)[i] = IF i <= Len(reqs) THEN reqs[i] ELSE more[i - Len(reqs)]
    BY <1>2
  <2>4. CASE i <= Len(reqs)
    BY <1>1, <2>1, <2>2, <2>3, <2>4
  <2>5. CASE ~ (i <= Len(reqs))
    BY <2>1, <2>2, <2>3, <2>5
  <2> QED
    BY <2>4, <2>5
<1> QED
  BY <1>1, <1>2, <1>3, <1>4 DEF Sent

(* An answer taken off leaves the requests where they are. *)
LEMMA SentTail ==
  ASSUME NEW reqs \in Seq(Mutation), NEW pipe \in Seq(Mutation), NEW n \in Nat \ {0},
         n <= Len(pipe), Sent(reqs, n, pipe)
  PROVE  Sent(reqs, n - 1, Tail(pipe))
<1>1. pipe # <<>>
  BY LenZero
<1>2. /\ Len(pipe) \in Nat \ {0} /\ Len(Tail(pipe)) = Len(pipe) - 1
      /\ \A i \in 1 .. Len(pipe) - 1 : Tail(pipe)[i] = pipe[i + 1]
  BY <1>1, HeadTail
<1>3. Len(reqs) \in Nat
  BY LenZero
<1> QED
  BY <1>2, <1>3 DEF Sent

(* The write path starts empty. *)
LEMMA CoreInvInit == Init => CoreInv
<1> SUFFICES ASSUME Init PROVE CoreInv
  OBVIOUS
<1>1. [id |-> FirstDoc, entry |-> -1, batch |-> 0] \in Commit
  BY SyncAssumption DEF Commit, Text
<1>2. log \in Seq(Commit)
  <2> DEFINE c == [id |-> FirstDoc, entry |-> -1, batch |-> 0]
  <2>1. log = <<c>>
    BY DEF Init
  <2> HIDE DEF c
  <2> QED
    BY <1>1, <2>1 DEF c
<1>3. WriteTypes
  BY <1>2, EmptySeq DEF Init, WriteTypes
<1>4. QueueInv
  BY EmptySeq DEF Init, QueueInv, Increasing
<1>5. StreamInv
  BY EmptySeq, SyncAssumption DEF Init, StreamInv, IsFilled, ActiveQueue, Least
<1> QED
  BY <1>3, <1>4, <1>5 DEF CoreInv

(* A step of the view leaves the write path alone. *)
LEMMA CoreInvUnchanged ==
  ASSUME CoreInv, UNCHANGED writeVars
  PROVE  CoreInv'
BY DEF CoreInv, WriteTypes, QueueInv, StreamInv, writeVars, backendVars, streamVars, historyVars,
       ActiveQueue, Ended, IsPermanentWriteError

(* The mutation of a write of the user. *)
NewMutation(type, d) == [batch |-> written + 1, id |-> d, type |-> type]

(***************************************************************************)
(* SyncEngine::WriteMutations puts a new, greatest batch at the end of the *)
(* queue.                                                                  *)
(***************************************************************************)
LEMMA WriteMutationsFacts ==
  ASSUME CoreInv, NEW type \in {"set", "patch", "delete"}, NEW d \in DocIds,
         WriteMutations(type, d)
  PROVE  /\ NewMutation(type, d) \in Mutation
         /\ mutations' = Append(mutations, NewMutation(type, d))
         /\ mutations' \in Seq(Mutation)
         /\ Len(mutations') = Len(mutations) + 1
         /\ \A i \in 1 .. Len(mutations) : mutations'[i] = mutations[i]
         /\ mutations'[Len(mutations) + 1] = NewMutation(type, d)
         /\ Increasing(mutations')
<1>1. /\ written < MaxWrites /\ written' = written + 1
      /\ mutations' = Append(mutations, NewMutation(type, d))
  BY DEF WriteMutations, WriteLocally, NewMutation
<1>2. NewMutation(type, d) \in Mutation
  BY <1>1, SyncAssumption DEF CoreInv, WriteTypes, Mutation, NewMutation
<1>3. /\ mutations' \in Seq(Mutation)
      /\ Len(mutations') = Len(mutations) + 1
      /\ \A i \in 1 .. Len(mutations) : mutations'[i] = mutations[i]
      /\ mutations'[Len(mutations) + 1] = NewMutation(type, d)
  BY <1>1, <1>2, AppendProperties DEF CoreInv, WriteTypes
<1>4. Increasing(mutations')
  <2>1. NewMutation(type, d).batch = written + 1 /\ written \in Nat /\ Len(mutations) \in Nat
    BY LenZero DEF NewMutation, CoreInv, WriteTypes
  <2>2. ASSUME NEW i \in 1 .. Len(mutations'), NEW j \in 1 .. Len(mutations'), i < j
        PROVE  mutations'[i].batch < mutations'[j].batch
    <3>0. i \in 1 .. Len(mutations) /\ mutations[i] \in Mutation /\ mutations[i].batch \in Int
      BY <1>3, <2>1, <2>2, MutationType DEF CoreInv, WriteTypes
    <3>1. CASE j = Len(mutations) + 1
      <4>1. mutations[i].batch <= written
        BY <3>0 DEF CoreInv, QueueInv
      <4> QED
        BY <1>3, <2>1, <3>0, <3>1, <4>1
    <3>2. CASE j # Len(mutations) + 1
      BY <1>3, <2>1, <2>2, <3>0, <3>2 DEF CoreInv, QueueInv, Increasing
    <3> QED
      BY <3>1, <3>2
  <2> QED
    BY <2>2 DEF Increasing
<1> QED
  BY <1>1, <1>2, <1>3, <1>4

(***************************************************************************)
(* A write of the user keeps the write path in step: the pipeline is       *)
(* filled from the queue and an open stream sends what is new in it.       *)
(***************************************************************************)
LEMMA CoreInvWrite ==
  ASSUME CoreInv, NEW type \in {"set", "patch", "delete"}, NEW d \in DocIds,
         WriteMutations(type, d)
  PROVE  CoreInv'
<1> DEFINE more == NextBatches(pipeline, mutations')
<1>1. /\ mutations' \in Seq(Mutation)
      /\ Len(mutations') = Len(mutations) + 1
      /\ \A i \in 1 .. Len(mutations) : mutations'[i] = mutations[i]
      /\ mutations'[Len(mutations) + 1] = NewMutation(type, d)
      /\ Increasing(mutations')
  BY WriteMutationsFacts
<1>2. /\ signedIn /\ signedIn' /\ written' = written + 1
      /\ pipeline' = pipeline \o more
      /\ requests' = IF open THEN requests \o more ELSE requests
      /\ UNCHANGED <<log, open, responses, refused, answerLost>>
  BY DEF WriteMutations, WriteLocally, FillWritePipeline, historyVars
<1>3. ActiveQueue = mutations /\ ActiveQueue' = mutations'
  BY <1>2 DEF ActiveQueue
<1>4. /\ pipeline \in Seq(Mutation) /\ requests \in Seq(Mutation)
      /\ Len(pipeline) \in Nat /\ Len(responses) \in Nat /\ Len(mutations) \in Nat
  BY LenZero DEF CoreInv, WriteTypes
<1>5. IsPrefixOf(pipeline, mutations')
  <2>1. Len(pipeline) <= Len(mutations) /\ Len(pipeline) <= MaxPending
    BY <1>3, <1>4, SyncAssumption DEF CoreInv, StreamInv, IsFilled, Least
  <2>2. \A i \in 1 .. Len(pipeline) : pipeline[i] = mutations'[i]
    BY <1>1, <1>3, <1>4, <2>1 DEF CoreInv, StreamInv, IsFilled
  <2> QED
    BY <1>1, <1>4, <2>1, <2>2 DEF IsPrefixOf
<1>6. more \in Seq(Mutation) /\ IsFilled(pipeline \o more, mutations')
  BY <1>1, <1>5, FilledPipeline
<1> HIDE DEF more
<1>7. WriteTypes'
  <2>1. requests' \in Seq(Mutation) /\ pipeline' \in Seq(Mutation)
    BY <1>2, <1>4, <1>6, ConcatProperties
  <2> QED
    BY <1>1, <1>2, <2>1 DEF CoreInv, WriteTypes
<1>8. QueueInv'
  <2>1. ASSUME NEW i \in 1 .. Len(mutations') PROVE mutations'[i].batch <= written'
    <3>1. CASE i = Len(mutations) + 1
      BY <1>1, <1>2, <3>1 DEF CoreInv, WriteTypes, NewMutation
    <3>2. CASE i # Len(mutations) + 1
      <4>1. i \in 1 .. Len(mutations) /\ mutations[i] \in Mutation
        BY <1>1, <1>4, <3>2 DEF CoreInv, WriteTypes
      <4>2. mutations[i].batch <= written /\ mutations[i].batch \in Int
        BY <4>1, MutationType DEF CoreInv, QueueInv
      <4> QED
        BY <1>1, <1>2, <4>1, <4>2 DEF CoreInv, WriteTypes
    <3> QED
      BY <3>1, <3>2
  <2> QED
    BY <1>1, <2>1 DEF QueueInv
<1>9. StreamInv'
  <2>1. IsFilled(pipeline, ActiveQueue)'
    BY <1>2, <1>3, <1>6
  <2>2. Len(responses') <= Len(pipeline')
    <3>1. Len(pipeline') = Len(pipeline) + Len(more) /\ Len(more) \in Nat
      BY <1>2, <1>4, <1>6, ConcatProperties, LenZero
    <3> QED
      BY <1>2, <1>4, <3>1 DEF CoreInv, StreamInv
  <2>3. \A i \in 1 .. Len(responses') : responses'[i].batch = mutations'[i].batch
    <3>1. Len(responses) <= Len(mutations)
      BY <1>3, <1>4, SyncAssumption DEF CoreInv, StreamInv, IsFilled, Least
    <3> QED
      BY <1>1, <1>2, <1>4, <3>1 DEF CoreInv, StreamInv
  <2>4. \A i \in 1 .. Len(responses') - 1 : responses'[i].version # NotFound
    BY <1>2 DEF CoreInv, StreamInv
  <2>5. ASSUME open', ~ Ended' PROVE Sent(requests', Len(responses'), pipeline')
    <3>1. open /\ ~ Ended
      BY <1>2, <2>5 DEF Ended, IsPermanentWriteError
    <3>2. Sent(requests, Len(responses), pipeline) /\ Len(responses) <= Len(pipeline)
      BY <3>1 DEF CoreInv, StreamInv
    <3> QED
      BY <1>2, <1>4, <1>6, <3>1, <3>2, SentMore
  <2>6. ~ open' => requests' = <<>> /\ responses' = <<>>
    BY <1>2 DEF CoreInv, StreamInv
  <2> QED
    BY <2>1, <2>2, <2>3, <2>4, <2>5, <2>6 DEF StreamInv
<1> QED
  BY <1>7, <1>8, <1>9 DEF CoreInv

-----------------------------------------------------------------------------
(* The write path: the backend. *)

(* A new stream sends the whole pipeline, in order. *)
LEMMA CoreInvHandshake ==
  ASSUME CoreInv, OnWriteStreamHandshakeComplete
  PROVE  CoreInv'
<1>1. /\ ~ open /\ open' /\ requests' = pipeline /\ responses = <<>>
      /\ UNCHANGED <<log, written, mutations, pipeline, responses, signedIn, refused, answerLost>>
  BY DEF OnWriteStreamHandshakeComplete, backendVars, historyVars, CoreInv, StreamInv
<1>2. WriteTypes' /\ QueueInv'
  BY <1>1 DEF OnWriteStreamHandshakeComplete, CoreInv, WriteTypes, QueueInv
<1>3. Sent(requests', Len(responses'), pipeline')
  BY <1>1, LenZero, EmptySeq DEF CoreInv, WriteTypes, Sent
<1>4. StreamInv'
  BY <1>1, <1>3 DEF CoreInv, StreamInv, ActiveQueue
<1> QED
  BY <1>2, <1>4 DEF CoreInv

(* The write that the backend handles next.                                *)
LEMMA HeadOfRequests ==
  ASSUME CoreInv, requests # <<>>, ~ Ended
  PROVE  LET n == Len(responses) + 1 IN
         /\ open /\ signedIn /\ ActiveQueue = mutations
         /\ n \in 1 .. Len(pipeline) /\ n \in 1 .. Len(mutations)
         /\ Head(requests) = mutations[n] /\ Head(requests) = pipeline[n]
         /\ mutations[n] \in Mutation
         /\ Sent(Tail(requests), n, pipeline)
         /\ Tail(requests) \in Seq(Mutation)
         /\ \A i \in 1 .. Len(responses) : responses[i].version # NotFound
<1> DEFINE n == Len(responses) + 1
<1>1. open
  BY DEF CoreInv, StreamInv
<1>2. Sent(requests, Len(responses), pipeline)
  BY <1>1 DEF CoreInv, StreamInv
<1>3. /\ Len(requests) \in Nat \ {0} /\ Head(requests) = requests[1]
      /\ Tail(requests) \in Seq(Mutation) /\ Len(Tail(requests)) = Len(requests) - 1
      /\ \A i \in 1 .. Len(requests) - 1 : Tail(requests)[i] = requests[i + 1]
  BY HeadTail DEF CoreInv, WriteTypes
<1>4. Len(responses) \in Nat /\ Len(pipeline) \in Nat
  BY LenZero DEF CoreInv, WriteTypes
<1>5. n \in 1 .. Len(pipeline) /\ requests[1] = pipeline[n]
  BY <1>2, <1>3, <1>4 DEF Sent
<1>6. /\ Len(ActiveQueue) \in Nat /\ Len(pipeline) <= Len(ActiveQueue)
      /\ pipeline[n] = ActiveQueue[n]
  <2>1. Len(ActiveQueue) \in Nat
    BY LenZero, EmptySeq DEF CoreInv, WriteTypes, ActiveQueue
  <2> QED
    BY <1>4, <1>5, <2>1, SyncAssumption DEF CoreInv, StreamInv, IsFilled, Least
<1>7. signedIn /\ ActiveQueue = mutations
  BY <1>4, <1>5, <1>6, EmptySeq DEF ActiveQueue
<1>8. Sent(Tail(requests), n, pipeline)
  <2>1. Len(Tail(requests)) = Len(pipeline) - n
    BY <1>2, <1>3, <1>4 DEF Sent
  <2>2. ASSUME NEW i \in 1 .. Len(Tail(requests)) PROVE Tail(requests)[i] = pipeline[n + i]
    <3>1. i \in 1 .. Len(requests) - 1 /\ i + 1 \in 1 .. Len(requests)
          /\ Len(responses) + (i + 1) = n + i
      BY <1>3, <1>4
    <3>2. requests[i + 1] = pipeline[Len(responses) + (i + 1)]
      BY <1>2, <3>1 DEF Sent
    <3> QED
      BY <1>3, <3>1, <3>2
  <2> QED
    BY <2>1, <2>2 DEF Sent
<1>9. ASSUME NEW i \in 1 .. Len(responses) PROVE responses[i].version # NotFound
  <2>1. CASE i = Len(responses)
    <3>1. responses # <<>>
      BY <1>4, LenZero, EmptySeq
    <3> QED
      BY <2>1, <3>1 DEF Ended, IsPermanentWriteError
  <2>2. CASE i # Len(responses)
    BY <1>4, <2>2 DEF CoreInv, StreamInv
  <2> QED
    BY <2>1, <2>2
<1>10. mutations[n] \in Mutation /\ n \in 1 .. Len(mutations)
  BY <1>4, <1>5, <1>6, <1>7 DEF CoreInv, WriteTypes
<1> QED
  BY <1>1, <1>3, <1>5, <1>6, <1>7, <1>8, <1>9, <1>10

(* An answer of the backend, whatever it says.                             *)
LEMMA CoreInvAnswer ==
  ASSUME CoreInv, requests # <<>>, ~ Ended, NEW version \in Nat,
         responses' = Append(responses, [batch |-> Head(requests).batch, version |-> version]),
         log' \in Seq(Commit),
         UNCHANGED <<written, mutations, pipeline, open, signedIn, historyVars>>,
         \/ version # NotFound /\ requests' = Tail(requests)
         \/ version = NotFound /\ requests' = requests
  PROVE  CoreInv'
<1> DEFINE n == Len(responses) + 1
           a == [batch |-> Head(requests).batch, version |-> version]
<1>1. /\ open /\ signedIn /\ ActiveQueue = mutations
      /\ n \in 1 .. Len(pipeline) /\ n \in 1 .. Len(mutations)
      /\ Head(requests) = mutations[n] /\ Head(requests) = pipeline[n]
      /\ mutations[n] \in Mutation
      /\ Sent(Tail(requests), n, pipeline)
      /\ Tail(requests) \in Seq(Mutation)
      /\ \A i \in 1 .. Len(responses) : responses[i].version # NotFound
  BY HeadOfRequests
<1>2. a \in Response
  BY <1>1, MutationType DEF Response
<1>3. /\ responses' \in Seq(Response) /\ responses' # <<>>
      /\ Len(responses') = n
      /\ \A i \in 1 .. Len(responses) : responses'[i] = responses[i]
      /\ responses'[n] = a
  <2>1. responses' = Append(responses, a)
    OBVIOUS
  <2>2. responses \in Seq(Response)
    BY DEF CoreInv, WriteTypes
  <2> HIDE DEF a
  <2>3. /\ Append(responses, a) \in Seq(Response) /\ Append(responses, a) # <<>>
        /\ Len(Append(responses, a)) = n
        /\ \A i \in 1 .. Len(responses) : Append(responses, a)[i] = responses[i]
        /\ Append(responses, a)[n] = a
    BY <1>2, <2>2, AppendProperties
  <2> QED
    BY <2>1, <2>3
<1>4. Len(responses) \in Nat
  BY LenZero DEF CoreInv, WriteTypes
<1>5. WriteTypes'
  BY <1>1, <1>3 DEF CoreInv, WriteTypes, historyVars
<1>6. QueueInv'
  BY DEF CoreInv, QueueInv
<1>7. Ended' <=> version = NotFound
  BY <1>3 DEF Ended, IsPermanentWriteError
<1>8. StreamInv'
  <2>1. ActiveQueue' = ActiveQueue
    BY DEF ActiveQueue
  <2>2. IsFilled(pipeline, ActiveQueue)' /\ Len(responses') <= Len(pipeline')
    BY <1>1, <1>3, <2>1 DEF CoreInv, StreamInv
  <2>3. \A i \in 1 .. Len(responses') : responses'[i].batch = mutations'[i].batch
    <3>1. TAKE i \in 1 .. Len(responses')
    <3>2. CASE i = n
      BY <1>1, <1>3, <3>2
    <3>3. CASE i # n
      <4>1. i \in 1 .. Len(responses)
        BY <1>3, <1>4, <3>1, <3>3
      <4> QED
        BY <1>3, <4>1 DEF CoreInv, StreamInv
    <3> QED
      BY <3>2, <3>3
  <2>4. \A i \in 1 .. Len(responses') - 1 : responses'[i].version # NotFound
    BY <1>1, <1>3, <1>4
  <2>5. open' /\ ~ Ended' => Sent(requests', Len(responses'), pipeline')
    BY <1>1, <1>3, <1>7
  <2> QED
    BY <1>1, <2>2, <2>3, <2>4, <2>5 DEF StreamInv
<1> QED
  BY <1>5, <1>6, <1>8 DEF CoreInv

(* The log after a commit. *)
CommitOf(m) == [id |-> m.id, entry |-> TextOf(m), batch |-> m.batch]

(* A commit appends to the log and answers with its place in it. *)
LEMMA BackendCommitsFacts ==
  ASSUME CoreInv, BackendCommits
  PROVE  LET m == Head(requests) IN
         /\ CommitOf(m) \in Commit
         /\ log' = Append(log, CommitOf(m))
         /\ log' \in Seq(Commit) /\ Len(log') = Len(log) + 1 /\ Len(log) \in Nat
         /\ \A i \in 1 .. Len(log) : log'[i] = log[i]
         /\ log'[Len(log) + 1] = CommitOf(m)
         /\ responses' = Append(responses, [batch |-> m.batch, version |-> Len(log) + 1])
<1> DEFINE m == Head(requests)
<1>1. m \in Mutation
  BY HeadOfRequests DEF BackendCommits
<1>2. log' = Append(log, CommitOf(m))
  BY DEF BackendCommits, CommitOf
<1>3. CommitOf(m) \in Commit
  BY <1>1, MutationType, TextOfType DEF Commit, CommitOf
<1>4. /\ log' \in Seq(Commit) /\ Len(log') = Len(log) + 1
      /\ \A i \in 1 .. Len(log) : log'[i] = log[i]
      /\ log'[Len(log) + 1] = CommitOf(m)
  BY <1>2, <1>3, AppendProperties DEF CoreInv, WriteTypes
<1>5. Len(log) \in Nat
  BY LenZero DEF CoreInv, WriteTypes
<1>6. responses' = Append(responses, [batch |-> m.batch, version |-> Len(log')])
  BY DEF BackendCommits
<1> QED
  BY <1>2, <1>3, <1>4, <1>5, <1>6

(* The backend commits the first request. *)
LEMMA CoreInvCommits ==
  ASSUME CoreInv, BackendCommits
  PROVE  CoreInv'
<1>1. /\ Len(log) + 1 \in Nat /\ Len(log) + 1 # NotFound /\ log' \in Seq(Commit)
      /\ responses' = Append(responses, [batch |-> Head(requests).batch, version |-> Len(log) + 1])
  BY BackendCommitsFacts DEF NotFound
<1>2. /\ requests # <<>> /\ ~ Ended /\ requests' = Tail(requests)
      /\ UNCHANGED <<written, mutations, pipeline, open, signedIn, historyVars>>
  BY DEF BackendCommits
<1> QED
  BY <1>1, <1>2, CoreInvAnswer

(* The backend refuses the first request. *)
LEMMA CoreInvRefuses ==
  ASSUME CoreInv, BackendRefuses
  PROVE  CoreInv'
<1>1. /\ requests # <<>> /\ ~ Ended
      /\ responses' = Append(responses, [batch |-> Head(requests).batch, version |-> NotFound])
      /\ UNCHANGED <<log, written, mutations, pipeline, open, requests, signedIn, historyVars>>
  BY DEF BackendRefuses, backendVars
<1>2. log' \in Seq(Commit) /\ NotFound \in Nat
  BY <1>1 DEF CoreInv, WriteTypes, NotFound
<1> QED
  BY <1>1, <1>2, CoreInvAnswer

-----------------------------------------------------------------------------
(* The write path: answers, breaks, restarts, other devices. *)

(* The answers without the first. *)
LEMMA AnswersTail ==
  ASSUME CoreInv, responses # <<>>
  PROVE  /\ Head(responses) = responses[1] /\ responses[1] \in Response
         /\ Tail(responses) \in Seq(Response)
         /\ Len(responses) \in Nat \ {0}
         /\ Len(Tail(responses)) = Len(responses) - 1
         /\ \A i \in 1 .. Len(responses) - 1 : Tail(responses)[i] = responses[i + 1]
BY HeadTail DEF CoreInv, WriteTypes

(* An answer the device takes leads to the queue without its front.        *)
LEMMA MutationResultFacts ==
  ASSUME CoreInv, OnWriteStreamMutationResult
  PROVE  LET more == NextBatches(Tail(pipeline), Tail(mutations)) IN
         /\ responses # <<>> /\ responses[1].version # NotFound
         /\ mutations' = Tail(mutations)
         /\ responses' = Tail(responses)
         /\ pipeline' = Tail(pipeline) \o more
         /\ requests' = requests \o more
         /\ signedIn /\ open
         /\ UNCHANGED <<log, written, open, signedIn, refused, answerLost>>
<1>1. responses # <<>> /\ Head(responses).version # NotFound
  BY DEF OnWriteStreamMutationResult, IsPermanentWriteError
<1>2. mutations' = Tail(mutations)
  BY <1>1, FrontTaken DEF OnWriteStreamMutationResult, HandleSuccessfulWrite, AcknowledgeBatch
<1>3. signedIn /\ open
  BY <1>1, FrontFacts
<1> QED
  BY <1>1, <1>2, <1>3, AnswersTail
     DEF OnWriteStreamMutationResult, FillWritePipeline, backendVars, historyVars

(***************************************************************************)
(* An acknowledgement takes the first batch off queue, pipeline and        *)
(* responses at once.                                                      *)
(***************************************************************************)
LEMMA CoreInvMutationResult ==
  ASSUME CoreInv, OnWriteStreamMutationResult
  PROVE  CoreInv'
<1> DEFINE more == NextBatches(Tail(pipeline), Tail(mutations))
<1>1. /\ responses # <<>> /\ responses[1].version # NotFound
      /\ mutations' = Tail(mutations)
      /\ responses' = Tail(responses)
      /\ pipeline' = Tail(pipeline) \o more
      /\ requests' = requests \o more
      /\ signedIn /\ open
      /\ UNCHANGED <<log, written, open, signedIn, refused, answerLost>>
  BY MutationResultFacts
<1>2. /\ mutations' \in Seq(Mutation) /\ Len(mutations') = Len(mutations) - 1
      /\ \A i \in 1 .. Len(mutations) - 1 : mutations'[i] = mutations[i + 1]
      /\ Increasing(mutations')
      /\ \A i \in 1 .. Len(mutations') : mutations'[i].batch <= written
      /\ IsPrefixOf(Tail(pipeline), mutations')
      /\ Len(Tail(pipeline)) = Len(pipeline) - 1
  BY <1>1, FrontTaken
<1>3. /\ Tail(responses) \in Seq(Response)
      /\ Len(responses) \in Nat \ {0}
      /\ Len(Tail(responses)) = Len(responses) - 1
      /\ \A i \in 1 .. Len(responses) - 1 : Tail(responses)[i] = responses[i + 1]
  BY <1>1, AnswersTail
<1>4. more \in Seq(Mutation) /\ IsFilled(Tail(pipeline) \o more, mutations')
  BY <1>1, <1>2, FilledPipeline
<1>5. /\ requests \in Seq(Mutation) /\ pipeline \in Seq(Mutation) /\ Tail(pipeline) \in Seq(Mutation)
      /\ Len(pipeline) \in Nat /\ Len(mutations) \in Nat
  BY <1>2, LenZero DEF CoreInv, WriteTypes, IsPrefixOf
<1> HIDE DEF more
<1>6. WriteTypes'
  <2>1. requests' \in Seq(Mutation) /\ pipeline' \in Seq(Mutation)
    BY <1>1, <1>4, <1>5, ConcatProperties
  <2> QED
    BY <1>1, <1>2, <1>3, <2>1 DEF CoreInv, WriteTypes
<1>7. QueueInv'
  BY <1>1, <1>2 DEF QueueInv
<1>8. StreamInv'
  <2>0. /\ Len(responses) <= Len(pipeline) /\ Len(pipeline) <= Len(mutations)
    BY <1>1, FrontFacts
  <2>1. IsFilled(pipeline, ActiveQueue)'
    BY <1>1, <1>4 DEF ActiveQueue
  <2>2. Len(responses') <= Len(pipeline')
    <3>1. Len(pipeline') = Len(pipeline) - 1 + Len(more) /\ Len(more) \in Nat
      BY <1>1, <1>2, <1>4, <1>5, ConcatProperties, LenZero
    <3> QED
      BY <1>1, <1>3, <1>5, <2>0, <3>1
  <2>3. ASSUME NEW i \in 1 .. Len(responses')
        PROVE  responses'[i].batch = mutations'[i].batch
    <3>1. i \in 1 .. Len(responses) - 1 /\ i \in 1 .. Len(mutations) - 1
          /\ i + 1 \in 1 .. Len(responses)
      BY <1>1, <1>3, <1>5, <2>0
    <3>2. responses[i + 1].batch = mutations[i + 1].batch
      BY <3>1 DEF CoreInv, StreamInv
    <3> QED
      BY <1>1, <1>2, <1>3, <3>1, <3>2
  <2>4. ASSUME NEW i \in 1 .. Len(responses') - 1
        PROVE  responses'[i].version # NotFound
    <3>1. i \in 1 .. Len(responses) - 1 /\ i + 1 \in 1 .. Len(responses) - 1
      BY <1>1, <1>3
    <3>2. responses[i + 1].version # NotFound
      BY <3>1 DEF CoreInv, StreamInv
    <3> QED
      BY <1>1, <1>3, <3>1, <3>2
  <2>5. ASSUME ~ Ended' PROVE Sent(requests', Len(responses'), pipeline')
    <3>1. ~ Ended
      <4>1. CASE Len(responses) = 1
        BY <1>1, <4>1 DEF Ended, IsPermanentWriteError
      <4>2. CASE Len(responses) # 1
        <5>1. Len(responses) - 1 \in 1 .. Len(responses) - 1 /\ Len(responses) - 1 + 1 = Len(responses)
          BY <1>3, <4>2
        <5>2. Tail(responses)[Len(responses) - 1] = responses[Len(responses)]
          BY <1>3, <5>1
        <5>3. responses' # <<>>
          <6> DEFINE n == Len(responses)
          <6>0. Len(responses') = n - 1 /\ n \in Nat \ {0} /\ n # 1
            BY <1>1, <1>3, <4>2
          <6> HIDE DEF n
          <6>1. Len(responses') # 0
            BY <6>0
          <6> QED
            BY <6>1, EmptySeq
        <5> QED
          BY <1>1, <1>3, <2>5, <5>2, <5>3 DEF Ended, IsPermanentWriteError
      <4> QED
        BY <4>1, <4>2
    <3>2. Sent(requests, Len(responses), pipeline)
      BY <1>1, <3>1 DEF CoreInv, StreamInv
    <3>3. Sent(requests, Len(responses) - 1, Tail(pipeline))
      BY <1>3, <1>5, <2>0, <3>2, SentTail
    <3>4. Sent(requests \o more, Len(responses) - 1, Tail(pipeline) \o more)
      <4>1. Len(responses) - 1 \in Nat /\ Len(responses) - 1 <= Len(Tail(pipeline))
        BY <1>2, <1>3, <1>5, <2>0
      <4> DEFINE k == Len(responses) - 1
      <4> HIDE DEF k
      <4>2. k \in Nat /\ k <= Len(Tail(pipeline)) /\ Sent(requests, k, Tail(pipeline))
        BY <3>3, <4>1 DEF k
      <4>3. Sent(requests \o more, k, Tail(pipeline) \o more)
        BY <1>4, <1>5, <4>2, SentMore
      <4> QED
        BY <4>3 DEF k
    <3> QED
      BY <1>1, <1>3, <3>4
  <2> QED
    BY <1>1, <2>1, <2>2, <2>3, <2>4, <2>5 DEF StreamInv
<1> QED
  BY <1>6, <1>7, <1>8 DEF CoreInv

(* A refused write is the only one that is answered.                       *)
LEMMA WriteErrorFacts ==
  ASSUME CoreInv, HandleWriteError
  PROVE  LET more == NextBatches(Tail(pipeline), Tail(mutations)) IN
         /\ responses # <<>> /\ responses[1].version = NotFound /\ Len(responses) = 1
         /\ mutations' = Tail(mutations)
         /\ refused' = refused \cup {mutations[1]}
         /\ pipeline' = Tail(pipeline) \o more
         /\ requests' = <<>> /\ responses' = <<>> /\ ~ open' /\ signedIn
         /\ UNCHANGED <<log, written, cache, signedIn, answerLost>>
<1>1. responses # <<>> /\ Head(responses).version = NotFound
  BY DEF HandleWriteError, IsPermanentWriteError
<1>2. mutations' = Tail(mutations)
  BY <1>1, FrontTaken DEF HandleWriteError, HandleRejectedWrite, RejectBatch
<1>3. signedIn /\ Head(pipeline) = mutations[1]
  BY <1>1, FrontFacts
<1>4. responses[1].version = NotFound
  BY <1>1, AnswersTail
<1>5. Len(responses) = 1
  <2>1. Len(responses) \in Nat \ {0}
    BY <1>1, AnswersTail
  <2>2. 1 \notin 1 .. Len(responses) - 1
    BY <1>4 DEF CoreInv, StreamInv
  <2> DEFINE n == Len(responses)
  <2>3. n \in Nat \ {0} /\ 1 \notin 1 .. n - 1
    BY <2>1, <2>2
  <2> HIDE DEF n
  <2>4. n = 1
    BY <2>3
  <2> QED
    BY <2>4 DEF n
<1> QED
  BY <1>1, <1>2, <1>3, <1>4, <1>5 DEF HandleWriteError, HandleRejectedWrite, RejectBatch, backendVars

(* A closed stream with a filled pipeline.                                 *)
LEMMA CoreInvClosed ==
  ASSUME WriteTypes', QueueInv', IsFilled(pipeline, ActiveQueue)',
         ~ open', requests' = <<>>, responses' = <<>>
  PROVE  CoreInv'
<1>1. Len(responses') = 0 /\ Len(pipeline') \in Nat
  BY LenZero, EmptySeq DEF WriteTypes
<1> QED
  BY <1>1 DEF CoreInv, StreamInv

(***************************************************************************)
(* A refused batch is taken off the queue, and the stream restarts with    *)
(* what is left.                                                           *)
(***************************************************************************)
LEMMA CoreInvWriteError ==
  ASSUME CoreInv, HandleWriteError
  PROVE  CoreInv'
<1> DEFINE more == NextBatches(Tail(pipeline), Tail(mutations))
<1>1. /\ responses # <<>>
      /\ mutations' = Tail(mutations)
      /\ refused' = refused \cup {mutations[1]}
      /\ pipeline' = Tail(pipeline) \o more
      /\ requests' = <<>> /\ responses' = <<>> /\ ~ open' /\ signedIn
      /\ UNCHANGED <<log, written, signedIn, answerLost>>
  BY WriteErrorFacts
<1>2. /\ mutations' \in Seq(Mutation)
      /\ Increasing(mutations')
      /\ \A i \in 1 .. Len(mutations') : mutations'[i].batch <= written
      /\ IsPrefixOf(Tail(pipeline), mutations')
  BY <1>1, FrontTaken
<1>3. mutations[1] \in Mutation
  BY <1>1, FrontFacts
<1>4. IsFilled(Tail(pipeline) \o more, mutations')
  BY <1>1, <1>2, FilledPipeline
<1>5. open' \in BOOLEAN
  BY DEF HandleWriteError
<1>6. WriteTypes'
  <2>1. pipeline' \in Seq(Mutation)
    BY <1>1, <1>4 DEF IsFilled
  <2> QED
    BY <1>1, <1>2, <1>3, <1>5, <2>1, EmptySeq DEF CoreInv, WriteTypes
<1>7. QueueInv'
  BY <1>1, <1>2 DEF QueueInv
<1>8. IsFilled(pipeline, ActiveQueue)'
  BY <1>1, <1>4 DEF ActiveQueue
<1> QED
  BY <1>1, <1>6, <1>7, <1>8, CoreInvClosed

(* A broken stream loses requests and responses, and keeps the pipeline. *)
LEMMA CoreInvClose ==
  ASSUME CoreInv, OnWriteStreamClose
  PROVE  CoreInv'
<1>1. /\ requests' = <<>> /\ responses' = <<>> /\ open' = FALSE
      /\ answerLost' = (answerLost \/ responses # <<>>)
      /\ UNCHANGED <<log, written, mutations, pipeline, signedIn, refused>>
  BY DEF OnWriteStreamClose, LoseStream, backendVars
<1>2. WriteTypes' /\ QueueInv' /\ IsFilled(pipeline, ActiveQueue)'
  BY <1>1, EmptySeq DEF CoreInv, WriteTypes, QueueInv, StreamInv, ActiveQueue
<1> QED
  BY <1>1, <1>2, CoreInvClosed

(* The streams are made anew for the queue of whoever is in.               *)
LEMMA CoreInvRestarted ==
  ASSUME CoreInv, NEW queue, RestartStreams(queue), ActiveQueue' = queue,
         UNCHANGED <<log, written, mutations, refused>>, signedIn' \in BOOLEAN
  PROVE  CoreInv'
<1>1. /\ requests' = <<>> /\ responses' = <<>> /\ open' = FALSE
      /\ answerLost' = (answerLost \/ responses # <<>>)
      /\ pipeline' = NextBatches(<<>>, queue)
  BY DEF RestartStreams, LoseStream
<1>2. queue \in Seq(Mutation) /\ Increasing(queue)
  <2>1. <<>> \in Seq(Mutation) /\ Increasing(<<>>)
    BY EmptySeq DEF Increasing
  <2>2. mutations \in Seq(Mutation) /\ Increasing(mutations)
    BY DEF CoreInv, WriteTypes, QueueInv
  <2>3. queue = mutations \/ queue = <<>>
    BY DEF ActiveQueue
  <2> QED
    BY <2>1, <2>2, <2>3
<1>3. IsPrefixOf(<<>>, queue)
  BY <1>2, EmptySeq, LenZero, SyncAssumption DEF IsPrefixOf
<1>4. IsFilled(<<>> \o NextBatches(<<>>, queue), queue) /\ NextBatches(<<>>, queue) \in Seq(Mutation)
  BY <1>2, <1>3, FilledPipeline
<1>5. <<>> \o NextBatches(<<>>, queue) = NextBatches(<<>>, queue)
  BY <1>4, ConcatEmptySeq
<1>6. WriteTypes' /\ QueueInv'
  BY <1>1, <1>4, EmptySeq DEF CoreInv, WriteTypes, QueueInv
<1>7. IsFilled(pipeline, ActiveQueue)'
  BY <1>1, <1>4, <1>5
<1> QED
  BY <1>1, <1>6, <1>7, CoreInvClosed

(* A restart of the app fills the pipeline from the persisted queue. *)
LEMMA CoreInvRestart ==
  ASSUME CoreInv, Restart
  PROVE  CoreInv'
<1>1. /\ RestartStreams(ActiveQueue) /\ UNCHANGED <<log, written, mutations, refused, signedIn>>
  BY DEF Restart, backendVars
<1> QED
  BY <1>1, CoreInvRestarted DEF ActiveQueue, CoreInv, WriteTypes

(* Sign out empties the pipeline and leaves the queue. *)
LEMMA CoreInvSignOut ==
  ASSUME CoreInv, SignOut
  PROVE  CoreInv'
<1>1. /\ RestartStreams(<<>>) /\ UNCHANGED <<log, written, mutations, refused>> /\ signedIn' = FALSE
  BY DEF SignOut, backendVars
<1> QED
  BY <1>1, CoreInvRestarted DEF ActiveQueue

(* Sign in fills the pipeline from the queue of the user. *)
LEMMA CoreInvSignIn ==
  ASSUME CoreInv, SignIn
  PROVE  CoreInv'
<1>1. /\ RestartStreams(mutations) /\ UNCHANGED <<log, written, mutations, refused>> /\ signedIn' = TRUE
  BY DEF SignIn, backendVars
<1> QED
  BY <1>1, CoreInvRestarted DEF ActiveQueue

(* The commits of other devices can be counted.                            *)
LEMMA ForeignCount ==
  ASSUME log \in Seq(Commit)
  PROVE  Cardinality({i \in DOMAIN log : log[i].batch = 0}) \in Nat
<1>1. DOMAIN log = 1 .. Len(log) /\ Len(log) \in Nat
  OBVIOUS
<1>2. IsFiniteSet(DOMAIN log)
  BY <1>1, FS_Interval
<1>3. IsFiniteSet({i \in DOMAIN log : log[i].batch = 0})
  BY <1>2, FS_Subset
<1> QED
  BY <1>3, FS_CardinalityType

(* What another device writes is appended to the log, without a batch. *)
LEMMA OtherDeviceFacts ==
  ASSUME CoreInv, NEW d \in DocIds, NEW delete \in BOOLEAN, OtherDevice(d, delete)
  PROVE  \E text \in Text :
         LET c == [id |-> d, entry |-> text, batch |-> 0] IN
         /\ c \in Commit
         /\ log' = Append(log, c)
         /\ log' \in Seq(Commit) /\ Len(log') = Len(log) + 1 /\ Len(log) \in Nat
         /\ \A i \in 1 .. Len(log) : log'[i] = log[i]
         /\ log'[Len(log) + 1] = c
<1> DEFINE n == Cardinality({i \in DOMAIN log : log[i].batch = 0})
           text == IF delete THEN NoDocument ELSE -(n + 1)
           c == [id |-> d, entry |-> text, batch |-> 0]
<1>1. n \in Nat
  BY ForeignCount DEF CoreInv, WriteTypes
<1>2. n < MaxForeign /\ log' = Append(log, c)
  BY DEF OtherDevice
<1> HIDE DEF n
<1>3. text \in Text
  BY <1>1, <1>2, SyncAssumption DEF Text, NoDocument
<1> HIDE DEF text
<1>4. c \in Commit
  BY <1>3 DEF Commit
<1>5. log \in Seq(Commit) /\ Len(log) \in Nat
  BY LenZero DEF CoreInv, WriteTypes
<1>6. /\ log' \in Seq(Commit) /\ Len(log') = Len(log) + 1
      /\ \A i \in 1 .. Len(log) : log'[i] = log[i]
      /\ log'[Len(log) + 1] = c
  <2> HIDE DEF c
  <2> QED
    BY <1>2, <1>4, <1>5, AppendProperties
<1> QED
  BY <1>2, <1>3, <1>4, <1>5, <1>6

(* Another device does not touch the write path. *)
LEMMA CoreInvOtherDevice ==
  ASSUME CoreInv, NEW d \in DocIds, NEW delete \in BOOLEAN, OtherDevice(d, delete)
  PROVE  CoreInv'
<1>1. log' \in Seq(Commit)
  BY OtherDeviceFacts
<1>2. UNCHANGED <<written, mutations, streamVars, signedIn, historyVars>>
  BY DEF OtherDevice
<1> QED
  BY <1>1, <1>2 DEF CoreInv, WriteTypes, QueueInv, StreamInv, streamVars, historyVars,
                    ActiveQueue, Ended, IsPermanentWriteError

-----------------------------------------------------------------------------
(* Types, and the pipeline. *)

(* The view of no documents. *)
LEMMA EmptyViewType == EmptyView \in DocumentView
BY SyncAssumption DEF EmptyView, DocumentView, ViewDocument, NoDocument, Text

(* A snapshot leaves a typed view. *)
LEMMA EmitTypes ==
  ASSUME view \in DocumentView, limbo \subseteq DocIds, NEW newCache \in DocumentCache,
         NEW queue \in Seq(Mutation), NEW keys, NEW isCurrent \in BOOLEAN,
         EmitNewSnapshots(newCache, queue, keys, isCurrent)
  PROVE  view' \in DocumentView /\ current' \in BOOLEAN /\ limbo' \subseteq DocIds
<1>1. view' = ComputeDocumentChanges(view, newCache, queue)
  BY DEF EmitNewSnapshots
<1>2. view' \in DocumentView
  BY <1>1, ComputeType
<1> QED
  BY <1>2 DEF EmitNewSnapshots, UpdateLimboDocuments

(* A new view has the types of a view. *)
LEMMA InitializeTypes ==
  ASSUME cache \in DocumentCache, NEW queue \in Seq(Mutation), InitializeView(queue)
  PROVE  view' \in DocumentView /\ current' \in BOOLEAN /\ limbo' \subseteq DocIds
<1>1. view' = ComputeDocumentChanges(EmptyView, cache, queue)
  BY DEF InitializeView
<1>2. view' \in DocumentView
  BY <1>1, EmptyViewType, ComputeType
<1> QED
  BY <1>2 DEF InitializeView

(* The queue of the current user is a sequence of mutations. *)
LEMMA ActiveQueueType ==
  ASSUME CoreInv
  PROVE  ActiveQueue \in Seq(Mutation) /\ <<>> \in Seq(Mutation) /\ mutations \in Seq(Mutation)
BY EmptySeq DEF CoreInv, WriteTypes, ActiveQueue

(* What the watch stream says of a document can be cached. *)
LEMMA WatchUpdateType ==
  ASSUME CoreInv, cache \in DocumentCache, NEW d \in DocIds, NEW v \in 0 .. Len(log)
  PROVE  WatchUpdate(d, v) \in CachedDocument
<1>1. Backend(d, v) \in Text
  BY BackendIsTextIn, TextInType DEF CoreInv, WriteTypes
<1>2. v \in Nat
  BY LenZero DEF CoreInv, WriteTypes
<1>3. cache[d] \in CachedDocument
  BY DEF DocumentCache
<1>4. [entry |-> Backend(d, v), version |-> v, committed |-> FALSE] \in CachedDocument
  BY <1>1, <1>2 DEF CachedDocument
<1> QED
  BY <1>3, <1>4 DEF WatchUpdate

(* The last commit of a document is one of those looked at. *)
LEMMA LastCommitType ==
  ASSUME NEW d \in DocIds, NEW v \in Nat
  PROVE  LastCommit(d, v) \in 0 .. v
BY BackendIsTextIn, LastInFacts

(***************************************************************************)
(* A remote event gives a cache and a view, and leaves the write path      *)
(* alone.                                                                  *)
(***************************************************************************)
LEMMA ApplyRemoteEventTypes ==
  ASSUME CoreInv, ViewTypes, NEW updates, NEW keys, keys \subseteq DocIds,
         \A d \in DOMAIN updates : updates[d] \in 0 .. Len(log),
         ApplyRemoteEvent(updates, keys)
  PROVE  /\ cache' \in DocumentCache /\ remoteKeys' \subseteq DocIds
         /\ view' \in DocumentView /\ current' \in BOOLEAN /\ limbo' \subseteq DocIds
         /\ UNCHANGED writeVars /\ signedIn
<1>1. cache' \in DocumentCache
  <2>1. ASSUME NEW d \in DocIds, d \in DOMAIN updates
        PROVE  WatchUpdate(d, updates[d]) \in CachedDocument
    BY <2>1, WatchUpdateType DEF ViewTypes
  <2>2. cache' = [d \in DocIds |-> IF d \in DOMAIN updates THEN WatchUpdate(d, updates[d])
                                                           ELSE cache[d]]
    BY DEF ApplyRemoteEvent
  <2>3. \A d \in DocIds : cache[d] \in CachedDocument
    BY DEF ViewTypes, DocumentCache
  <2> QED
    BY <2>1, <2>2, <2>3 DEF DocumentCache
<1>2. EmitNewSnapshots(cache', mutations, keys, TRUE) /\ remoteKeys' = keys
  BY DEF ApplyRemoteEvent
<1>3. view' \in DocumentView /\ current' \in BOOLEAN /\ limbo' \subseteq DocIds
  BY <1>1, <1>2, EmitTypes, ActiveQueueType DEF ViewTypes
<1>4. UNCHANGED writeVars
  BY DEF ApplyRemoteEvent, writeVars, backendVars, streamVars, historyVars
<1> QED
  BY <1>1, <1>2, <1>3, <1>4 DEF ApplyRemoteEvent

(* Initially, cache and view are empty. *)
LEMMA ViewTypesInit == Init => ViewTypes
<1> SUFFICES ASSUME Init PROVE ViewTypes
  OBVIOUS
<1>1. cache \in DocumentCache
  BY SyncAssumption DEF Init, DocumentCache, CachedDocument, NoDocument, Text
<1>2. Len(log) = 1
  BY DEF Init
<1>3. /\ watched = 0 /\ remoteKeys = {} /\ view = EmptyView /\ current = FALSE
      /\ limbo = {} /\ faults = 0
  BY DEF Init
<1>4. watched \in 0 .. Len(log)
  BY <1>2, <1>3
<1> QED
  BY <1>1, <1>3, <1>4, EmptyViewType DEF ViewTypes

(* The types after a write of the user. *)
LEMMA ViewTypesWrite ==
  ASSUME CoreInv, ViewTypes, NEW type \in {"set", "patch", "delete"}, NEW d \in DocIds,
         WriteMutations(type, d)
  PROVE  ViewTypes'
<1>1. EmitNewSnapshots(cache, mutations', remoteKeys, current)
      /\ UNCHANGED <<log, cache, remoteKeys, watched, faults>>
  BY DEF WriteMutations
<1>2. mutations' \in Seq(Mutation)
  BY WriteMutationsFacts
<1>3. view' \in DocumentView /\ current' \in BOOLEAN /\ limbo' \subseteq DocIds
  BY <1>1, <1>2, EmitTypes DEF ViewTypes
<1> QED
  BY <1>1, <1>3 DEF ViewTypes

(* An acknowledged batch gives a cache. *)
LEMMA AcknowledgedCache ==
  ASSUME CoreInv, cache \in DocumentCache, NEW m \in Mutation, NEW version \in Nat
  PROVE  ApplyBatchResult(m, version) \in DocumentCache
<1>1. m.id \in DocIds /\ cache[m.id] \in CachedDocument
  BY MutationType DEF DocumentCache
<1>2. ApplyToRemoteDocument(m, cache[m.id], version) \in CachedDocument
  BY TextOfType, SyncAssumption DEF ApplyToRemoteDocument, CachedDocument, NoDocument, Text
<1> QED
  BY <1>1, <1>2 DEF ApplyBatchResult, DocumentCache

(* The types after an acknowledgement. *)
LEMMA ViewTypesMutationResult ==
  ASSUME CoreInv, ViewTypes, OnWriteStreamMutationResult
  PROVE  ViewTypes'
<1>1. /\ responses # <<>>
      /\ cache' = ApplyBatchResult(Head(pipeline), Head(responses).version)
      /\ EmitNewSnapshots(cache', mutations', remoteKeys, current)
      /\ UNCHANGED <<log, remoteKeys, watched, faults>>
  BY DEF OnWriteStreamMutationResult, HandleSuccessfulWrite, AcknowledgeBatch, backendVars
<1>2. Head(pipeline) \in Mutation
  BY <1>1, FrontFacts
<1>3. Head(responses).version \in Nat
  BY <1>1, AnswersTail DEF Response
<1>4. cache' \in DocumentCache
  BY <1>1, <1>2, <1>3, AcknowledgedCache DEF ViewTypes
<1>5. mutations' \in Seq(Mutation)
  BY CoreInvMutationResult DEF CoreInv, WriteTypes
<1>6. view' \in DocumentView /\ current' \in BOOLEAN /\ limbo' \subseteq DocIds
  BY <1>1, <1>4, <1>5, EmitTypes DEF ViewTypes
<1> QED
  BY <1>1, <1>4, <1>6 DEF ViewTypes

(* The types after a refusal. *)
LEMMA ViewTypesWriteError ==
  ASSUME CoreInv, ViewTypes, HandleWriteError
  PROVE  ViewTypes'
<1>1. /\ EmitNewSnapshots(cache, mutations', remoteKeys, current)
      /\ UNCHANGED <<log, cache, remoteKeys, watched, faults>>
  BY DEF HandleWriteError, HandleRejectedWrite, RejectBatch, backendVars
<1>2. mutations' \in Seq(Mutation)
  BY CoreInvWriteError DEF CoreInv, WriteTypes
<1>3. view' \in DocumentView /\ current' \in BOOLEAN /\ limbo' \subseteq DocIds
  BY <1>1, <1>2, EmitTypes DEF ViewTypes
<1> QED
  BY <1>1, <1>3 DEF ViewTypes

(* The faults are counted. *)
LEMMA FaultType ==
  ASSUME faults \in Nat, Fault \/ UNCHANGED faults
  PROVE  faults' \in Nat
BY DEF Fault

(* The types after the write stream broke. *)
LEMMA ViewTypesClose ==
  ASSUME CoreInv, ViewTypes, OnWriteStreamClose
  PROVE  ViewTypes'
<1>1. UNCHANGED <<log, cache, remoteKeys, watched, view, current, limbo>>
  BY DEF OnWriteStreamClose, backendVars, viewVars
<1>2. faults' \in Nat
  BY FaultType DEF OnWriteStreamClose, ViewTypes
<1> QED
  BY <1>1, <1>2 DEF ViewTypes

(* The stream, the backend and other devices leave the device's view alone. *)
LEMMA ViewTypesBackend ==
  ASSUME CoreInv, ViewTypes,
         \/ OnWriteStreamHandshakeComplete \/ BackendCommits \/ BackendRefuses
         \/ \E d \in DocIds, delete \in BOOLEAN : OtherDevice(d, delete)
  PROVE  ViewTypes'
<1>1. UNCHANGED <<cache, remoteKeys, watched, view, current, limbo, faults>>
  BY DEF OnWriteStreamHandshakeComplete, BackendCommits, BackendRefuses, OtherDevice, viewVars
<1>2. Len(log) \in Nat /\ Len(log') \in Nat /\ Len(log) <= Len(log')
  <2>0. Len(log) \in Nat
    BY LenZero DEF CoreInv, WriteTypes
  <2>1. CASE OnWriteStreamHandshakeComplete \/ BackendRefuses
    BY <2>0, <2>1 DEF OnWriteStreamHandshakeComplete, BackendRefuses, backendVars
  <2>2. CASE BackendCommits
    <3>1. Len(log') = Len(log) + 1
      BY <2>2, BackendCommitsFacts
    <3> QED
      BY <2>0, <3>1
  <2>3. ASSUME NEW d \in DocIds, NEW delete \in BOOLEAN, OtherDevice(d, delete)
        PROVE  Len(log') \in Nat /\ Len(log) <= Len(log')
    <3>1. Len(log') = Len(log) + 1
      BY <2>3, OtherDeviceFacts
    <3> QED
      BY <2>0, <3>1
  <2> QED
    BY <2>0, <2>1, <2>2, <2>3
<1> QED
  BY <1>1, <1>2 DEF ViewTypes

(* The types after any snapshot of the watch stream. *)
LEMMA ViewTypesSnapshot ==
  ASSUME CoreInv, ViewTypes, NEW v \in watched .. Len(log), NEW reported, NEW keys,
         reported \subseteq DocIds, keys \subseteq DocIds,
         RaiseWatchSnapshot(v, reported, keys), Fault \/ UNCHANGED faults
  PROVE  ViewTypes'
<1> DEFINE updates == [d \in reported |-> LastCommit(d, v)]
<1>1. Len(log) \in Nat /\ v \in 0 .. Len(log) /\ v \in Nat
  BY LenZero DEF CoreInv, WriteTypes, ViewTypes
<1>2. \A d \in DOMAIN updates : updates[d] \in 0 .. Len(log)
  BY <1>1, LastCommitType
<1>3. watched' = v /\ ApplyRemoteEvent(updates, keys)
  BY DEF RaiseWatchSnapshot
<1> HIDE DEF updates
<1>4. /\ cache' \in DocumentCache /\ remoteKeys' \subseteq DocIds
      /\ view' \in DocumentView /\ current' \in BOOLEAN /\ limbo' \subseteq DocIds
      /\ UNCHANGED writeVars
  BY <1>2, <1>3, ApplyRemoteEventTypes
<1>5. faults' \in Nat
  BY FaultType DEF ViewTypes
<1>6. log' = log
  BY <1>4 DEF writeVars, backendVars
<1> QED
  BY <1>1, <1>3, <1>4, <1>5, <1>6 DEF ViewTypes

(* The types after an incremental snapshot. *)
LEMMA ViewTypesWatchSnapshot ==
  ASSUME CoreInv, ViewTypes, NEW v \in watched .. Len(log), WatchSnapshot(v)
  PROVE  ViewTypes'
<1> DEFINE changed == {d \in DocIds : LastCommit(d, v) > watched}
           keys == (remoteKeys \ changed) \cup (changed \cap Existing(v))
<1>1. RaiseWatchSnapshot(v, changed, keys) /\ UNCHANGED faults
  BY DEF WatchSnapshot
<1>2. changed \subseteq DocIds /\ keys \subseteq DocIds
  BY DEF ViewTypes
<1> HIDE DEF changed, keys
<1> QED
  BY <1>1, <1>2, ViewTypesSnapshot

(* The types after a listing of the whole target. *)
LEMMA ViewTypesWatchListing ==
  ASSUME CoreInv, ViewTypes, NEW v \in watched .. Len(log), WatchListing(v)
  PROVE  ViewTypes'
<1>1. RaiseWatchSnapshot(v, Existing(v), Existing(v)) /\ (Fault \/ UNCHANGED faults)
  BY DEF WatchListing
<1>2. Existing(v) \subseteq DocIds
  BY DEF Existing
<1> QED
  BY <1>1, <1>2, ViewTypesSnapshot

(* The types after a limbo document was resolved. *)
LEMMA ViewTypesResolveLimbo ==
  ASSUME CoreInv, ViewTypes, NEW d \in DocIds, ResolveLimbo(d)
  PROVE  ViewTypes'
<1> DEFINE updates == [k \in {d} |-> IF d \in Existing(watched) THEN LastCommit(d, watched)
                                                                ELSE watched]
<1>1. Len(log) \in Nat /\ watched \in 0 .. Len(log) /\ watched \in Nat
  BY LenZero DEF CoreInv, WriteTypes, ViewTypes
<1>2. \A k \in DOMAIN updates : updates[k] \in 0 .. Len(log)
  BY <1>1, LastCommitType
<1>3. ApplyRemoteEvent(updates, remoteKeys) /\ UNCHANGED <<watched, faults>>
  BY DEF ResolveLimbo
<1> HIDE DEF updates
<1>4. /\ cache' \in DocumentCache /\ remoteKeys' \subseteq DocIds
      /\ view' \in DocumentView /\ current' \in BOOLEAN /\ limbo' \subseteq DocIds
      /\ UNCHANGED writeVars
  BY <1>2, <1>3, ApplyRemoteEventTypes DEF ViewTypes
<1>5. log' = log
  BY <1>4 DEF writeVars, backendVars
<1> QED
  BY <1>3, <1>4, <1>5 DEF ViewTypes

(***************************************************************************)
(* The types after a loss of the network, a restart, a sign out or a sign  *)
(* in.                                                                     *)
(***************************************************************************)
LEMMA ViewTypesOthers ==
  ASSUME CoreInv, ViewTypes, GoOffline \/ Restart \/ SignOut \/ SignIn
  PROVE  ViewTypes'
<1>1. UNCHANGED <<log, cache, remoteKeys, watched>> /\ (Fault \/ UNCHANGED faults)
  BY DEF GoOffline, Restart, SignOut, SignIn, backendVars
<1>2. faults' \in Nat
  BY <1>1, FaultType DEF ViewTypes
<1>3. \/ \E queue \in Seq(Mutation), c \in BOOLEAN : EmitNewSnapshots(cache, queue, remoteKeys, c)
      \/ \E queue \in Seq(Mutation) : InitializeView(queue)
  <2>1. CASE GoOffline
    BY <2>1, ActiveQueueType DEF GoOffline
  <2>2. CASE Restart
    BY <2>2, ActiveQueueType DEF Restart
  <2>3. CASE SignOut
    BY <2>3, ActiveQueueType DEF SignOut, ViewTypes
  <2>4. CASE SignIn
    BY <2>4, ActiveQueueType DEF SignIn, ViewTypes
  <2> QED
    BY <2>1, <2>2, <2>3, <2>4
<1>4. view' \in DocumentView /\ current' \in BOOLEAN /\ limbo' \subseteq DocIds
  BY <1>3, EmitTypes, InitializeTypes DEF ViewTypes
<1> QED
  BY <1>1, <1>2, <1>4 DEF ViewTypes

(* The invariant the other proofs start from. *)
BaseInv == CoreInv /\ ViewTypes

(* Every step keeps it. *)
LEMMA BaseInvStep ==
  ASSUME BaseInv, [Next]_vars
  PROVE  BaseInv'
<1> USE DEF BaseInv
<1>1. ASSUME NEW d \in DocIds, SaveNew(d) \/ SaveEdited(d) \/ DeleteJournal(d)
      PROVE  BaseInv'
  <2>1. \E type \in {"set", "patch", "delete"} : WriteMutations(type, d)
    BY <1>1 DEF SaveNew, SaveEdited, DeleteJournal
  <2> QED
    BY <2>1, CoreInvWrite, ViewTypesWrite
<1>2. CASE WriteStream
  BY <1>2, CoreInvHandshake, CoreInvMutationResult, CoreInvWriteError, ViewTypesBackend,
     ViewTypesMutationResult, ViewTypesWriteError DEF WriteStream
<1>3. CASE BackendHandles
  BY <1>3, CoreInvCommits, CoreInvRefuses, ViewTypesBackend DEF BackendHandles
<1>4. CASE OnWriteStreamClose
  BY <1>4, CoreInvClose, ViewTypesClose
<1>5. ASSUME NEW v \in watched .. Len(log), WatchSnapshot(v) \/ WatchListing(v)
      PROVE  BaseInv'
  <2>1. UNCHANGED writeVars
    BY <1>5 DEF WatchSnapshot, WatchListing, RaiseWatchSnapshot, ApplyRemoteEvent, writeVars,
                backendVars, streamVars, historyVars
  <2> QED
    BY <1>5, <2>1, CoreInvUnchanged, ViewTypesWatchSnapshot, ViewTypesWatchListing
<1>6. ASSUME NEW d \in DocIds, ResolveLimbo(d)
      PROVE  BaseInv'
  <2>1. UNCHANGED writeVars
    BY <1>6 DEF ResolveLimbo, ApplyRemoteEvent, writeVars, backendVars, streamVars, historyVars
  <2> QED
    BY <1>6, <2>1, CoreInvUnchanged, ViewTypesResolveLimbo
<1>7. CASE GoOffline
  <2>1. UNCHANGED writeVars
    BY <1>7 DEF GoOffline, writeVars, backendVars, streamVars, historyVars
  <2> QED
    BY <1>7, <2>1, CoreInvUnchanged, ViewTypesOthers
<1>8. CASE Restart \/ SignOut \/ SignIn
  BY <1>8, CoreInvRestart, CoreInvSignOut, CoreInvSignIn, ViewTypesOthers
<1>9. ASSUME NEW d \in DocIds, NEW delete \in BOOLEAN, OtherDevice(d, delete)
      PROVE  BaseInv'
  BY <1>9, CoreInvOtherDevice, ViewTypesBackend
<1>10. CASE UNCHANGED vars
  <2>1. UNCHANGED writeVars /\ UNCHANGED <<log, cache, remoteKeys, watched, view, current, limbo, faults>>
    BY <1>10 DEF vars, writeVars, backendVars, viewVars, streamVars, historyVars
  <2> QED
    BY <2>1, CoreInvUnchanged DEF ViewTypes
<1> QED
  BY <1>1, <1>2, <1>3, <1>4, <1>5, <1>6, <1>7, <1>8, <1>9, <1>10 DEF Next

(* It holds initially. *)
LEMMA BaseInvInit == Init => BaseInv
BY CoreInvInit, ViewTypesInit DEF BaseInv

(* It holds always. *)
LEMMA BaseInvAlways == Spec => []BaseInv
BY BaseInvInit, BaseInvStep, PTL DEF Spec

(***************************************************************************)
(* Every variable of JournalSync keeps its type: in particular a restart,  *)
(* a sign out or a lost answer never leaves the queue, the pipeline or the *)
(* cache with something that is not a mutation or a document of the        *)
(* collection.                                                             *)
(***************************************************************************)
THEOREM SyncTypes == Spec => []TypeOK
<1>1. BaseInv => TypeOK
  <2> SUFFICES ASSUME BaseInv PROVE TypeOK
    OBVIOUS
  <2>1. watched \in Nat
    BY LenZero DEF BaseInv, CoreInv, WriteTypes, ViewTypes
  <2> QED
    BY <2>1 DEF BaseInv, CoreInv, WriteTypes, ViewTypes, TypeOK, DocumentCache, DocumentView
<1> QED
  BY <1>1, BaseInvAlways, PTL

(***************************************************************************)
(* RemoteStore's write pipeline is always the front of the mutation queue  *)
(* and is filled as far as it can be, and the answers on the stream are    *)
(* those for its first batches, for every number of writes and every bound *)
(* of the pipeline: OnWriteStreamMutationResult takes the first batch off  *)
(* the pipeline without a look at what the answer is for.                  *)
(***************************************************************************)
THEOREM PipelineStaysInStep == Spec => []PipelineInStep
<1>1. BaseInv => PipelineInStep
  <2> SUFFICES ASSUME BaseInv PROVE PipelineInStep
    OBVIOUS
  <2>1. /\ Len(pipeline) \in Nat /\ Len(responses) \in Nat /\ Len(ActiveQueue) \in Nat
        /\ pipeline \in Seq(Mutation) /\ responses \in Seq(Response) /\ requests \in Seq(Mutation)
        /\ DOMAIN pipeline = 1 .. Len(pipeline) /\ DOMAIN responses = 1 .. Len(responses)
    BY LenZero, ActiveQueueType DEF BaseInv, CoreInv, WriteTypes
  <2>2. /\ Len(pipeline) <= MaxPending /\ Len(pipeline) <= Len(ActiveQueue)
        /\ \A i \in DOMAIN pipeline : pipeline[i] = ActiveQueue[i]
    BY <2>1, SyncAssumption DEF BaseInv, CoreInv, StreamInv, IsFilled, Least
  <2>3. Len(responses) <= Len(pipeline)
    BY DEF BaseInv, CoreInv, StreamInv
  <2>4. ASSUME NEW i \in DOMAIN responses PROVE responses[i].batch = pipeline[i].batch
    <3>1. responses # <<>>
      BY <2>1, LenZero
    <3>2. ActiveQueue = mutations
      BY <3>1, FrontFacts DEF BaseInv
    <3>3. i \in DOMAIN pipeline
      BY <2>1, <2>3
    <3> QED
      BY <2>1, <2>2, <3>2, <3>3 DEF BaseInv, CoreInv, StreamInv
  <2>5. ASSUME open, ~ Ended
        PROVE  requests = SubSeq(pipeline, Len(responses) + 1, Len(pipeline))
    <3> DEFINE n == Len(responses)
               p == Len(pipeline)
               s == SubSeq(pipeline, n + 1, p)
    <3>1. Sent(requests, n, pipeline)
      BY <2>5 DEF BaseInv, CoreInv, StreamInv
    <3>2. n \in Nat /\ p \in Nat /\ n <= p /\ \A i \in n + 1 .. p : pipeline[i] \in Mutation
      BY <2>1, <2>3
    <3>3. /\ Len(requests) = p - n /\ \A i \in 1 .. p - n : requests[i] = pipeline[n + i]
      BY <3>1 DEF Sent
    <3> HIDE DEF n, p
    <3>4. /\ s \in Seq(Mutation)
          /\ Len(s) = IF n + 1 <= p THEN p - (n + 1) + 1 ELSE 0
          /\ \A i \in 1 .. p - (n + 1) + 1 : s[i] = pipeline[(n + 1) + i - 1]
      BY <3>2, SubSeqProperties
    <3>5. p - (n + 1) + 1 = p - n /\ \A i \in Int : (n + 1) + i - 1 = n + i
      BY <3>2
    <3>6. Len(s) = p - n /\ \A i \in 1 .. p - n : s[i] = pipeline[n + i]
      BY <3>2, <3>4, <3>5
    <3> HIDE DEF s
    <3>7. requests = s
      BY <2>1, <3>3, <3>4, <3>6, SeqEqual
    <3> QED
      BY <3>7 DEF s, n, p
  <2>6. ~ open => requests = <<>> /\ responses = <<>>
    BY DEF BaseInv, CoreInv, StreamInv
  <2> QED
    BY <2>2, <2>3, <2>4, <2>5, <2>6 DEF PipelineInStep
<1> QED
  BY <1>1, BaseInvAlways, PTL

-----------------------------------------------------------------------------
(* What the log holds. *)

(* What a log says of a document and of a batch. *)
OriginIn(l, d) == \E k \in 1 .. Len(l) : l[k].id = d
(* Batch b is in the log, a deletion of d is, b is on the queue. *)
CommittedIn(l, b) == \E k \in 1 .. Len(l) : l[k].batch = b
DeletedIn(l, d) == \E k \in 1 .. Len(l) : l[k].id = d /\ l[k].entry = NoDocument
QueuedIn(queue, b) == \E i \in 1 .. Len(queue) : queue[i].batch = b

(* The answer v is what the log says of the mutation m. *)
Answered(l, v, m) ==
  IF v = NotFound THEN m.type = "patch" /\ DeletedIn(l, m.id)
                  ELSE v \in 1 .. Len(l) /\ l[v] = CommitOf(m)

(* Every answer on the stream is a right one. *)
AnswerInv == \A i \in 1 .. Len(responses) : Answered(log, responses[i].version, mutations[i])

(***************************************************************************)
(* A document with a mutation on the queue has been committed before, or   *)
(* is created by a mutation further ahead.                                 *)
(***************************************************************************)
HasOrigin ==
  \A i \in 1 .. Len(mutations) :
    \/ OriginIn(log, mutations[i].id)
    \/ \E j \in 1 .. i : mutations[j].id = mutations[i].id /\ mutations[j].type = "set"

(* The mutation that creates a document is the first one for it. *)
SetIsFirst ==
  \A i, j \in 1 .. Len(mutations) :
    i < j /\ mutations[j].type = "set" => mutations[i].id # mutations[j].id

(***************************************************************************)
(* A document on the backend whose creation is still on the queue was put  *)
(* there by that creation.                                                 *)
(***************************************************************************)
SetIsNew ==
  \A i \in 1 .. Len(mutations) :
    mutations[i].type = "set" /\ OriginIn(log, mutations[i].id) =>
      CommittedIn(log, mutations[i].batch)

(* Only what was written is committed. *)
LoggedBatches == \A i \in 1 .. Len(log) : log[i].batch <= written

(***************************************************************************)
(* Every batch is on the queue, on the backend, or was refused because its *)
(* document had been deleted there.                                        *)
(***************************************************************************)
Accounted ==
  \A b \in 1 .. written :
    \/ QueuedIn(mutations, b)
    \/ CommittedIn(log, b)
    \/ \E m \in refused : m.batch = b /\ DeletedIn(log, m.id)

(***************************************************************************)
(* While no answer was lost, a batch that is both on the queue and on the  *)
(* backend has its answer on the stream.                                   *)
(***************************************************************************)
Unanswered ==
  ~ answerLost =>
    \A i \in 1 .. Len(mutations) :
      CommittedIn(log, mutations[i].batch) =>
        i <= Len(responses) /\ responses[i].version # NotFound

(* No batch is in the log twice. *)
OnceIn(l) ==
  \A i, j \in 1 .. Len(l) : l[i].batch = l[j].batch /\ l[i].batch > 0 => i = j

(* Nothing follows a deletion but deletions. *)
StaysDeletedIn(l) ==
  \A i, j \in 1 .. Len(l) :
    i < j /\ l[i].id = l[j].id /\ l[i].entry = NoDocument => l[j].entry = NoDocument

(* The two, while no answer was lost. *)
Once == ~ answerLost => OnceIn(log)
StaysDeleted == ~ answerLost => StaysDeletedIn(log)

(* The inductive invariant of what the log holds. *)
HistoryInv ==
  /\ AnswerInv /\ HasOrigin /\ SetIsFirst /\ SetIsNew
  /\ LoggedBatches /\ Accounted /\ Unanswered /\ Once /\ StaysDeleted

(* A log after one more commit. *)
LEMMA AppendFacts ==
  ASSUME NEW l \in Seq(Commit), NEW c \in Commit, NEW k, k = Append(l, c)
  PROVE  /\ \A d : OriginIn(k, d) <=> OriginIn(l, d) \/ c.id = d
         /\ \A b : CommittedIn(k, b) <=> CommittedIn(l, b) \/ c.batch = b
         /\ \A d : DeletedIn(l, d) => DeletedIn(k, d)
         /\ \A v, m : Answered(l, v, m) => Answered(k, v, m)
<1>1. /\ Len(l) \in Nat /\ Len(k) = Len(l) + 1
      /\ \A i \in 1 .. Len(l) : k[i] = l[i]
      /\ k[Len(l) + 1] = c
  BY LenZero, AppendProperties
<1>2. \A i \in 1 .. Len(k) : i \in 1 .. Len(l) \/ i = Len(l) + 1
  BY <1>1
<1>3. \A i \in 1 .. Len(l) : i \in 1 .. Len(k)
  BY <1>1
<1>4. Len(l) + 1 \in 1 .. Len(k)
  BY <1>1
<1>5. ASSUME NEW d PROVE OriginIn(k, d) <=> OriginIn(l, d) \/ c.id = d
  <2>1. ASSUME OriginIn(k, d) PROVE OriginIn(l, d) \/ c.id = d
    <3>1. PICK i \in 1 .. Len(k) : k[i].id = d
      BY <2>1 DEF OriginIn
    <3> QED
      BY <1>1, <1>2, <3>1 DEF OriginIn
  <2>2. ASSUME OriginIn(l, d) PROVE OriginIn(k, d)
    BY <1>1, <1>3, <2>2 DEF OriginIn
  <2>3. ASSUME c.id = d PROVE OriginIn(k, d)
    BY <1>1, <1>4, <2>3 DEF OriginIn
  <2> QED
    BY <2>1, <2>2, <2>3
<1>6. ASSUME NEW b PROVE CommittedIn(k, b) <=> CommittedIn(l, b) \/ c.batch = b
  <2>1. ASSUME CommittedIn(k, b) PROVE CommittedIn(l, b) \/ c.batch = b
    <3>1. PICK i \in 1 .. Len(k) : k[i].batch = b
      BY <2>1 DEF CommittedIn
    <3> QED
      BY <1>1, <1>2, <3>1 DEF CommittedIn
  <2>2. ASSUME CommittedIn(l, b) PROVE CommittedIn(k, b)
    BY <1>1, <1>3, <2>2 DEF CommittedIn
  <2>3. ASSUME c.batch = b PROVE CommittedIn(k, b)
    BY <1>1, <1>4, <2>3 DEF CommittedIn
  <2> QED
    BY <2>1, <2>2, <2>3
<1>7. ASSUME NEW d, DeletedIn(l, d) PROVE DeletedIn(k, d)
  BY <1>1, <1>3, <1>7 DEF DeletedIn
<1>8. ASSUME NEW v, NEW m, Answered(l, v, m) PROVE Answered(k, v, m)
  <2>1. CASE v = NotFound
    BY <1>7, <1>8, <2>1 DEF Answered
  <2>2. CASE v # NotFound
    BY <1>1, <1>3, <1>8, <2>2 DEF Answered
  <2> QED
    BY <2>1, <2>2
<1> QED
  BY <1>5, <1>6, <1>7, <1>8

(* A document that the backend has was committed, and if deletions are     *)
(* final it was never deleted.                                             *)
LEMMA ExistingText ==
  ASSUME NEW l \in Seq(Commit), NEW d, TextIn(l, d, Len(l)) # NoDocument
  PROVE  /\ OriginIn(l, d)
         /\ StaysDeletedIn(l) => ~ DeletedIn(l, d)
<1> DEFINE n == LastIn(l, d, Len(l))
<1>0. Len(l) \in Nat
  BY LenZero
<1>1. n # 0 /\ l[n].entry # NoDocument
  BY DEF TextIn
<1>2. /\ n \in 1 .. Len(l) /\ l[n].id = d
      /\ \A i \in 1 .. Len(l) : l[i].id = d => i <= n
  BY <1>0, <1>1, LastInFacts
<1> HIDE DEF n
<1>3. OriginIn(l, d)
  BY <1>2 DEF OriginIn
<1>4. ASSUME StaysDeletedIn(l), DeletedIn(l, d) PROVE FALSE
  <2>1. PICK i \in 1 .. Len(l) : l[i].id = d /\ l[i].entry = NoDocument
    BY <1>4 DEF DeletedIn
  <2>2. i < n
    BY <1>0, <1>1, <1>2, <2>1
  <2> QED
    BY <1>1, <1>2, <1>4, <2>1, <2>2 DEF StaysDeletedIn
<1> QED
  BY <1>3, <1>4

(* A document that the backend once had and has no longer was deleted.     *)
LEMMA MissingText ==
  ASSUME NEW l \in Seq(Commit), NEW d, TextIn(l, d, Len(l)) = NoDocument, OriginIn(l, d)
  PROVE  DeletedIn(l, d)
<1> DEFINE n == LastIn(l, d, Len(l))
<1>0. Len(l) \in Nat
  BY LenZero
<1>1. /\ n \in 0 .. Len(l) /\ (n # 0 => l[n].id = d)
      /\ \A i \in 1 .. Len(l) : l[i].id = d => i <= n
  BY <1>0, LastInFacts
<1>2. n # 0
  BY <1>0, <1>1 DEF OriginIn
<1>3. l[n].entry = NoDocument
  BY <1>2 DEF TextIn
<1> HIDE DEF n
<1> QED
  BY <1>0, <1>1, <1>2, <1>3 DEF DeletedIn

(* A commit that does not revive its document. *)
LEMMA StaysDeletedAppend ==
  ASSUME NEW l \in Seq(Commit), NEW c \in Commit, NEW k, k = Append(l, c), StaysDeletedIn(l),
         DeletedIn(l, c.id) => c.entry = NoDocument
  PROVE  StaysDeletedIn(k)
<1>1. /\ Len(l) \in Nat /\ Len(k) = Len(l) + 1
      /\ \A i \in 1 .. Len(l) : k[i] = l[i]
      /\ k[Len(l) + 1] = c
  BY LenZero, AppendProperties
<1>2. ASSUME NEW i \in 1 .. Len(k), NEW j \in 1 .. Len(k),
             i < j, k[i].id = k[j].id, k[i].entry = NoDocument
      PROVE  k[j].entry = NoDocument
  <2>1. i \in 1 .. Len(l) /\ k[i] = l[i]
    BY <1>1, <1>2
  <2>2. CASE j = Len(l) + 1
    BY <1>1, <1>2, <2>1, <2>2 DEF DeletedIn
  <2>3. CASE j # Len(l) + 1
    <3>1. j \in 1 .. Len(l) /\ k[j] = l[j]
      BY <1>1, <2>3
    <3> QED
      BY <1>2, <2>1, <3>1 DEF StaysDeletedIn
  <2> QED
    BY <2>2, <2>3
<1> QED
  BY <1>2 DEF StaysDeletedIn

(* A commit of a batch that is not in the log. *)
LEMMA OnceAppend ==
  ASSUME NEW l \in Seq(Commit), NEW c \in Commit, NEW k, k = Append(l, c), OnceIn(l),
         c.batch > 0 => ~ CommittedIn(l, c.batch)
  PROVE  OnceIn(k)
<1>1. /\ Len(l) \in Nat /\ Len(k) = Len(l) + 1
      /\ \A i \in 1 .. Len(l) : k[i] = l[i]
      /\ k[Len(l) + 1] = c
  BY LenZero, AppendProperties
<1>2. ASSUME NEW i \in 1 .. Len(k), NEW j \in 1 .. Len(k),
             k[i].batch = k[j].batch, k[i].batch > 0
      PROVE  i = j
  <2>1. CASE i \in 1 .. Len(l) /\ j \in 1 .. Len(l)
    BY <1>1, <1>2, <2>1 DEF OnceIn
  <2>2. CASE i \in 1 .. Len(l) /\ j = Len(l) + 1
    BY <1>1, <1>2, <2>2 DEF CommittedIn
  <2>3. CASE i = Len(l) + 1 /\ j \in 1 .. Len(l)
    BY <1>1, <1>2, <2>3 DEF CommittedIn
  <2>4. i \in 1 .. Len(l) \/ i = Len(l) + 1
    BY <1>1
  <2>5. j \in 1 .. Len(l) \/ j = Len(l) + 1
    BY <1>1
  <2> QED
    BY <2>1, <2>2, <2>3, <2>4, <2>5
<1> QED
  BY <1>2 DEF OnceIn

-----------------------------------------------------------------------------
(* The log: no commit. *)

(* Initially, nothing was written. *)
LEMMA HistoryInit == Init => HistoryInv
<1> SUFFICES ASSUME Init PROVE HistoryInv
  OBVIOUS
<1>1. /\ mutations = <<>> /\ responses = <<>> /\ written = 0
      /\ Len(mutations) = 0 /\ Len(responses) = 0
  BY EmptySeq DEF Init
<1>2. Len(log) = 1 /\ log[1].batch = 0
  BY DEF Init
<1>3. AnswerInv /\ HasOrigin /\ SetIsFirst /\ SetIsNew /\ Accounted /\ Unanswered
  BY <1>1 DEF AnswerInv, HasOrigin, SetIsFirst, SetIsNew, Accounted, Unanswered
<1>4. LoggedBatches /\ Once /\ StaysDeleted
  BY <1>1, <1>2 DEF LoggedBatches, Once, OnceIn, StaysDeleted, StaysDeletedIn
<1> QED
  BY <1>3, <1>4 DEF HistoryInv

(* A step that leaves log, queue, answers and histories alone. *)
LEMMA HistoryUnchanged ==
  ASSUME HistoryInv,
         UNCHANGED <<log, written, mutations, responses, refused, answerLost>>
  PROVE  HistoryInv'
BY DEF HistoryInv, AnswerInv, HasOrigin, SetIsFirst, SetIsNew, LoggedBatches, Accounted,
       Unanswered, Once, StaysDeleted

(* The stream is lost, with the answers that were on it.                   *)
LEMMA HistoryLost ==
  ASSUME HistoryInv, CoreInv,
         UNCHANGED <<log, written, mutations, refused>>,
         responses' = <<>>, answerLost' = (answerLost \/ responses # <<>>)
  PROVE  HistoryInv'
<1>1. Len(responses') = 0
  BY EmptySeq
<1>2. AnswerInv'
  BY <1>1 DEF AnswerInv
<1>3. HasOrigin' /\ SetIsFirst' /\ SetIsNew' /\ LoggedBatches' /\ Accounted'
  BY DEF HistoryInv, HasOrigin, SetIsFirst, SetIsNew, LoggedBatches, Accounted
<1>4. ASSUME ~ answerLost'
      PROVE  /\ ~ answerLost
             /\ \A i \in 1 .. Len(mutations) : ~ CommittedIn(log, mutations[i].batch)
  <2>1. ~ answerLost /\ responses = <<>>
    BY <1>4
  <2>2. Len(responses) = 0
    BY <2>1, EmptySeq
  <2> QED
    BY <2>1, <2>2 DEF HistoryInv, Unanswered
<1>5. Unanswered'
  BY <1>4 DEF Unanswered
<1>6. Once' /\ StaysDeleted'
  BY <1>4 DEF HistoryInv, Once, StaysDeleted
<1> QED
  BY <1>2, <1>3, <1>5, <1>6 DEF HistoryInv

(* A write of the user: of a new journal, or of one whose origin is known. *)
LEMMA HistoryWrite ==
  ASSUME CoreInv, HistoryInv, NEW type \in {"set", "patch", "delete"}, NEW d \in DocIds,
         WriteMutations(type, d),
         type = "set" => /\ ~ OriginIn(log, d)
                         /\ \A i \in 1 .. Len(mutations) : mutations[i].id # d,
         type # "set" => OriginIn(log, d) \/ \E i \in 1 .. Len(mutations) : mutations[i].id = d
  PROVE  HistoryInv'
<1> DEFINE m == NewMutation(type, d)
           n == Len(mutations) + 1
<1>1. /\ m \in Mutation
      /\ mutations' \in Seq(Mutation)
      /\ Len(mutations') = n
      /\ \A i \in 1 .. Len(mutations) : mutations'[i] = mutations[i]
      /\ mutations'[n] = m
  BY WriteMutationsFacts
<1>2. m.batch = written + 1 /\ m.id = d /\ m.type = type
  BY DEF NewMutation
<1>3. written' = written + 1 /\ UNCHANGED <<log, responses, refused, answerLost>>
  BY DEF WriteMutations, WriteLocally, historyVars
<1>4. Len(mutations) \in Nat /\ Len(responses) \in Nat /\ written \in Nat
  BY LenZero DEF CoreInv, WriteTypes
<1>5. \A i \in 1 .. n : i \in 1 .. Len(mutations) \/ i = n
  BY <1>4
<1>6. Len(responses) <= Len(mutations)
  <2>1. CASE responses = <<>>
    BY <1>4, <2>1, EmptySeq
  <2>2. CASE responses # <<>>
    <3>1. Len(responses) <= Len(pipeline) /\ Len(pipeline) <= Len(mutations) /\ Len(pipeline) \in Nat
      BY <2>2, FrontFacts, LenZero DEF CoreInv, WriteTypes
    <3> QED
      BY <1>4, <3>1
  <2> QED
    BY <2>1, <2>2
<1> HIDE DEF m
<1>7. AnswerInv'
  <2>1. ASSUME NEW i \in 1 .. Len(responses)
        PROVE  Answered(log', responses'[i].version, mutations'[i])
    <3>1. i \in 1 .. Len(mutations)
      BY <1>4, <1>6
    <3> QED
      BY <1>1, <1>3, <3>1 DEF HistoryInv, AnswerInv
  <2> QED
    BY <1>3, <2>1 DEF AnswerInv
<1>8. HasOrigin'
  <2>1. ASSUME NEW i \in 1 .. Len(mutations)
        PROVE  \/ OriginIn(log, mutations[i].id)
               \/ \E j \in 1 .. i : mutations'[j].id = mutations[i].id /\ mutations'[j].type = "set"
    <3>1. \/ OriginIn(log, mutations[i].id)
          \/ \E j \in 1 .. i : mutations[j].id = mutations[i].id /\ mutations[j].type = "set"
      BY DEF HistoryInv, HasOrigin
    <3>2. \A j \in 1 .. i : j \in 1 .. Len(mutations)
      BY <1>4
    <3> QED
      BY <1>1, <3>1, <3>2
  <2>2. \/ OriginIn(log, d)
        \/ \E j \in 1 .. n : mutations'[j].id = d /\ mutations'[j].type = "set"
    <3>1. CASE type = "set"
      <4>1. n \in 1 .. n
        BY <1>4
      <4> QED
        BY <1>1, <1>2, <3>1, <4>1
    <3>2. ASSUME NEW i \in 1 .. Len(mutations), mutations[i].id = d
          PROVE  \/ OriginIn(log, d)
                 \/ \E j \in 1 .. n : mutations'[j].id = d /\ mutations'[j].type = "set"
      <4>1. \A j \in 1 .. i : j \in 1 .. n
        BY <1>4
      <4> QED
        BY <2>1, <3>2, <4>1
    <3> QED
      BY <3>1, <3>2
  <2>3. ASSUME NEW i \in 1 .. n
        PROVE  \/ OriginIn(log, mutations'[i].id)
               \/ \E j \in 1 .. i : mutations'[j].id = mutations'[i].id /\ mutations'[j].type = "set"
    BY <1>1, <1>2, <1>5, <2>1, <2>2
  <2> QED
    BY <1>1, <1>3, <2>3 DEF HasOrigin
<1>9. SetIsFirst'
  <2>1. ASSUME NEW i \in 1 .. n, NEW j \in 1 .. n, i < j, mutations'[j].type = "set"
        PROVE  mutations'[i].id # mutations'[j].id
    <3>1. i \in 1 .. Len(mutations)
      BY <1>4, <2>1
    <3>2. CASE j = n
      BY <1>1, <1>2, <2>1, <3>1, <3>2
    <3>3. CASE j \in 1 .. Len(mutations)
      BY <1>1, <2>1, <3>1, <3>3 DEF HistoryInv, SetIsFirst
    <3> QED
      BY <1>5, <3>2, <3>3
  <2> QED
    BY <1>1, <2>1 DEF SetIsFirst
<1>10. SetIsNew'
  <2>1. ASSUME NEW i \in 1 .. n, mutations'[i].type = "set", OriginIn(log, mutations'[i].id)
        PROVE  CommittedIn(log, mutations'[i].batch)
    BY <1>1, <1>2, <1>5, <2>1 DEF HistoryInv, SetIsNew
  <2> QED
    BY <1>1, <1>3, <2>1 DEF SetIsNew
<1>11. LoggedBatches'
  <2>1. ASSUME NEW i \in 1 .. Len(log) PROVE log[i].batch <= written + 1
    <3>1. log[i] \in Commit
      BY DEF CoreInv, WriteTypes
    <3>2. log[i].batch \in Nat /\ log[i].batch <= written
      BY <3>1 DEF Commit, HistoryInv, LoggedBatches
    <3> QED
      BY <1>4, <3>2
  <2> QED
    BY <1>3, <2>1 DEF LoggedBatches
<1>12. Accounted'
  <2>1. ASSUME NEW b \in 1 .. written + 1
        PROVE  \/ QueuedIn(mutations', b)
               \/ CommittedIn(log, b)
               \/ \E r \in refused : r.batch = b /\ DeletedIn(log, r.id)
    <3>0. n \in 1 .. n /\ \A i \in 1 .. Len(mutations) : i \in 1 .. n
      BY <1>4
    <3>1. CASE b = written + 1
      BY <1>1, <1>2, <3>0, <3>1 DEF QueuedIn
    <3>2. CASE b # written + 1
      <4>1. b \in 1 .. written
        BY <1>4, <3>2
      <4>2. QueuedIn(mutations, b) => QueuedIn(mutations', b)
        BY <1>1, <3>0 DEF QueuedIn
      <4> QED
        BY <4>1, <4>2 DEF HistoryInv, Accounted
    <3> QED
      BY <3>1, <3>2
  <2> QED
    BY <1>3, <2>1 DEF Accounted
<1>13. Unanswered'
  <2>1. ASSUME ~ answerLost, NEW i \in 1 .. n, CommittedIn(log, mutations'[i].batch)
        PROVE  i <= Len(responses) /\ responses[i].version # NotFound
    <3>1. CASE i = n
      <4>1. PICK k \in 1 .. Len(log) : log[k].batch = written + 1
        BY <1>1, <1>2, <2>1, <3>1 DEF CommittedIn
      <4>2. log[k].batch <= written
        BY DEF HistoryInv, LoggedBatches
      <4> QED
        BY <1>4, <4>1, <4>2
    <3>2. CASE i \in 1 .. Len(mutations)
      BY <1>1, <2>1, <3>2 DEF HistoryInv, Unanswered
    <3> QED
      BY <1>5, <3>1, <3>2
  <2> QED
    BY <1>1, <1>3, <2>1 DEF Unanswered
<1>14. Once' /\ StaysDeleted'
  BY <1>3 DEF HistoryInv, Once, StaysDeleted
<1> QED
  BY <1>7, <1>8, <1>9, <1>10, <1>11, <1>12, <1>13, <1>14 DEF HistoryInv

(* The front leaves the queue, committed or refused.                       *)
LEMMA HistoryFrontTaken ==
  ASSUME CoreInv, HistoryInv, responses # <<>>, mutations' = Tail(mutations),
         UNCHANGED <<log, written, answerLost>>,
         \/ /\ responses' = Tail(responses) /\ refused' = refused
            /\ responses[1].version # NotFound
         \/ /\ responses' = <<>> /\ refused' = refused \cup {mutations[1]}
            /\ responses[1].version = NotFound /\ Len(responses) = 1
  PROVE  HistoryInv'
<1> DEFINE m == mutations[1]
<1>1. /\ Len(mutations') = Len(mutations) - 1
      /\ \A i \in 1 .. Len(mutations) - 1 : mutations'[i] = mutations[i + 1]
  BY FrontTaken
<1>2. /\ Len(responses) \in Nat \ {0} /\ Len(mutations) \in Nat \ {0}
      /\ Len(responses) <= Len(mutations) /\ m \in Mutation
  <2>1. /\ Len(responses) \in Nat \ {0} /\ Len(responses) <= Len(pipeline)
        /\ Len(pipeline) <= Len(mutations) /\ mutations # <<>> /\ m \in Mutation
    BY FrontFacts
  <2>2. Len(mutations) \in Nat /\ Len(pipeline) \in Nat
    BY LenZero DEF CoreInv, WriteTypes
  <2> QED
    BY <2>1, <2>2
<1>3. /\ Len(responses') = Len(responses) - 1
      /\ \A i \in 1 .. Len(responses) - 1 : responses'[i] = responses[i + 1]
  <2>1. CASE responses' = Tail(responses)
    BY <2>1, AnswersTail
  <2>2. CASE responses' = <<>> /\ Len(responses) = 1
    BY <2>2, EmptySeq
  <2> QED
    BY <2>1, <2>2
<1>4. Answered(log, responses[1].version, m)
  BY <1>2 DEF HistoryInv, AnswerInv
<1>5. \/ responses[1].version # NotFound /\ OriginIn(log, m.id) /\ CommittedIn(log, m.batch)
      \/ m.type = "patch" /\ DeletedIn(log, m.id) /\ m \in refused'
  <2>1. CASE responses[1].version # NotFound
    <3>1. /\ responses[1].version \in 1 .. Len(log)
          /\ log[responses[1].version] = CommitOf(m)
      BY <1>4, <2>1 DEF Answered
    <3>2. log[responses[1].version].id = m.id /\ log[responses[1].version].batch = m.batch
      BY <3>1 DEF CommitOf
    <3> QED
      BY <2>1, <3>1, <3>2 DEF OriginIn, CommittedIn
  <2>2. CASE responses[1].version = NotFound
    BY <1>4, <2>2 DEF Answered
  <2> QED
    BY <2>1, <2>2
<1>6. \A i \in 1 .. Len(mutations') : /\ i \in 1 .. Len(mutations) - 1
                                      /\ i + 1 \in 1 .. Len(mutations)
                                      /\ mutations'[i] = mutations[i + 1]
  BY <1>1, <1>2
<1> HIDE DEF m
<1>7. AnswerInv'
  <2>1. ASSUME NEW i \in 1 .. Len(responses')
        PROVE  Answered(log, responses'[i].version, mutations'[i])
    <3>1. i + 1 \in 1 .. Len(responses) /\ i \in 1 .. Len(responses) - 1 /\ i \in 1 .. Len(mutations')
      BY <1>1, <1>2, <1>3
    <3> QED
      BY <1>3, <1>6, <3>1 DEF HistoryInv, AnswerInv
  <2> QED
    BY <2>1 DEF AnswerInv
<1>8. HasOrigin'
  <2>1. ASSUME NEW i \in 1 .. Len(mutations'), ~ OriginIn(log, mutations'[i].id)
        PROVE  \E j \in 1 .. i : mutations'[j].id = mutations'[i].id /\ mutations'[j].type = "set"
    <3>1. i + 1 \in 1 .. Len(mutations) /\ mutations'[i] = mutations[i + 1]
      BY <1>6
    <3>2. PICK j \in 1 .. i + 1 :
            mutations[j].id = mutations[i + 1].id /\ mutations[j].type = "set"
      BY <2>1, <3>1 DEF HistoryInv, HasOrigin
    <3>3. j # 1
      BY <1>5, <2>1, <3>1, <3>2 DEF m
    <3>4. j - 1 \in 1 .. i /\ j - 1 \in 1 .. Len(mutations') /\ (j - 1) + 1 = j
      BY <1>1, <1>2, <3>2, <3>3
    <3>5. mutations'[j - 1] = mutations[j]
      BY <1>6, <3>4
    <3> QED
      BY <3>1, <3>2, <3>4, <3>5
  <2> QED
    BY <2>1 DEF HasOrigin
<1>9. SetIsFirst'
  <2>1. ASSUME NEW i \in 1 .. Len(mutations'), NEW j \in 1 .. Len(mutations'),
               i < j, mutations'[j].type = "set"
        PROVE  mutations'[i].id # mutations'[j].id
    <3>1. i + 1 < j + 1
      BY <2>1
    <3> QED
      BY <1>6, <2>1, <3>1 DEF HistoryInv, SetIsFirst
  <2> QED
    BY <2>1 DEF SetIsFirst
<1>10. SetIsNew'
  BY <1>6 DEF HistoryInv, SetIsNew
<1>11. LoggedBatches'
  BY DEF HistoryInv, LoggedBatches
<1>12. Accounted'
  <2>1. ASSUME NEW b \in 1 .. written
        PROVE  \/ QueuedIn(mutations', b)
               \/ CommittedIn(log, b)
               \/ \E r \in refused' : r.batch = b /\ DeletedIn(log, r.id)
    <3>1. CASE QueuedIn(mutations, b)
      <4>1. PICK i \in 1 .. Len(mutations) : mutations[i].batch = b
        BY <3>1 DEF QueuedIn
      <4>2. CASE i = 1
        BY <1>5, <4>1, <4>2 DEF m
      <4>3. CASE i # 1
        <5>1. i - 1 \in 1 .. Len(mutations') /\ (i - 1) + 1 = i
          BY <1>1, <1>2, <4>1, <4>3
        <5>2. mutations'[i - 1] = mutations[i]
          BY <1>6, <5>1
        <5> QED
          BY <4>1, <5>1, <5>2 DEF QueuedIn
      <4> QED
        BY <4>2, <4>3
    <3>2. refused \subseteq refused'
      OBVIOUS
    <3> QED
      BY <3>1, <3>2 DEF HistoryInv, Accounted
  <2> QED
    BY <2>1 DEF Accounted
<1>13. Unanswered'
  <2>1. ASSUME ~ answerLost, NEW i \in 1 .. Len(mutations'), CommittedIn(log, mutations'[i].batch)
        PROVE  i <= Len(responses') /\ responses'[i].version # NotFound
    <3>1. i + 1 \in 1 .. Len(mutations) /\ mutations'[i] = mutations[i + 1]
      BY <1>6
    <3>2. i + 1 <= Len(responses) /\ responses[i + 1].version # NotFound
      BY <2>1, <3>1 DEF HistoryInv, Unanswered
    <3>3. i \in 1 .. Len(responses) - 1 /\ i <= Len(responses) - 1
      BY <1>2, <3>2
    <3> QED
      BY <1>3, <3>2, <3>3
  <2> QED
    BY <2>1 DEF Unanswered
<1>14. Once' /\ StaysDeleted'
  BY DEF HistoryInv, Once, StaysDeleted
<1> QED
  BY <1>7, <1>8, <1>9, <1>10, <1>11, <1>12, <1>13, <1>14 DEF HistoryInv

-----------------------------------------------------------------------------
(* The log: commits. *)

(* A commit, of this device or of another, leaves the earlier facts.       *)
LEMMA HistoryCommit ==
  ASSUME CoreInv, HistoryInv, NEW c \in Commit, log' = Append(log, c), c.batch <= written,
         UNCHANGED <<written, mutations, refused, answerLost>>
  PROVE  HasOrigin' /\ SetIsFirst' /\ LoggedBatches' /\ Accounted'
<1>1. /\ \A d : OriginIn(log, d) => OriginIn(log', d)
      /\ \A b : CommittedIn(log, b) => CommittedIn(log', b)
      /\ \A d : DeletedIn(log, d) => DeletedIn(log', d)
  BY AppendFacts DEF CoreInv, WriteTypes
<1>2. HasOrigin' /\ SetIsFirst'
  BY <1>1 DEF HistoryInv, HasOrigin, SetIsFirst
<1>3. Accounted'
  BY <1>1 DEF HistoryInv, Accounted
<1>4. LoggedBatches'
  <2>1. /\ Len(log) \in Nat /\ Len(log') = Len(log) + 1
        /\ \A i \in 1 .. Len(log) : log'[i] = log[i]
        /\ log'[Len(log) + 1] = c
    BY LenZero, AppendProperties DEF CoreInv, WriteTypes
  <2>2. ASSUME NEW i \in 1 .. Len(log') PROVE log'[i].batch <= written
    <3>1. CASE i = Len(log) + 1
      BY <2>1, <3>1
    <3>2. CASE i # Len(log) + 1
      <4>1. i \in 1 .. Len(log)
        BY <2>1, <3>2
      <4> QED
        BY <2>1, <4>1 DEF HistoryInv, LoggedBatches
    <3> QED
      BY <3>1, <3>2
  <2> QED
    BY <2>2 DEF LoggedBatches
<1> QED
  BY <1>2, <1>3, <1>4

(* What the write the backend handles next finds.                          *)
LEMMA NextRequest ==
  ASSUME CoreInv, HistoryInv, requests # <<>>, ~ Ended
  PROVE  LET n == Len(responses) + 1
             m == Head(requests)
         IN  /\ n \in 1 .. Len(mutations) /\ m = mutations[n] /\ m \in Mutation
             /\ m.batch <= written
             /\ \A i \in 1 .. Len(mutations) : mutations[i].batch = m.batch => i = n
             /\ ~ answerLost => ~ CommittedIn(log, m.batch)
             /\ \A i \in 1 .. n - 1 : /\ OriginIn(log, mutations[i].id)
                                      /\ CommittedIn(log, mutations[i].batch)
             /\ m.type # "set" => OriginIn(log, m.id)
<1> DEFINE n == Len(responses) + 1
           m == Head(requests)
<1>1. /\ n \in 1 .. Len(mutations)
      /\ m = mutations[n] /\ m \in Mutation
      /\ \A i \in 1 .. Len(responses) : responses[i].version # NotFound
  BY HeadOfRequests
<1>2. Len(responses) \in Nat /\ Len(mutations) \in Nat
  BY LenZero DEF CoreInv, WriteTypes
<1>3. m.batch <= written
  BY <1>1 DEF CoreInv, QueueInv
<1>4. ASSUME NEW i \in 1 .. Len(mutations), mutations[i].batch = m.batch PROVE i = n
  <2>1. m.batch \in Nat
    BY <1>1, MutationType
  <2>2. ~ (i < n) /\ ~ (n < i)
    BY <1>1, <1>4, <2>1 DEF CoreInv, QueueInv, Increasing
  <2> QED
    BY <1>1, <1>2, <2>2
<1>5. ~ answerLost => ~ CommittedIn(log, m.batch)
  BY <1>1, <1>2 DEF HistoryInv, Unanswered
<1>6. ASSUME NEW i \in 1 .. n - 1
      PROVE  OriginIn(log, mutations[i].id) /\ CommittedIn(log, mutations[i].batch)
  <2>1. i \in 1 .. Len(responses)
    BY <1>2
  <2>2. /\ responses[i].version \in 1 .. Len(log)
        /\ log[responses[i].version] = CommitOf(mutations[i])
    BY <1>1, <2>1 DEF HistoryInv, AnswerInv, Answered
  <2>3. /\ log[responses[i].version].id = mutations[i].id
        /\ log[responses[i].version].batch = mutations[i].batch
    BY <2>2 DEF CommitOf
  <2> QED
    BY <2>2, <2>3 DEF OriginIn, CommittedIn
<1>7. ASSUME m.type # "set" PROVE OriginIn(log, m.id)
  <2>1. \/ OriginIn(log, m.id)
        \/ \E j \in 1 .. n : mutations[j].id = m.id /\ mutations[j].type = "set"
    BY <1>1 DEF HistoryInv, HasOrigin
  <2>2. ASSUME NEW j \in 1 .. n, mutations[j].id = m.id, mutations[j].type = "set"
        PROVE  OriginIn(log, m.id)
    <3>1. j # n
      BY <1>1, <1>7, <2>2
    <3>2. j \in 1 .. n - 1
      BY <1>2, <3>1
    <3> QED
      BY <1>6, <2>2, <3>2
  <2> QED
    BY <2>1, <2>2
<1> QED
  BY <1>1, <1>3, <1>4, <1>5, <1>6, <1>7

(***************************************************************************)
(* The backend commits the first request: while no answer was lost it has  *)
(* not done so before.                                                     *)
(***************************************************************************)
LEMMA HistoryCommits ==
  ASSUME CoreInv, HistoryInv, BackendCommits
  PROVE  HistoryInv'
<1> DEFINE n == Len(responses) + 1
           m == Head(requests)
           c == CommitOf(m)
           a == [batch |-> m.batch, version |-> Len(log) + 1]
<1>0. /\ requests # <<>> /\ ~ Ended /\ IsValidFor(m, Backend(m.id, Len(log)))
      /\ UNCHANGED <<written, mutations, refused, answerLost>>
  BY DEF BackendCommits, historyVars
<1>1. /\ n \in 1 .. Len(mutations) /\ m = mutations[n] /\ m \in Mutation
      /\ m.batch <= written
      /\ \A i \in 1 .. Len(mutations) : mutations[i].batch = m.batch => i = n
      /\ ~ answerLost => ~ CommittedIn(log, m.batch)
      /\ \A i \in 1 .. n - 1 : /\ OriginIn(log, mutations[i].id)
                               /\ CommittedIn(log, mutations[i].batch)
  BY <1>0, NextRequest
<1>2. /\ c \in Commit /\ log' = Append(log, c)
      /\ Len(log') = Len(log) + 1 /\ Len(log) \in Nat
      /\ log'[Len(log) + 1] = c
      /\ responses' = Append(responses, a)
  BY BackendCommitsFacts
<1>3. c.id = m.id /\ c.batch = m.batch /\ c.entry = TextOf(m)
  BY DEF CommitOf
<1>4. log \in Seq(Commit) /\ Len(responses) \in Nat /\ Len(mutations) \in Nat
  BY LenZero DEF CoreInv, WriteTypes
<1>5. /\ Len(responses') = n /\ responses'[n] = a
      /\ \A i \in 1 .. Len(responses) : responses'[i] = responses[i]
  <2>1. a \in Response
    BY <1>1, <1>2, MutationType DEF Response
  <2> HIDE DEF a
  <2> QED
    BY <1>2, <2>1, AppendProperties DEF CoreInv, WriteTypes
<1>6. a.version = Len(log) + 1 /\ a.version # NotFound
  BY <1>2 DEF NotFound
<1>7. \A i \in 1 .. n : i \in 1 .. Len(responses) \/ i = n
  BY <1>4
<1>8. /\ \A d : OriginIn(log', d) <=> OriginIn(log, d) \/ c.id = d
      /\ \A b : CommittedIn(log', b) <=> CommittedIn(log, b) \/ c.batch = b
      /\ \A v, q : Answered(log, v, q) => Answered(log', v, q)
  BY <1>2, <1>4, AppendFacts
<1>9. m.batch > 0
  BY <1>1, MutationType
<1> HIDE DEF a, c, m
<1>10. HasOrigin' /\ SetIsFirst' /\ LoggedBatches' /\ Accounted'
  BY <1>0, <1>1, <1>2, <1>3, HistoryCommit
<1>11. AnswerInv'
  <2>1. ASSUME NEW i \in 1 .. n PROVE Answered(log', responses'[i].version, mutations[i])
    <3>1. CASE i = n
      <4>1. Len(log) + 1 \in 1 .. Len(log')
        BY <1>2
      <4>2. log'[Len(log) + 1] = CommitOf(mutations[n])
        BY <1>1, <1>2 DEF c
      <4> QED
        BY <1>5, <1>6, <3>1, <4>1, <4>2 DEF Answered
    <3>2. CASE i \in 1 .. Len(responses)
      BY <1>5, <1>8, <3>2 DEF HistoryInv, AnswerInv
    <3> QED
      BY <1>7, <3>1, <3>2
  <2> QED
    BY <1>0, <1>5, <2>1 DEF AnswerInv
<1>12. SetIsNew'
  <2>1. ASSUME NEW i \in 1 .. Len(mutations), mutations[i].type = "set",
               OriginIn(log', mutations[i].id)
        PROVE  CommittedIn(log', mutations[i].batch)
    <3>1. CASE OriginIn(log, mutations[i].id)
      BY <1>8, <2>1, <3>1 DEF HistoryInv, SetIsNew
    <3>2. CASE i = n
      BY <1>1, <1>3, <1>8, <3>2
    <3>3. CASE i < n
      <4>1. i \in 1 .. n - 1
        BY <1>4, <3>3
      <4> QED
        BY <1>1, <1>8, <4>1
    <3>4. CASE i > n /\ ~ OriginIn(log, mutations[i].id)
      <4>1. mutations[i].id = mutations[n].id
        BY <1>1, <1>3, <1>8, <2>1, <3>4
      <4>2. n < i
        BY <1>4, <3>4
      <4> QED
        BY <1>1, <2>1, <4>1, <4>2 DEF HistoryInv, SetIsFirst
    <3> QED
      BY <1>4, <3>1, <3>2, <3>3, <3>4
  <2> QED
    BY <1>0, <2>1 DEF SetIsNew
<1>13. Unanswered'
  <2>1. ASSUME ~ answerLost, NEW i \in 1 .. Len(mutations), CommittedIn(log', mutations[i].batch)
        PROVE  i <= n /\ responses'[i].version # NotFound
    <3>1. CASE CommittedIn(log, mutations[i].batch)
      <4>1. i <= Len(responses) /\ responses[i].version # NotFound
        BY <2>1, <3>1 DEF HistoryInv, Unanswered
      <4>2. i \in 1 .. Len(responses) /\ i <= n
        BY <1>4, <4>1
      <4> QED
        BY <1>5, <4>1, <4>2
    <3>2. CASE c.batch = mutations[i].batch
      <4>1. i = n
        BY <1>1, <1>3, <3>2
      <4> QED
        BY <1>4, <1>5, <1>6, <4>1
    <3> QED
      BY <1>8, <2>1, <3>1, <3>2
  <2> QED
    BY <1>0, <1>5, <2>1 DEF Unanswered
<1>14. Once'
  <2>1. ASSUME ~ answerLost PROVE OnceIn(log')
    BY <1>1, <1>2, <1>3, <1>4, <2>1, OnceAppend DEF HistoryInv, Once
  <2> QED
    BY <1>0, <2>1 DEF Once
<1>15. StaysDeleted'
  <2>1. ASSUME ~ answerLost PROVE StaysDeletedIn(log')
    <3>1. StaysDeletedIn(log)
      BY <2>1 DEF HistoryInv, StaysDeleted
    <3>2. ASSUME DeletedIn(log, c.id) PROVE c.entry = NoDocument
      <4>0. OriginIn(log, m.id)
        BY <1>3, <3>2 DEF DeletedIn, OriginIn
      <4>1. CASE m.type = "delete"
        BY <1>1, <1>3, <4>1, TextOfType
      <4>2. CASE m.type = "set"
        <5>1. CommittedIn(log, m.batch)
          BY <1>1, <4>0, <4>2 DEF HistoryInv, SetIsNew
        <5> QED
          BY <1>1, <2>1, <5>1
      <4>3. CASE m.type = "patch"
        <5>1. TextIn(log, m.id, Len(log)) # NoDocument
          BY <1>0, <4>3, BackendIsTextIn DEF IsValidFor
        <5> QED
          BY <1>3, <1>4, <3>1, <3>2, <5>1, ExistingText
      <4> QED
        BY <1>1, <4>1, <4>2, <4>3, MutationType
    <3> QED
      BY <1>2, <1>4, <3>1, <3>2, StaysDeletedAppend
  <2> QED
    BY <1>0, <2>1 DEF StaysDeleted
<1> QED
  BY <1>10, <1>11, <1>12, <1>13, <1>14, <1>15 DEF HistoryInv

(***************************************************************************)
(* The backend refuses a patch of a document that it does not have any     *)
(* more.                                                                   *)
(***************************************************************************)
LEMMA HistoryRefuses ==
  ASSUME CoreInv, HistoryInv, BackendRefuses
  PROVE  HistoryInv'
<1> DEFINE n == Len(responses) + 1
           m == Head(requests)
           a == [batch |-> m.batch, version |-> NotFound]
<1>0. /\ requests # <<>> /\ ~ Ended /\ ~ IsValidFor(m, Backend(m.id, Len(log)))
      /\ responses' = Append(responses, a)
      /\ UNCHANGED <<log, written, mutations, refused, answerLost>>
  BY DEF BackendRefuses, backendVars, historyVars
<1>1. /\ n \in 1 .. Len(mutations) /\ m = mutations[n] /\ m \in Mutation
      /\ m.type # "set" => OriginIn(log, m.id)
  BY <1>0, NextRequest
<1>2. log \in Seq(Commit) /\ Len(responses) \in Nat
  BY LenZero DEF CoreInv, WriteTypes
<1>3. m.type = "patch" /\ TextIn(log, m.id, Len(log)) = NoDocument
  BY <1>0, BackendIsTextIn DEF IsValidFor
<1>4. DeletedIn(log, m.id)
  BY <1>1, <1>2, <1>3, MissingText
<1>5. /\ Len(responses') = n /\ responses'[n] = a
      /\ \A i \in 1 .. Len(responses) : responses'[i] = responses[i]
  <2>1. a \in Response
    BY <1>1, MutationType DEF Response, NotFound
  <2> HIDE DEF a
  <2> QED
    BY <1>0, <2>1, AppendProperties DEF CoreInv, WriteTypes
<1>6. a.version = NotFound
  OBVIOUS
<1> HIDE DEF a, m
<1>7. AnswerInv'
  <2>1. ASSUME NEW i \in 1 .. n PROVE Answered(log, responses'[i].version, mutations[i])
    <3>1. CASE i = n
      BY <1>1, <1>3, <1>4, <1>5, <1>6, <3>1 DEF Answered
    <3>2. CASE i # n
      <4>1. i \in 1 .. Len(responses)
        BY <1>2, <3>2
      <4> QED
        BY <1>5, <4>1 DEF HistoryInv, AnswerInv
    <3> QED
      BY <3>1, <3>2
  <2> QED
    BY <1>0, <1>5, <2>1 DEF AnswerInv
<1>8. Unanswered'
  <2>1. ASSUME ~ answerLost, NEW i \in 1 .. Len(mutations), CommittedIn(log, mutations[i].batch)
        PROVE  i <= n /\ responses'[i].version # NotFound
    <3>1. i <= Len(responses) /\ responses[i].version # NotFound
      BY <2>1 DEF HistoryInv, Unanswered
    <3>2. i \in 1 .. Len(responses) /\ i <= n
      BY <1>2, <3>1
    <3> QED
      BY <1>5, <3>1, <3>2
  <2> QED
    BY <1>0, <1>5, <2>1 DEF Unanswered
<1>9. HasOrigin' /\ SetIsFirst' /\ SetIsNew' /\ LoggedBatches' /\ Accounted' /\ Once' /\ StaysDeleted'
  BY <1>0 DEF HistoryInv, HasOrigin, SetIsFirst, SetIsNew, LoggedBatches, Accounted, Once,
              StaysDeleted
<1> QED
  BY <1>7, <1>8, <1>9 DEF HistoryInv

(* Fresh and Queued, with the domains spelled out. *)
LEMMA FreshFacts ==
  ASSUME CoreInv, NEW d \in DocIds
  PROVE  /\ Fresh(d) <=> /\ ~ OriginIn(log, d)
                         /\ \A i \in 1 .. Len(mutations) : mutations[i].id # d
         /\ Queued(d) <=> \E i \in 1 .. Len(mutations) : mutations[i].id = d
<1>1. DOMAIN log = 1 .. Len(log) /\ DOMAIN mutations = 1 .. Len(mutations)
  BY DEF CoreInv, WriteTypes
<1> QED
  BY <1>1 DEF Fresh, Queued, OriginIn

(***************************************************************************)
(* Another device creates only new documents and does not revive deleted   *)
(* ones.                                                                   *)
(***************************************************************************)
LEMMA HistoryOtherDevice ==
  ASSUME CoreInv, HistoryInv, NEW d \in DocIds, NEW delete \in BOOLEAN, OtherDevice(d, delete)
  PROVE  HistoryInv'
<1>1. PICK c \in Commit : c.id = d /\ c.batch = 0 /\ log' = Append(log, c)
  <2>1. PICK text \in Text :
          LET c == [id |-> d, entry |-> text, batch |-> 0] IN
          c \in Commit /\ log' = Append(log, c)
    BY OtherDeviceFacts
  <2> DEFINE c == [id |-> d, entry |-> text, batch |-> 0]
  <2>2. c \in Commit /\ c.id = d /\ c.batch = 0 /\ log' = Append(log, c)
    BY <2>1
  <2> QED
    BY <2>2
<1>2. /\ Fresh(d) \/ Backend(d, Len(log)) # NoDocument
      /\ UNCHANGED <<written, mutations, responses, refused, answerLost>>
  BY DEF OtherDevice, streamVars, historyVars
<1>3. log \in Seq(Commit) /\ written \in Nat
  BY DEF CoreInv, WriteTypes
<1>4. \/ /\ ~ OriginIn(log, d)
         /\ \A i \in 1 .. Len(mutations) : mutations[i].id # d
      \/ TextIn(log, d, Len(log)) # NoDocument /\ OriginIn(log, d)
  BY <1>2, <1>3, FreshFacts, BackendIsTextIn, ExistingText
<1>5. /\ \A x : OriginIn(log', x) <=> OriginIn(log, x) \/ c.id = x
      /\ \A b : CommittedIn(log', b) <=> CommittedIn(log, b) \/ c.batch = b
      /\ \A v, q : Answered(log, v, q) => Answered(log', v, q)
  BY <1>1, <1>3, AppendFacts
<1>6. HasOrigin' /\ SetIsFirst' /\ LoggedBatches' /\ Accounted'
  BY <1>1, <1>2, <1>3, HistoryCommit
<1>7. AnswerInv'
  BY <1>2, <1>5 DEF HistoryInv, AnswerInv
<1>8. SetIsNew'
  <2>1. ASSUME NEW i \in 1 .. Len(mutations), mutations[i].type = "set",
               OriginIn(log', mutations[i].id)
        PROVE  CommittedIn(log', mutations[i].batch)
    <3>1. OriginIn(log, mutations[i].id)
      BY <1>1, <1>4, <1>5, <2>1
    <3> QED
      BY <1>5, <2>1, <3>1 DEF HistoryInv, SetIsNew
  <2> QED
    BY <1>2, <2>1 DEF SetIsNew
<1>9. Unanswered'
  <2>1. ASSUME ~ answerLost, NEW i \in 1 .. Len(mutations), CommittedIn(log', mutations[i].batch)
        PROVE  i <= Len(responses) /\ responses[i].version # NotFound
    <3>1. mutations[i] \in Mutation
      BY DEF CoreInv, WriteTypes
    <3>2. mutations[i].batch # 0
      BY <3>1, MutationType
    <3>3. CommittedIn(log, mutations[i].batch)
      BY <1>1, <1>5, <2>1, <3>2
    <3> QED
      BY <2>1, <3>3 DEF HistoryInv, Unanswered
  <2> QED
    BY <1>2, <2>1 DEF Unanswered
<1>10. Once'
  <2>1. ASSUME ~ answerLost PROVE OnceIn(log')
    <3>1. OnceIn(log)
      BY <2>1 DEF HistoryInv, Once
    <3>2. ~ (c.batch > 0)
      BY <1>1
    <3> QED
      BY <1>1, <1>3, <3>1, <3>2, OnceAppend
  <2> QED
    BY <1>2, <2>1 DEF Once
<1>11. StaysDeleted'
  <2>1. ASSUME ~ answerLost PROVE StaysDeletedIn(log')
    <3>1. StaysDeletedIn(log)
      BY <2>1 DEF HistoryInv, StaysDeleted
    <3>2. ~ DeletedIn(log, d)
      <4>1. CASE ~ OriginIn(log, d)
        BY <4>1 DEF OriginIn, DeletedIn
      <4>2. CASE OriginIn(log, d)
        BY <1>3, <1>4, <3>1, <4>2, ExistingText
      <4> QED
        BY <4>1, <4>2
    <3> QED
      BY <1>1, <1>3, <3>1, <3>2, StaysDeletedAppend
  <2> QED
    BY <1>2, <2>1 DEF StaysDeleted
<1> QED
  BY <1>6, <1>7, <1>8, <1>9, <1>10, <1>11 DEF HistoryInv

-----------------------------------------------------------------------------
(* Where cached and shown documents come from. *)

(* Whatever the device shows or has cached was once committed. *)
CacheHasOrigin ==
  /\ \A d \in DocIds : cache[d].entry # NoDocument => cache[d].version > 0
  /\ \A d \in DocIds : cache[d].version > 0 => OriginIn(log, d)

(***************************************************************************)
(* What is shown as confirmed by the backend, or in limbo, has been        *)
(* committed.                                                              *)
(***************************************************************************)
ViewHasOrigin ==
  /\ \A d \in DocIds : view[d].entry # NoDocument /\ ~ view[d].local => OriginIn(log, d)
  /\ \A d \in limbo : OriginIn(log, d)

(* What the cache and the view take from the backend was committed. *)
OriginInv == CacheHasOrigin /\ ViewHasOrigin

(* The invariant of the writes. *)
WriteInv == BaseInv /\ HistoryInv /\ OriginInv

(* Initially, nothing is cached. *)
LEMMA OriginInit == Init => OriginInv
<1> SUFFICES ASSUME Init PROVE OriginInv
  OBVIOUS
<1>1. \A d \in DocIds : cache[d].entry = NoDocument /\ cache[d].version = 0
  BY DEF Init
<1>2. limbo = {} /\ \A d \in DocIds : view[d].entry = NoDocument
  BY DEF Init, EmptyView
<1> QED
  BY <1>1, <1>2 DEF OriginInv, CacheHasOrigin, ViewHasOrigin

(* A snapshot shows nothing that was never committed, unless it is local.  *)
LEMMA EmitOrigin ==
  ASSUME view \in DocumentView, \A d \in limbo : OriginIn(log, d),
         NEW newCache \in DocumentCache,
         \A d \in DocIds : newCache[d].entry # NoDocument => OriginIn(log, d),
         NEW queue \in Seq(Mutation), NEW keys, NEW isCurrent,
         EmitNewSnapshots(newCache, queue, keys, isCurrent) \/ (InitializeView(queue) /\ newCache = cache)
  PROVE  /\ \A d \in DocIds : view'[d].entry # NoDocument /\ ~ view'[d].local => OriginIn(log, d)
         /\ \A d \in limbo' : OriginIn(log, d)
<1>1. PICK old \in DocumentView : view' = ComputeDocumentChanges(old, newCache, queue)
  BY EmptyViewType DEF EmitNewSnapshots, InitializeView
<1>2. ASSUME NEW d \in DocIds, view'[d].entry # NoDocument, ~ view'[d].local
      PROVE  OriginIn(log, d)
  <2>1. view'[d].entry = newCache[d].entry
    BY <1>1, <1>2, ComputeFacts
  <2> QED
    BY <1>2, <2>1
<1>3. \/ limbo' \subseteq limbo
      \/ limbo' = {d \in DocIds : ShouldBeInLimbo(view', keys, d)}
  BY DEF EmitNewSnapshots, InitializeView, UpdateLimboDocuments
<1>4. \A d \in limbo' : OriginIn(log, d)
  BY <1>2, <1>3 DEF ShouldBeInLimbo
<1> QED
  BY <1>2, <1>4

(* The part of a step that computes a view from an unchanged cache.        *)
LEMMA OriginEmit ==
  ASSUME BaseInv, OriginInv, NEW queue \in Seq(Mutation), NEW isCurrent,
         EmitNewSnapshots(cache, queue, remoteKeys, isCurrent) \/ InitializeView(queue),
         UNCHANGED <<log, cache>>
  PROVE  OriginInv'
<1>1. CacheHasOrigin'
  BY DEF OriginInv, CacheHasOrigin
<1>2. \A d \in DocIds : cache[d].entry # NoDocument => OriginIn(log, d)
  BY DEF OriginInv, CacheHasOrigin
<1>3. /\ \A d \in DocIds : view'[d].entry # NoDocument /\ ~ view'[d].local => OriginIn(log, d)
      /\ \A d \in limbo' : OriginIn(log, d)
  BY <1>2, EmitOrigin DEF BaseInv, ViewTypes, OriginInv, ViewHasOrigin
<1>4. ViewHasOrigin'
  BY <1>3 DEF ViewHasOrigin
<1> QED
  BY <1>1, <1>4 DEF OriginInv

(* A longer log has all the documents of the shorter one. *)
LEMMA OriginCommit ==
  ASSUME BaseInv, OriginInv, NEW c \in Commit, log' = Append(log, c),
         UNCHANGED <<cache, view, limbo>>
  PROVE  OriginInv'
<1>1. \A d : OriginIn(log, d) => OriginIn(log', d)
  BY AppendFacts DEF BaseInv, CoreInv, WriteTypes
<1> QED
  BY <1>1 DEF OriginInv, CacheHasOrigin, ViewHasOrigin

(* A step that touches neither log nor cache nor view. *)
LEMMA OriginUnchanged ==
  ASSUME OriginInv, UNCHANGED <<log, cache, view, limbo>>
  PROVE  OriginInv'
BY DEF OriginInv, CacheHasOrigin, ViewHasOrigin

(* An acknowledged mutation was committed. *)
LEMMA OriginMutationResult ==
  ASSUME BaseInv, HistoryInv, OriginInv, OnWriteStreamMutationResult
  PROVE  OriginInv'
<1> DEFINE m == Head(pipeline)
           version == Head(responses).version
<1>1. /\ responses # <<>> /\ version # NotFound
      /\ cache' = ApplyBatchResult(m, version)
      /\ EmitNewSnapshots(cache', mutations', remoteKeys, current)
      /\ log' = log
  BY DEF OnWriteStreamMutationResult, HandleSuccessfulWrite, AcknowledgeBatch,
         IsPermanentWriteError, backendVars
<1>2. m = mutations[1] /\ m \in Mutation /\ 1 \in 1 .. Len(responses)
  BY <1>1, FrontFacts DEF BaseInv
<1>3. version = responses[1].version /\ version \in Nat
  BY <1>1, AnswersTail DEF BaseInv, Response
<1>4. Answered(log, version, m)
  BY <1>2, <1>3 DEF HistoryInv, AnswerInv
<1>5. OriginIn(log, m.id)
  <2>1. version \in 1 .. Len(log) /\ log[version] = CommitOf(m)
    BY <1>1, <1>4 DEF Answered
  <2>2. log[version].id = m.id
    BY <2>1 DEF CommitOf
  <2> QED
    BY <2>1, <2>2 DEF OriginIn
<1>6. cache' \in DocumentCache /\ mutations' \in Seq(Mutation)
  BY ViewTypesMutationResult, CoreInvMutationResult DEF BaseInv, ViewTypes, CoreInv, WriteTypes
<1> HIDE DEF m, version
<1>7. ASSUME NEW d \in DocIds
      PROVE  /\ cache'[d].entry # NoDocument => cache'[d].version > 0
             /\ cache'[d].version > 0 => OriginIn(log, d)
  <2>0. cache \in DocumentCache
    BY DEF BaseInv, ViewTypes
  <2>1. CASE cache'[d] = cache[d]
    BY <2>1 DEF OriginInv, CacheHasOrigin
  <2>2. CASE cache'[d] # cache[d]
    <3>1. d = m.id /\ cache'[d] = ApplyToRemoteDocument(m, cache[d], version)
      BY <1>1, <2>0, <2>2 DEF ApplyBatchResult, DocumentCache
    <3>2. cache'[d].version = version
      BY <3>1 DEF ApplyToRemoteDocument
    <3> QED
      BY <1>1, <1>3, <1>5, <3>1, <3>2 DEF NotFound
  <2> QED
    BY <2>1, <2>2
<1>8. CacheHasOrigin'
  BY <1>1, <1>7 DEF CacheHasOrigin
<1>9. /\ \A d \in DocIds : view'[d].entry # NoDocument /\ ~ view'[d].local => OriginIn(log, d)
      /\ \A d \in limbo' : OriginIn(log, d)
  BY <1>1, <1>6, <1>7, EmitOrigin DEF BaseInv, ViewTypes, OriginInv, ViewHasOrigin
<1>10. ViewHasOrigin'
  BY <1>1, <1>9 DEF ViewHasOrigin
<1> QED
  BY <1>8, <1>10 DEF OriginInv

(* A remote event brings documents of the log. *)
LEMMA OriginRemoteEvent ==
  ASSUME BaseInv, OriginInv, NEW updates, NEW keys, keys \subseteq DocIds,
         \A d \in DOMAIN updates : /\ updates[d] \in 0 .. Len(log)
                                   /\ updates[d] > 0 => OriginIn(log, d),
         ApplyRemoteEvent(updates, keys)
  PROVE  OriginInv'
<1>1. cache' \in DocumentCache /\ UNCHANGED writeVars
  BY ApplyRemoteEventTypes DEF BaseInv
<1>2. /\ cache' = [d \in DocIds |-> IF d \in DOMAIN updates THEN WatchUpdate(d, updates[d])
                                                            ELSE cache[d]]
      /\ EmitNewSnapshots(cache', mutations, keys, TRUE)
  BY DEF ApplyRemoteEvent
<1>3. log' = log
  BY <1>1 DEF writeVars, backendVars
<1>4. ASSUME NEW d \in DocIds
      PROVE  /\ cache'[d].entry # NoDocument => cache'[d].version > 0
             /\ cache'[d].version > 0 => OriginIn(log, d)
  <2>1. CASE cache'[d] = cache[d]
    BY <2>1 DEF OriginInv, CacheHasOrigin
  <2>2. CASE cache'[d] # cache[d]
    <3>1. /\ d \in DOMAIN updates
          /\ cache'[d] = [entry |-> Backend(d, updates[d]), version |-> updates[d],
                          committed |-> FALSE]
      BY <1>2, <2>2 DEF WatchUpdate
    <3>2. updates[d] \in Nat
      BY <3>1, LenZero DEF BaseInv, CoreInv, WriteTypes
    <3>3. ASSUME updates[d] = 0 PROVE Backend(d, updates[d]) = NoDocument
      <4>1. LastIn(log, d, 0) = 0
        BY LastInFacts
      <4> QED
        BY <3>3, <4>1, BackendIsTextIn DEF TextIn
    <3> QED
      BY <3>1, <3>2, <3>3
  <2> QED
    BY <2>1, <2>2
<1>5. CacheHasOrigin'
  BY <1>3, <1>4 DEF CacheHasOrigin
<1>6. /\ \A d \in DocIds : view'[d].entry # NoDocument /\ ~ view'[d].local => OriginIn(log, d)
      /\ \A d \in limbo' : OriginIn(log, d)
  BY <1>1, <1>2, <1>4, EmitOrigin, ActiveQueueType
     DEF BaseInv, ViewTypes, OriginInv, ViewHasOrigin
<1>7. ViewHasOrigin'
  BY <1>3, <1>6 DEF ViewHasOrigin
<1> QED
  BY <1>5, <1>7 DEF OriginInv

(* A document with a last commit was committed. *)
LEMMA LastCommitOrigin ==
  ASSUME BaseInv, NEW d \in DocIds, NEW v \in 0 .. Len(log)
  PROVE  /\ LastCommit(d, v) \in 0 .. Len(log)
         /\ LastCommit(d, v) > 0 => OriginIn(log, d)
<1>1. Len(log) \in Nat /\ v \in Nat
  BY LenZero DEF BaseInv, CoreInv, WriteTypes
<1>2. LastCommit(d, v) \in 0 .. v /\ (LastCommit(d, v) # 0 => log[LastCommit(d, v)].id = d)
  BY <1>1, LastInFacts, BackendIsTextIn
<1> QED
  BY <1>1, <1>2 DEF OriginIn

(* A snapshot of the watch stream brings documents of the log. *)
LEMMA OriginSnapshot ==
  ASSUME BaseInv, OriginInv, NEW v \in watched .. Len(log), WatchSnapshot(v) \/ WatchListing(v)
  PROVE  OriginInv'
<1>0. v \in 0 .. Len(log)
  BY LenZero DEF BaseInv, CoreInv, WriteTypes, ViewTypes
<1>1. PICK reported \in SUBSET DocIds, keys \in SUBSET DocIds :
        RaiseWatchSnapshot(v, reported, keys)
  <2>1. CASE WatchSnapshot(v)
    <3> DEFINE changed == {d \in DocIds : LastCommit(d, v) > watched}
               keys == (remoteKeys \ changed) \cup (changed \cap Existing(v))
    <3>1. RaiseWatchSnapshot(v, changed, keys)
      BY <2>1 DEF WatchSnapshot
    <3>2. changed \in SUBSET DocIds /\ keys \in SUBSET DocIds
      BY DEF BaseInv, ViewTypes
    <3> QED
      BY <3>1, <3>2
  <2>2. CASE WatchListing(v)
    BY <2>2 DEF WatchListing, Existing
  <2> QED
    BY <2>1, <2>2
<1> DEFINE updates == [d \in reported |-> LastCommit(d, v)]
<1>2. ApplyRemoteEvent(updates, keys)
  BY <1>1 DEF RaiseWatchSnapshot
<1>3. \A d \in DOMAIN updates : /\ updates[d] \in 0 .. Len(log)
                                /\ updates[d] > 0 => OriginIn(log, d)
  BY <1>0, LastCommitOrigin
<1> HIDE DEF updates
<1> QED
  BY <1>2, <1>3, OriginRemoteEvent

(* So does the resolution of a limbo document. *)
LEMMA OriginResolveLimbo ==
  ASSUME BaseInv, OriginInv, NEW d \in DocIds, ResolveLimbo(d)
  PROVE  OriginInv'
<1> DEFINE updates == [k \in {d} |-> IF d \in Existing(watched) THEN LastCommit(d, watched)
                                                                ELSE watched]
<1>1. ApplyRemoteEvent(updates, remoteKeys) /\ d \in limbo
  BY DEF ResolveLimbo
<1>2. OriginIn(log, d) /\ watched \in 0 .. Len(log)
  BY <1>1 DEF BaseInv, ViewTypes, OriginInv, ViewHasOrigin
<1>3. \A k \in DOMAIN updates : /\ updates[k] \in 0 .. Len(log)
                                /\ updates[k] > 0 => OriginIn(log, k)
  BY <1>2, LastCommitOrigin
<1> HIDE DEF updates
<1> QED
  BY <1>1, <1>3, OriginRemoteEvent DEF BaseInv, ViewTypes

-----------------------------------------------------------------------------
(* Nothing is lost, nothing comes twice, deleted stays deleted. *)

(* A save or a deletion by the user of this device. *)
LEMMA WriteInvWrite ==
  ASSUME WriteInv, NEW d \in DocIds, SaveNew(d) \/ SaveEdited(d) \/ DeleteJournal(d)
  PROVE  HistoryInv' /\ OriginInv'
<1>1. PICK type \in {"set", "patch", "delete"} :
        /\ WriteMutations(type, d)
        /\ type = "set" => Fresh(d)
        /\ type # "set" => Known(d)
  BY DEF SaveNew, SaveEdited, DeleteJournal
<1>2. CoreInv /\ BaseInv /\ HistoryInv /\ OriginInv
  BY DEF WriteInv, BaseInv
<1>3. type = "set" => /\ ~ OriginIn(log, d)
                      /\ \A i \in 1 .. Len(mutations) : mutations[i].id # d
  BY <1>1, <1>2, FreshFacts
<1>4. type # "set" => OriginIn(log, d) \/ \E i \in 1 .. Len(mutations) : mutations[i].id = d
  BY <1>1, <1>2, FreshFacts DEF Known, OriginInv, CacheHasOrigin
<1>5. HistoryInv'
  BY <1>1, <1>2, <1>3, <1>4, HistoryWrite
<1>6. mutations' \in Seq(Mutation)
  BY <1>1, <1>2, WriteMutationsFacts
<1>7. EmitNewSnapshots(cache, mutations', remoteKeys, current) /\ UNCHANGED <<log, cache>>
  BY <1>1 DEF WriteMutations
<1>8. OriginInv'
  BY <1>2, <1>6, <1>7, OriginEmit
<1> QED
  BY <1>5, <1>8

(* A step of the write stream. *)
LEMMA WriteInvStream ==
  ASSUME WriteInv, WriteStream
  PROVE  HistoryInv' /\ OriginInv'
<1>0. CoreInv /\ BaseInv /\ HistoryInv /\ OriginInv
  BY DEF WriteInv, BaseInv
<1>1. CASE OnWriteStreamHandshakeComplete
  <2>1. /\ UNCHANGED <<log, written, mutations, responses, refused, answerLost>>
        /\ UNCHANGED <<log, cache, view, limbo>>
    BY <1>1 DEF OnWriteStreamHandshakeComplete, backendVars, viewVars, historyVars
  <2> QED
    BY <1>0, <2>1, HistoryUnchanged, OriginUnchanged
<1>2. CASE OnWriteStreamMutationResult
  <2>1. HistoryInv'
    BY <1>0, <1>2, MutationResultFacts, HistoryFrontTaken
  <2> QED
    BY <1>0, <1>2, <2>1, OriginMutationResult
<1>3. CASE HandleWriteError
  <2>1. HistoryInv'
    BY <1>0, <1>3, WriteErrorFacts, HistoryFrontTaken
  <2>2. EmitNewSnapshots(cache, mutations', remoteKeys, current) /\ UNCHANGED <<log, cache>>
    BY <1>3 DEF HandleWriteError, HandleRejectedWrite, RejectBatch, backendVars
  <2>3. mutations' \in Seq(Mutation)
    BY <1>0, <1>3, CoreInvWriteError DEF CoreInv, WriteTypes
  <2> QED
    BY <1>0, <2>1, <2>2, <2>3, OriginEmit
<1> QED
  BY <1>1, <1>2, <1>3 DEF WriteStream

(* A commit or a refusal by the backend, and a write of another device. *)
LEMMA WriteInvBackend ==
  ASSUME WriteInv,
         BackendHandles \/ \E d \in DocIds, delete \in BOOLEAN : OtherDevice(d, delete)
  PROVE  HistoryInv' /\ OriginInv'
<1>0. CoreInv /\ BaseInv /\ HistoryInv /\ OriginInv
  BY DEF WriteInv, BaseInv
<1>1. CASE BackendCommits
  <2>1. UNCHANGED <<cache, view, limbo>>
    BY <1>1 DEF BackendCommits, viewVars
  <2>2. CommitOf(Head(requests)) \in Commit /\ log' = Append(log, CommitOf(Head(requests)))
    BY <1>0, <1>1, BackendCommitsFacts
  <2>3. OriginInv'
    BY <1>0, <2>1, <2>2, OriginCommit
  <2> QED
    BY <1>0, <1>1, <2>3, HistoryCommits
<1>2. CASE BackendRefuses
  <2>1. UNCHANGED <<log, cache, view, limbo>>
    BY <1>2 DEF BackendRefuses, viewVars, backendVars
  <2> QED
    BY <1>0, <1>2, <2>1, HistoryRefuses, OriginUnchanged
<1>3. ASSUME NEW d \in DocIds, NEW delete \in BOOLEAN, OtherDevice(d, delete)
      PROVE  HistoryInv' /\ OriginInv'
  <2>1. UNCHANGED <<cache, view, limbo>>
    BY <1>3 DEF OtherDevice, viewVars
  <2>2. \E c \in Commit : log' = Append(log, c)
    BY <1>0, <1>3, OtherDeviceFacts
  <2>3. OriginInv'
    BY <1>0, <2>1, <2>2, OriginCommit
  <2> QED
    BY <1>0, <1>3, <2>3, HistoryOtherDevice
<1> QED
  BY <1>1, <1>2, <1>3 DEF BackendHandles

(* The end of the stream, of the process, of the session. *)
LEMMA WriteInvBreak ==
  ASSUME WriteInv, OnWriteStreamClose \/ Restart \/ SignOut \/ SignIn
  PROVE  HistoryInv' /\ OriginInv'
<1>0. CoreInv /\ BaseInv /\ HistoryInv /\ OriginInv
  BY DEF WriteInv, BaseInv
<1>1. /\ LoseStream /\ UNCHANGED <<log, written, mutations, refused, cache>>
  BY DEF OnWriteStreamClose, Restart, SignOut, SignIn, RestartStreams, backendVars
<1>2. HistoryInv'
  BY <1>0, <1>1, HistoryLost DEF LoseStream
<1>3. ActiveQueue \in Seq(Mutation) /\ mutations \in Seq(Mutation) /\ <<>> \in Seq(Mutation)
  BY <1>0, ActiveQueueType
<1>4. CASE OnWriteStreamClose
  <2>1. UNCHANGED <<log, cache, view, limbo>>
    BY <1>4 DEF OnWriteStreamClose, viewVars, backendVars
  <2> QED
    BY <1>0, <1>2, <2>1, OriginUnchanged
<1>5. CASE Restart \/ SignOut \/ SignIn
  <2>1. \E queue \in Seq(Mutation) :
          EmitNewSnapshots(cache, queue, remoteKeys, current) \/ InitializeView(queue)
    BY <1>3, <1>5 DEF Restart, SignOut, SignIn
  <2> QED
    BY <1>0, <1>1, <1>2, <2>1, OriginEmit
<1> QED
  BY <1>4, <1>5

(* Every step keeps the invariant. *)
LEMMA WriteInvStep ==
  ASSUME WriteInv, [Next]_vars
  PROVE  WriteInv'
<1>0. CoreInv /\ BaseInv /\ HistoryInv /\ OriginInv
  BY DEF WriteInv, BaseInv
<1>1. BaseInv'
  BY <1>0, BaseInvStep
<1>2. ASSUME NEW d \in DocIds, SaveNew(d) \/ SaveEdited(d) \/ DeleteJournal(d)
      PROVE  HistoryInv' /\ OriginInv'
  BY <1>2, WriteInvWrite
<1>3. ASSUME WriteStream
      PROVE  HistoryInv' /\ OriginInv'
  BY <1>3, WriteInvStream
<1>4. ASSUME BackendHandles \/ \E d \in DocIds, delete \in BOOLEAN : OtherDevice(d, delete)
      PROVE  HistoryInv' /\ OriginInv'
  BY <1>4, WriteInvBackend
<1>5. ASSUME OnWriteStreamClose \/ Restart \/ SignOut \/ SignIn
      PROVE  HistoryInv' /\ OriginInv'
  BY <1>5, WriteInvBreak
<1>6. ASSUME NEW v \in watched .. Len(log), WatchSnapshot(v) \/ WatchListing(v)
      PROVE  HistoryInv' /\ OriginInv'
  <2>1. UNCHANGED <<log, written, mutations, responses, refused, answerLost>>
    BY <1>6 DEF WatchSnapshot, WatchListing, RaiseWatchSnapshot, ApplyRemoteEvent,
                backendVars, streamVars, historyVars
  <2> QED
    BY <1>0, <1>6, <2>1, HistoryUnchanged, OriginSnapshot
<1>7. ASSUME NEW d \in DocIds, ResolveLimbo(d)
      PROVE  HistoryInv' /\ OriginInv'
  <2>1. UNCHANGED <<log, written, mutations, responses, refused, answerLost>>
    BY <1>7 DEF ResolveLimbo, ApplyRemoteEvent, backendVars, streamVars, historyVars
  <2> QED
    BY <1>0, <1>7, <2>1, HistoryUnchanged, OriginResolveLimbo
<1>8. ASSUME GoOffline
      PROVE  HistoryInv' /\ OriginInv'
  <2>1. /\ UNCHANGED <<log, written, mutations, responses, refused, answerLost>>
        /\ UNCHANGED <<log, cache>>
        /\ EmitNewSnapshots(cache, ActiveQueue, remoteKeys, FALSE)
    BY <1>8 DEF GoOffline, backendVars, streamVars, historyVars
  <2> QED
    BY <1>0, <2>1, HistoryUnchanged, OriginEmit, ActiveQueueType
<1>9. ASSUME UNCHANGED vars
      PROVE  HistoryInv' /\ OriginInv'
  <2>1. /\ UNCHANGED <<log, written, mutations, responses, refused, answerLost>>
        /\ UNCHANGED <<log, cache, view, limbo>>
    BY <1>9 DEF vars, backendVars, viewVars, streamVars, historyVars
  <2> QED
    BY <1>0, <2>1, HistoryUnchanged, OriginUnchanged
<1>10. HistoryInv' /\ OriginInv'
  BY <1>2, <1>3, <1>4, <1>5, <1>6, <1>7, <1>8, <1>9 DEF Next
<1> QED
  BY <1>1, <1>10 DEF WriteInv

(* The invariant of the writes holds always. *)
LEMMA WriteInvAlways == Spec => []WriteInv
<1>1. Init => WriteInv
  BY BaseInvInit, HistoryInit, OriginInit DEF WriteInv
<1> QED
  BY <1>1, WriteInvStep, PTL DEF Spec

(* The domains of the sequences. *)
LEMMA DomainsAreLengths ==
  ASSUME BaseInv
  PROVE  /\ DOMAIN log = 1 .. Len(log) /\ DOMAIN mutations = 1 .. Len(mutations)
         /\ DOMAIN responses = 1 .. Len(responses)
BY DEF BaseInv, CoreInv, WriteTypes

(***************************************************************************)
(* No write is lost silently, through any number of broken streams,        *)
(* restarts and sign outs: each batch the user wrote is still on the       *)
(* mutation queue, or on the backend, or was refused because the journal   *)
(* had been deleted there (LocalStore keeps a batch until its answer was   *)
(* handled).                                                               *)
(***************************************************************************)
THEOREM NothingIsLost == Spec => []NoSilentLoss
<1>1. WriteInv => NoSilentLoss
  <2> SUFFICES ASSUME WriteInv PROVE NoSilentLoss
    OBVIOUS
  <2>1. BaseInv /\ Accounted
    BY DEF WriteInv, HistoryInv
  <2> QED
    BY <2>1, DomainsAreLengths
       DEF NoSilentLoss, Accounted, InQueue, Committed, DeletedOnce, QueuedIn, CommittedIn,
           DeletedIn
<1> QED
  BY <1>1, WriteInvAlways, PTL

(***************************************************************************)
(* While no answer was lost, no batch reaches the backend twice, although  *)
(* RemoteStore sends the whole pipeline again with every new stream: what  *)
(* it sends again had not been handled.                                    *)
(***************************************************************************)
THEOREM CommittedOnce == Spec => []OnceUnlessAnswerLost
<1>1. WriteInv => OnceUnlessAnswerLost
  <2> SUFFICES ASSUME WriteInv PROVE OnceUnlessAnswerLost
    OBVIOUS
  <2>1. BaseInv /\ Once
    BY DEF WriteInv, HistoryInv
  <2> QED
    BY <2>1, DomainsAreLengths DEF OnceUnlessAnswerLost, Once, OnceIn
<1> QED
  BY <1>1, WriteInvAlways, PTL

(***************************************************************************)
(* While no answer was lost, a journal that was deleted on the backend     *)
(* stays deleted: the creation of a journal, the only write without an     *)
(* existence precondition, is never sent after its deletion.               *)
(***************************************************************************)
THEOREM DeletionIsFinal == Spec => []DeletedStaysDeleted
<1>1. WriteInv => DeletedStaysDeleted
  <2> SUFFICES ASSUME WriteInv PROVE DeletedStaysDeleted
    OBVIOUS
  <2>1. BaseInv /\ StaysDeleted
    BY DEF WriteInv, HistoryInv
  <2> QED
    BY <2>1, DomainsAreLengths DEF DeletedStaysDeleted, StaysDeleted, StaysDeletedIn
<1> QED
  BY <1>1, WriteInvAlways, PTL

-----------------------------------------------------------------------------
(* Writes arrive in order. *)

(* A commit of this device is the next write of the queue. *)
LEMMA CommitsAreInOrder ==
  ASSUME WriteInv, BackendCommits
  PROVE  CommitInOrder
<1> DEFINE m == Head(requests)
           n == Len(responses) + 1
<1>0. CoreInv /\ BaseInv /\ HistoryInv /\ requests # <<>> /\ ~ Ended
  BY DEF WriteInv, BaseInv, BackendCommits
<1>1. /\ n \in 1 .. Len(mutations) /\ m = mutations[n] /\ m \in Mutation
      /\ \A i \in 1 .. n - 1 : CommittedIn(log, mutations[i].batch)
  BY <1>0, NextRequest
<1>2. Len(log') = Len(log) + 1 /\ Len(log) \in Nat /\ log'[Len(log) + 1] = CommitOf(m)
  BY <1>0, BackendCommitsFacts
<1>3. /\ DOMAIN log = 1 .. Len(log) /\ DOMAIN mutations = 1 .. Len(mutations)
      /\ Len(mutations) \in Nat
  BY <1>0, DomainsAreLengths, LenZero DEF CoreInv, WriteTypes
<1> HIDE DEF m, n
<1>4. SUFFICES ASSUME NEW b \in 1 .. written, log'[Len(log')].batch = b
               PROVE  /\ InQueue(b)
                      /\ \A c \in 1 .. b - 1 : Committed(c) \/ \E r \in refused : r.batch = c
  BY DEF CommitInOrder
<1>5. m.batch = b /\ b \in Nat /\ written \in Nat
  BY <1>0, <1>1, <1>2, <1>4, MutationType DEF CommitOf, CoreInv, WriteTypes
<1>6. InQueue(b)
  BY <1>1, <1>3, <1>5 DEF InQueue
<1>7. ASSUME NEW c \in 1 .. b - 1
      PROVE  Committed(c) \/ \E r \in refused : r.batch = c
  <2>1. c \in 1 .. written /\ c < b
    BY <1>4, <1>5
  <2>2. QueuedIn(mutations, c) \/ CommittedIn(log, c) \/ \E r \in refused : r.batch = c
    BY <1>0, <2>1 DEF HistoryInv, Accounted
  <2>3. ASSUME QueuedIn(mutations, c) PROVE CommittedIn(log, c)
    <3>1. PICK i \in 1 .. Len(mutations) : mutations[i].batch = c
      BY <2>3 DEF QueuedIn
    <3>2. Increasing(mutations)
      BY <1>0 DEF CoreInv, QueueInv
    <3>3. ~ n < i
      BY <1>1, <1>5, <2>1, <3>1, <3>2 DEF Increasing
    <3>4. n # i
      BY <1>1, <1>5, <2>1, <3>1
    <3>5. i \in 1 .. n - 1
      BY <1>1, <1>3, <3>1, <3>3, <3>4
    <3> QED
      BY <1>1, <3>1, <3>5
  <2>4. CommittedIn(log, c) => Committed(c)
    BY <1>3 DEF CommittedIn, Committed
  <2> QED
    BY <2>2, <2>3, <2>4
<1> QED
  BY <1>6, <1>7

(* No other step commits a write of this device. *)
LEMMA OthersCommitNothing ==
  ASSUME WriteInv, UNCHANGED log \/ \E d \in DocIds, delete \in BOOLEAN : OtherDevice(d, delete)
  PROVE  CommitInOrder
<1>0. CoreInv /\ Len(log) \in Nat /\ written \in Nat
  BY LenZero DEF WriteInv, BaseInv, CoreInv, WriteTypes
<1>1. CASE UNCHANGED log
  BY <1>0, <1>1 DEF CommitInOrder
<1>2. ASSUME NEW d \in DocIds, NEW delete \in BOOLEAN, OtherDevice(d, delete)
      PROVE  CommitInOrder
  <2>0. PICK text \in Text : /\ Len(log') = Len(log) + 1
                             /\ log'[Len(log) + 1] = [id |-> d, entry |-> text, batch |-> 0]
    BY <1>0, <1>2, OtherDeviceFacts
  <2>1. Len(log') = Len(log) + 1 /\ log'[Len(log) + 1].batch = 0
    BY <2>0
  <2>2. log'[Len(log')].batch = 0
    BY <2>1
  <2> QED
    BY <1>0, <2>2 DEF CommitInOrder
<1> QED
  BY <1>1, <1>2

(* Only the backend, for this device or another one, appends to its log. *)
LEMMA LogSteps ==
  ASSUME [Next]_vars
  PROVE  \/ BackendCommits
         \/ \E d \in DocIds, delete \in BOOLEAN : OtherDevice(d, delete)
         \/ UNCHANGED log
<1> USE DEF backendVars
<1>1. ASSUME NEW d \in DocIds, SaveNew(d) \/ SaveEdited(d) \/ DeleteJournal(d)
      PROVE  UNCHANGED log
  BY <1>1 DEF SaveNew, SaveEdited, DeleteJournal, WriteMutations
<1>2. ASSUME WriteStream PROVE UNCHANGED log
  BY <1>2 DEF WriteStream, OnWriteStreamHandshakeComplete, OnWriteStreamMutationResult,
              HandleWriteError
<1>3. ASSUME BackendHandles PROVE BackendCommits \/ UNCHANGED log
  BY <1>3 DEF BackendHandles, BackendRefuses
<1>4. ASSUME OnWriteStreamClose \/ GoOffline \/ Restart \/ SignOut \/ SignIn
      PROVE  UNCHANGED log
  BY <1>4 DEF OnWriteStreamClose, GoOffline, Restart, SignOut, SignIn
<1>5. ASSUME NEW v, WatchSnapshot(v) \/ WatchListing(v)
      PROVE  UNCHANGED log
  BY <1>5 DEF WatchSnapshot, WatchListing, RaiseWatchSnapshot, ApplyRemoteEvent
<1>6. ASSUME NEW d, ResolveLimbo(d)
      PROVE  UNCHANGED log
  BY <1>6 DEF ResolveLimbo, ApplyRemoteEvent
<1>7. ASSUME UNCHANGED vars PROVE UNCHANGED log
  BY <1>7 DEF vars
<1> QED
  BY <1>1, <1>2, <1>3, <1>4, <1>5, <1>6, <1>7 DEF Next

(***************************************************************************)
(* The backend gets the writes of this device in the order they were made  *)
(* and never one that was acknowledged before: when a batch is committed   *)
(* it is still on the queue, and every earlier batch has been committed or *)
(* refused.                                                                *)
(***************************************************************************)
THEOREM WritesArriveInOrder == Spec => CommitsInOrder
<1>1. WriteInv /\ [Next]_vars => [CommitInOrder]_vars
  BY LogSteps, CommitsAreInOrder, OthersCommitNothing
<1> QED
  BY <1>1, WriteInvAlways, PTL DEF Spec, CommitsInOrder

-----------------------------------------------------------------------------
(* The outbox. *)

(* The store of the outbox: what the backend has of every document. *)
Store == [d \in DocIds |-> Backend(d, Len(log))]
(* The same, with the log as an argument. *)
StoreIn(l) == [d \in DocIds |-> TextIn(l, d, Len(l))]

(* The two are the same, now and in the next state. *)
LEMMA StoreIs == Store = StoreIn(log) /\ Store' = StoreIn(log')
BY DEF Store, StoreIn, Backend, LastCommit, CommitsOf, TextIn, LastIn

(* The store gives every document a text. *)
LEMMA StoreFacts ==
  ASSUME CoreInv
  PROVE  /\ Store \in [DocIds -> Text]
         /\ \A d \in DocIds : Store[d] = Backend(d, Len(log))
<1>1. log \in Seq(Commit) /\ Len(log) \in Nat /\ Len(log) \in 0 .. Len(log)
  BY LenZero DEF CoreInv, WriteTypes
<1>2. \A d \in DocIds : TextIn(log, d, Len(log)) \in Text
  BY <1>1, TextInType
<1> QED
  BY <1>2, BackendIsTextIn DEF Store

(* A commit changes the text of its document and of no other. *)
LEMMA StoreCommit ==
  ASSUME CoreInv, NEW c \in Commit, log' = Append(log, c)
  PROVE  Store' = [Store EXCEPT ![c.id] = c.entry]
<1>1. log \in Seq(Commit) /\ Len(log) \in Nat /\ Len(log') = Len(log) + 1
  BY LenZero, AppendProperties DEF CoreInv, WriteTypes
<1>2. \A d \in DocIds : TextIn(log', d, Len(log'))
                           = IF c.id = d THEN c.entry ELSE TextIn(log, d, Len(log))
  BY <1>1, TextInNew
<1>3. StoreIn(log') = [StoreIn(log) EXCEPT ![c.id] = c.entry]
  BY <1>2 DEF StoreIn
<1> QED
  BY <1>3, StoreIs

(* Initially, outbox and store are empty. *)
LEMMA OutboxInit == Init => AbstractOutbox!Init
<1> SUFFICES ASSUME Init PROVE AbstractOutbox!Init
  OBVIOUS
<1>1. Store \in [DocIds -> Text]
  BY CoreInvInit, StoreFacts
<1>2. mutations = <<>> /\ Len(responses) + 1 = 1
  BY EmptySeq DEF Init
<1> QED
  BY <1>1, <1>2 DEF AbstractOutbox!Init, Store

(* A save or a deletion puts a mutation in the queue. *)
LEMMA OutboxPut ==
  ASSUME CoreInv, NEW type \in {"set", "patch", "delete"}, NEW d \in DocIds,
         WriteMutations(type, d)
  PROVE  AbstractOutbox!Put
<1>1. NewMutation(type, d) \in Mutation /\ mutations' = Append(mutations, NewMutation(type, d))
  BY WriteMutationsFacts
<1>2. UNCHANGED <<log, responses>>
  BY DEF WriteMutations
<1>3. Store' = Store
  BY <1>2 DEF Store, Backend, LastCommit, CommitsOf
<1> QED
  BY <1>1, <1>2, <1>3 DEF AbstractOutbox!Put, Store

(* A commit or a refusal handles one write of the outbox. *)
LEMMA OutboxHandle ==
  ASSUME CoreInv, BackendHandles
  PROVE  AbstractOutbox!Handle
<1> DEFINE m == Head(requests)
           n == Len(responses) + 1
<1>1. requests # <<>> /\ ~ Ended /\ mutations' = mutations
  BY DEF BackendHandles, BackendCommits, BackendRefuses
<1>2. n \in 1 .. Len(mutations) /\ m = mutations[n] /\ m \in Mutation
  BY <1>1, HeadOfRequests
<1>3. Len(responses) \in Nat /\ responses \in Seq(Response) /\ Len(mutations) \in Nat
  BY LenZero DEF CoreInv, WriteTypes
<1>4. m.id \in DocIds
  BY <1>2, MutationType
<1>5. Store[m.id] = Backend(m.id, Len(log))
  BY <1>4, StoreFacts
<1>6. CASE BackendCommits
  <2>1. IsValidFor(m, Store[m.id])
    BY <1>5, <1>6 DEF BackendCommits
  <2>2. CommitOf(m) \in Commit /\ log' = Append(log, CommitOf(m))
    BY <1>6, BackendCommitsFacts
  <2>3. Store' = [Store EXCEPT ![m.id] = TextOf(m)]
    BY <2>2, StoreCommit DEF CommitOf
  <2>4. PICK r \in Response : responses' = Append(responses, r)
    <3> DEFINE r == [batch |-> m.batch, version |-> Len(log) + 1]
    <3>1. responses' = Append(responses, r) /\ Len(log) \in Nat
      BY <1>6, BackendCommitsFacts
    <3>2. r \in Response
      BY <1>2, <3>1, MutationType DEF Response
    <3> QED
      BY <3>1, <3>2
  <2>5. Len(responses') + 1 = n + 1
    BY <1>3, <2>4
  <2> HIDE DEF m, n
  <2>6. /\ n <= Len(mutations)
        /\ Store' = IF IsValidFor(m, Store[m.id]) THEN [Store EXCEPT ![m.id] = TextOf(m)] ELSE Store
    BY <1>2, <1>3, <2>1, <2>3
  <2> QED
    BY <1>1, <1>2, <2>5, <2>6 DEF AbstractOutbox!Handle, Store, n
<1>7. CASE BackendRefuses
  <2>1. ~ IsValidFor(m, Store[m.id]) /\ log' = log
    BY <1>5, <1>7 DEF BackendRefuses, backendVars
  <2>3. Store' = Store
    BY <2>1, StoreIs
  <2>4. PICK r \in Response : responses' = Append(responses, r)
    BY <1>2, <1>7, MutationType DEF BackendRefuses, Response, NotFound
  <2>5. Len(responses') + 1 = n + 1
    BY <1>3, <2>4
  <2> HIDE DEF m, n
  <2>6. /\ n <= Len(mutations)
        /\ Store' = IF IsValidFor(m, Store[m.id]) THEN [Store EXCEPT ![m.id] = TextOf(m)] ELSE Store
    BY <1>2, <1>3, <2>1, <2>3
  <2> QED
    BY <1>1, <1>2, <2>5, <2>6 DEF AbstractOutbox!Handle, Store, n
<1> QED
  BY <1>6, <1>7 DEF BackendHandles

(* An answer confirms the first write of the outbox. *)
LEMMA OutboxConfirm ==
  ASSUME CoreInv, OnWriteStreamMutationResult \/ HandleWriteError
  PROVE  AbstractOutbox!Confirm
<1>1. /\ responses # <<>> /\ mutations' = Tail(mutations) /\ UNCHANGED log
      /\ responses' = Tail(responses) \/ (responses' = <<>> /\ Len(responses) = 1)
  <2>1. CASE OnWriteStreamMutationResult
    BY <2>1, MutationResultFacts
  <2>2. CASE HandleWriteError
    BY <2>2, WriteErrorFacts
  <2> QED
    BY <2>1, <2>2
<1>2. Len(responses) \in Nat \ {0} /\ mutations # <<>>
  BY <1>1, FrontFacts
<1>3. Len(responses') = Len(responses) - 1
  <2>1. CASE responses' = Tail(responses)
    BY <1>1, <2>1, AnswersTail
  <2>2. CASE responses' = <<>> /\ Len(responses) = 1
    BY <2>2
  <2> QED
    BY <1>1, <2>1, <2>2
<1>4. Store' = Store
  BY <1>1 DEF Store, Backend, LastCommit, CommitsOf
<1> QED
  BY <1>1, <1>2, <1>3, <1>4 DEF AbstractOutbox!Confirm, Store

(***************************************************************************)
(* A broken stream, a restart, a sign out and a sign in forget what was    *)
(* handled.                                                                *)
(***************************************************************************)
LEMMA OutboxBreak ==
  ASSUME OnWriteStreamClose \/ Restart \/ SignOut \/ SignIn
  PROVE  AbstractOutbox!Break
<1>1. responses' = <<>> /\ UNCHANGED <<log, mutations>>
  BY DEF OnWriteStreamClose, Restart, SignOut, SignIn, RestartStreams, LoseStream, backendVars
<1>2. Len(responses') + 1 = 1
  BY <1>1, EmptySeq
<1>3. Store' = Store
  BY <1>1 DEF Store, Backend, LastCommit, CommitsOf
<1> QED
  BY <1>1, <1>2, <1>3 DEF AbstractOutbox!Break, Store

(* Another device writes to the store. *)
LEMMA OutboxInterfere ==
  ASSUME CoreInv, NEW d \in DocIds, NEW delete \in BOOLEAN, OtherDevice(d, delete)
  PROVE  AbstractOutbox!Interfere
<1>1. PICK text \in Text :
        LET c == [id |-> d, entry |-> text, batch |-> 0] IN c \in Commit /\ log' = Append(log, c)
  BY OtherDeviceFacts
<1>2. Store' = [Store EXCEPT ![d] = text]
  BY <1>1, StoreCommit
<1>3. UNCHANGED <<mutations, responses>>
  BY DEF OtherDevice, streamVars
<1> QED
  BY <1>2, <1>3 DEF AbstractOutbox!Interfere, Store

(* What does not touch log, queue or answers is not seen. *)
LEMMA OutboxStutter ==
  ASSUME UNCHANGED <<log, mutations, responses>>
  PROVE  UNCHANGED AbstractOutbox!vars
<1>1. Store' = Store
  BY DEF Store, Backend, LastCommit, CommitsOf
<1> QED
  BY <1>1 DEF AbstractOutbox!vars, Store

(* Every step is a step of the outbox, or none. *)
LEMMA OutboxStep ==
  ASSUME BaseInv, [Next]_vars
  PROVE  [AbstractOutbox!Next]_AbstractOutbox!vars
<1>0. CoreInv
  BY DEF BaseInv
<1> USE DEF AbstractOutbox!Next
<1>1. ASSUME NEW d \in DocIds, SaveNew(d) \/ SaveEdited(d) \/ DeleteJournal(d)
      PROVE  AbstractOutbox!Next
  <2>1. \E type \in {"set", "patch", "delete"} : WriteMutations(type, d)
    BY <1>1 DEF SaveNew, SaveEdited, DeleteJournal
  <2> QED
    BY <1>0, <2>1, OutboxPut
<1>2. ASSUME OnWriteStreamHandshakeComplete PROVE UNCHANGED AbstractOutbox!vars
  BY <1>2, OutboxStutter DEF OnWriteStreamHandshakeComplete, backendVars
<1>3. ASSUME OnWriteStreamMutationResult \/ HandleWriteError PROVE AbstractOutbox!Next
  BY <1>0, <1>3, OutboxConfirm
<1>4. ASSUME BackendHandles PROVE AbstractOutbox!Next
  BY <1>0, <1>4, OutboxHandle
<1>5. ASSUME OnWriteStreamClose \/ Restart \/ SignOut \/ SignIn PROVE AbstractOutbox!Next
  BY <1>5, OutboxBreak
<1>6. ASSUME NEW v, WatchSnapshot(v) \/ WatchListing(v)
      PROVE  UNCHANGED AbstractOutbox!vars
  BY <1>6, OutboxStutter
     DEF WatchSnapshot, WatchListing, RaiseWatchSnapshot, ApplyRemoteEvent, backendVars, streamVars
<1>7. ASSUME NEW d, ResolveLimbo(d)
      PROVE  UNCHANGED AbstractOutbox!vars
  BY <1>7, OutboxStutter DEF ResolveLimbo, ApplyRemoteEvent, backendVars, streamVars
<1>8. ASSUME GoOffline PROVE UNCHANGED AbstractOutbox!vars
  BY <1>8, OutboxStutter DEF GoOffline, backendVars, streamVars
<1>9. ASSUME NEW d \in DocIds, NEW delete \in BOOLEAN, OtherDevice(d, delete)
      PROVE  AbstractOutbox!Next
  BY <1>0, <1>9, OutboxInterfere
<1>10. ASSUME UNCHANGED vars PROVE UNCHANGED AbstractOutbox!vars
  BY <1>10, OutboxStutter DEF vars, backendVars, streamVars
<1> USE DEF WriteStream
<1> HIDE DEF AbstractOutbox!Next
<1> QED
  BY <1>1, <1>2, <1>3, <1>4, <1>5, <1>6, <1>7, <1>8, <1>9, <1>10 DEF Next

(***************************************************************************)
(* Mutation queue, write pipeline, stream and backend implement an outbox: *)
(* writes are handled first in, first out, confirmed in the same order,    *)
(* and after a break handled again from the front, for every set of        *)
(* documents and every bound.                                              *)
(***************************************************************************)
THEOREM SyncImplementsOutbox == Spec => ImplementsOutbox
<1>1. BaseInv /\ [Next]_vars => [AbstractOutbox!Next]_AbstractOutbox!vars
  BY OutboxStep
<1> QED
  BY <1>1, OutboxInit, BaseInvAlways, PTL DEF Spec, ImplementsOutbox, AbstractOutbox!Spec

=============================================================================
