---------------------------- MODULE JournalOrder ----------------------------
(***************************************************************************)
(* JournalFeed against two yardsticks: an abstract copy of the query's     *)
(* result, and the list a fresh getData object would build.                *)
(***************************************************************************)
EXTENDS JournalFeed

VARIABLE disturbed   \* history: the closure has handled a change that the
                     \* patching of the list does not do justice to

orderVars == <<vars, disturbed>>

(* A new journal that the query puts before one that is in the list already. *)
AddsOutOfOrder ==
  /\ NextChange("added")
  /\ \E d \in Keys(Reflected) :
       QueryBefore(Head(todo), [id |-> d, doc |-> Reflected[d]])

(* A modification with a new date, as every Save of EditView makes it. *)
ChangesDate ==
  NextChange("modified") /\ Head(todo).doc.date # shown[Head(todo).id].date

OrderInit == Init /\ disturbed = FALSE

OrderNext == Next /\ disturbed' = (disturbed \/ AddsOutOfOrder \/ ChangesDate)

OrderSpec == OrderInit /\ [][OrderNext]_orderVars

(* The journals a fresh getData makes of the documents. *)
FreshLists(documents) ==
  {[i \in DOMAIN s |-> Journal(s[i].id, s[i].doc)] :
      s \in SortedChanges(EmptyDocumentSet, documents)}

(***************************************************************************)
(* The list has the order and the dates a fresh getData would show, over   *)
(* any batching of additions, modifications and removals, unless a journal *)
(* was added out of order or a modification changed its date: the branch   *)
(* for modifications copies title and description only and leaves the      *)
(* journal where it is, and the branch for additions always appends.       *)
(***************************************************************************)
FreshUnlessDisturbed ==
  ~ running /\ ~ dropped /\ ~ disturbed => datas \in FreshLists(shown)

-----------------------------------------------------------------------------
(* The refinement. *)

(* What a user sees of a document, leaving its date aside. *)
TextsOf(documents) ==
  [d \in DocIds |->
     IF documents[d] = NoDocument THEN NoDocument
     ELSE [title |-> documents[d].title, description |-> documents[d].description]]

(* The same, read off the list. *)
TextsShown(list) ==
  [d \in DocIds |->
     IF d \notin Ids(list) THEN NoDocument
     ELSE LET i == CHOOSE i \in DOMAIN list : list[i].id = d IN
          [title |-> list[i].title, description |-> list[i].description]]

(* The results of the query in the events; an error is the last of them. *)
ResultsIn(events) ==
  LET n == IF events # <<>> /\ events[Len(events)].err THEN Len(events) - 1
                                                       ELSE Len(events)
  IN  [i \in 1 .. n |-> events[i].documents]

(* The results of the query that the closure has not finished with. *)
InTransit == (IF running THEN <<target>> ELSE <<>>) \o ResultsIn(queue)

(* Until a call of the closure returns, the copy is what the call before left. *)
ListCopy == IF running THEN TextsOf(shown) ELSE TextsShown(datas)

ListeningState ==
  [none |-> "no", waiting |-> "no", raised |-> "yes", removed |-> "ended"][listener]

Copy == INSTANCE LaggingCopy WITH
  Contents  <- DocumentSet,
  Empty     <- EmptyDocumentSet,
  Face      <- TextsOf,
  source    <- docs,
  transit   <- InTransit,
  copy      <- ListCopy,
  listening <- ListeningState,
  lost      <- dropped

(***************************************************************************)
(* The view, the events on the main queue and the loop over the document   *)
(* changes implement a lagging copy: when a call of the closure returns,   *)
(* the list has moved from one result of the query to the next, and no     *)
(* result was skipped.                                                     *)
(***************************************************************************)
ImplementsLaggingCopy == Copy!Spec

=============================================================================
