--------------------------- MODULE FirestoreView ---------------------------
(***************************************************************************)
(* The query view that Firestore (Pods/FirebaseFirestore) keeps for the    *)
(* query of getData: the documents of user/<uid>/journals ordered by       *)
(* "date", ascending.  This module has no state.  It says which document   *)
(* changes a ViewSnapshot carries when the view moves from one set of      *)
(* documents to another, in which order, and when a QueryListener raises   *)
(* its first event.                                                        *)
(*                                                                         *)
(* Document ids are numbers because the comparator of a query breaks ties  *)
(* of "date" by document key.                                              *)
(***************************************************************************)
EXTENDS Integers, Sequences, FiniteSets

CONSTANTS
  DocIds,      \* the document ids of the journals collection
  Entries,     \* the field values [title, description, date] of a document
  NoDocument   \* what the view holds for an id that is not in it

ASSUME DocIdsAssumption == DocIds \subseteq Nat /\ IsFiniteSet(DocIds)
ASSUME EntriesAssumption ==
  \A e \in Entries : /\ {"title", "description", "date"} \subseteq DOMAIN e
                     /\ e.date \in Nat
ASSUME NoDocumentAssumption == NoDocument \notin Entries

(* View.document_set_: what the view holds for every id. *)
DocumentSet == [DocIds -> Entries \cup {NoDocument}]

EmptyDocumentSet == [d \in DocIds |-> NoDocument]

Keys(docs) == {d \in DocIds : docs[d] # NoDocument}

(***************************************************************************)
(* A DocumentViewChange.  A removed document is reported with its old      *)
(* fields.                                                                 *)
(***************************************************************************)
Change == [type : {"added", "modified", "removed"},
           id   : DocIds,
           doc  : Entries]

Removed(old, new) ==
  {[type |-> "removed", id |-> d, doc |-> old[d]] : d \in Keys(old) \ Keys(new)}

Added(old, new) ==
  {[type |-> "added", id |-> d, doc |-> new[d]] : d \in Keys(new) \ Keys(old)}

Modified(old, new) ==
  {[type |-> "modified", id |-> d, doc |-> new[d]] :
      d \in {k \in Keys(old) \cap Keys(new) : old[k] # new[k]}}

(***************************************************************************)
(* View::ComputeDocumentChanges.  Changes of metadata only are left out:   *)
(* getData listens without them and QueryListener strips them.             *)
(***************************************************************************)
DocumentChanges(old, new) ==
  Removed(old, new) \cup Added(old, new) \cup Modified(old, new)

(* GetDocumentViewChangeTypePosition *)
TypePosition == [removed |-> 0, added |-> 1, modified |-> 2]

(***************************************************************************)
(* The comparator of the query, "date" and then key, and the order         *)
(* View::ApplyChanges sorts the changes in: by type, then by the query.    *)
(***************************************************************************)
QueryBefore(c1, c2) ==
  \/ c1.doc.date < c2.doc.date
  \/ c1.doc.date = c2.doc.date /\ c1.id < c2.id

ChangeBefore(c1, c2) ==
  \/ TypePosition[c1.type] < TypePosition[c2.type]
  \/ TypePosition[c1.type] = TypePosition[c2.type] /\ QueryBefore(c1, c2)

(***************************************************************************)
(* The listings of a set of changes in that order.  The order is total on  *)
(* the changes between two document sets, so there is exactly one.         *)
(***************************************************************************)
SortedChanges(old, new) ==
  LET S == DocumentChanges(old, new) IN
  {s \in [1 .. Cardinality(S) -> S] :
      /\ \A i, j \in DOMAIN s : i < j => ChangeBefore(s[i], s[j])
      /\ \A c \in S : \E i \in DOMAIN s : s[i] = c}

(* OnlineState *)
OnlineStates == {"Unknown", "Online", "Offline"}

(* Mutant: the client being offline does not count. *)
ShouldRaiseInitialEventOnline(docs, synced, online) ==
  synced \/ Keys(docs) # {}

(***************************************************************************)
(* QueryListener::ShouldRaiseInitialEvent, for the options of              *)
(* addSnapshotListener (wait_for_sync_when_online is false): an unsynced,  *)
(* empty result is withheld until the client knows it is offline.          *)
(***************************************************************************)
ShouldRaiseInitialEvent(docs, synced, online) ==
  synced \/ Keys(docs) # {} \/ online = "Offline"

=============================================================================
