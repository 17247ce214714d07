-------------------------- MODULE SessionListeners --------------------------
(***************************************************************************)
(* The snapshot listeners of a process.  `@ObservedObject var data =       *)
(* getData()` makes a getData, and its init a listener, for every          *)
(* JournalList value, that is, for every evaluation of Authenticate.body   *)
(* while status is true.  Nothing removes a listener: those of the         *)
(* evaluations before, and of users who have signed out, stay until the    *)
(* process ends.                                                           *)
(***************************************************************************)
EXTENDS Session

CONSTANT MaxEntries   \* bound: entries into the journal list in one process

ASSUME EntriesAssumption == MaxEntries \in Nat

VARIABLES
  listeners,    \* whose journals the listeners of this process follow, oldest first
  (* History variable. *)
  entries       \* how often status has become true in this process

listenerVars == <<vars, listeners, entries>>

(* Mutant: data is made by the body of JournalList, at every touch. *)
MakesGetDataInBody == rendered' /\ status' /\ main' # "dead"

(* Authenticate.body is evaluated and shows JournalList. *)
MakesGetData == ~ rendered /\ rendered' /\ status'

Enters == ~ status /\ status'

ListenersInit ==
  /\ Init
  /\ listeners = <<>>
  /\ entries = 0

ListenersNext ==
  /\ Next
  /\ Enters => entries < MaxEntries
  /\ MakesGetData => Len(listeners) < MaxEntries + 1
  /\ listeners' = IF main' = "dead" THEN <<>>
                  ELSE IF MakesGetData THEN Append(listeners, list')
                  ELSE listeners
  /\ entries' = IF main' = "dead" THEN 0 ELSE IF Enters THEN entries + 1 ELSE entries

ListenersSpec == ListenersInit /\ [][ListenersNext]_listenerVars

(***************************************************************************)
(* One listener per entry: a process has no more listeners than times      *)
(* somebody got into the journal list, and while a list is on the screen   *)
(* the newest listener is the one of its user, unless requests overlapped  *)
(* (then a late answer evaluates Authenticate.body again while the list is *)
(* shown, and the list that is shown starts anew).                         *)
(***************************************************************************)
ListenerPerEntry ==
  ~ overlapped =>
    /\ Len(listeners) <= entries
    /\ main = "idle" /\ rendered /\ status =>
         Len(listeners) = entries /\ entries > 0 /\ listeners[entries] = list

=============================================================================
