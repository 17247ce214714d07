------------------------------- MODULE Outbox -------------------------------
(***************************************************************************)
(* What the write path promises, without streams, pipelines or sign-outs:  *)
(* a store of documents that other devices change too, and an outbox of    *)
(* this device's operations.  The operations reach the store one after the *)
(* other, from the front of the outbox.  Only the front leaves the outbox, *)
(* and only when the store has handled it since the last break; after a    *)
(* break the store handles the outbox from its front again.                *)
(***************************************************************************)
EXTENDS Integers, Sequences

CONSTANTS
  DocIds, NoDocument,
  Texts,            \* what a document can hold
  Operations,
  Accepts(_, _),    \* does the store accept an operation for a text?
  Result(_)         \* the text an operation leaves

VARIABLES
  store,            \* [DocIds -> Texts]
  outbox,
  next              \* the operation of the outbox that the store handles next

vars == <<store, outbox, next>>

Init ==
  /\ store \in [DocIds -> Texts]
  /\ outbox = <<>>
  /\ next = 1

(* A new operation is queued. *)
Put ==
  /\ \E m \in Operations : outbox' = Append(outbox, m)
  /\ UNCHANGED <<store, next>>

(* The store handles an operation: accepted or not, it is the next one's turn. *)
Handle ==
  /\ next <= Len(outbox)
  /\ LET m == outbox[next] IN
     store' = IF Accepts(m, store[m.id]) THEN [store EXCEPT ![m.id] = Result(m)]
                                         ELSE store
  /\ next' = next + 1
  /\ UNCHANGED outbox

(* The device learns that the front was handled. *)
Confirm ==
  /\ next > 1 /\ outbox # <<>>
  /\ outbox' = Tail(outbox)
  /\ next' = next - 1
  /\ UNCHANGED store

(* The device cannot know how far the store came. *)
Break ==
  /\ next' = 1
  /\ UNCHANGED <<store, outbox>>

(* Another device changes a document. *)
Interfere ==
  /\ \E d \in DocIds, t \in Texts : store' = [store EXCEPT ![d] = t]
  /\ UNCHANGED <<outbox, next>>

Next == Put \/ Handle \/ Confirm \/ Break \/ Interfere

Spec == Init /\ [][Next]_vars

=============================================================================
