----------------------------- MODULE LaggingCopy -----------------------------
(***************************************************************************)
(* What a snapshot listener promises, without events, changes or loops: a  *)
(* copy that follows a source.  Once it listens, every new content of the  *)
(* source is put in transit, in order and none left out, and the copy      *)
(* takes the contents in transit one by one.  No promise is made once      *)
(* something was lost.                                                     *)
(***************************************************************************)
EXTENDS Sequences

CONSTANTS
  Contents,     \* what the source can hold
  Empty,        \* what the copy starts from
  Face(_)       \* what a copy shows of a content

VARIABLES source, transit, copy, listening, lost

vars == <<source, transit, copy, listening, lost>>

Init ==
  /\ source \in Contents
  /\ transit = <<>>
  /\ copy = Face(Empty)
  /\ listening = "no"
  /\ lost = FALSE

(* The first content is put in transit. *)
Start ==
  /\ listening = "no"
  /\ listening' = "yes"
  /\ source' \in Contents
  /\ transit' = <<source'>>
  /\ UNCHANGED <<copy, lost>>

(* The source changes; a copy that listens will hear of it. *)
Change ==
  /\ source' \in Contents \ {source}
  /\ transit' = IF listening = "yes" THEN Append(transit, source') ELSE transit
  /\ UNCHANGED <<copy, listening, lost>>

(* The copy takes the next content. *)
Show ==
  /\ transit # <<>>
  /\ copy' = Face(Head(transit))
  /\ transit' = Tail(transit)
  /\ UNCHANGED <<source, listening, lost>>

(* The source does not serve the copy any more. *)
End ==
  /\ listening' = "ended"
  /\ UNCHANGED <<source, transit, copy, lost>>

Next == Start \/ Change \/ Show \/ End \/ lost'

Spec == Init /\ [][Next]_vars

=============================================================================
