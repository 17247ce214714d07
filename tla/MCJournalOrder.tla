--------------------------- MODULE MCJournalOrder ---------------------------
(***************************************************************************)
(* Entries that differ in their texts only, so that journals are modified  *)
(* without a new date.                                                     *)
(***************************************************************************)
EXTENDS JournalOrder

CONSTANTS t1, t2, d1, d2

MCSameDate == {[title |-> t1, description |-> d1, date |-> 60],
               [title |-> t2, description |-> d2, date |-> 60]}

=============================================================================
