--------------------------- MODULE MCJournalSync ---------------------------
(* Two journals, of which the backend has one. *)
EXTENDS JournalSync

=============================================================================
