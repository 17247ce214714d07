--------------------------- MODULE MCJournalFeed ---------------------------
(***************************************************************************)
(* Small instances of JournalFeed: two entries that differ in every field *)
(* (a new title, text and date), or one.                                   *)
(***************************************************************************)
EXTENDS JournalFeed

CONSTANTS t1, t2, d1, d2

MCEntries == {[title |-> t1, description |-> d1, date |-> 60],
              [title |-> t2, description |-> d2, date |-> 125]}

MCOneEntry == {[title |-> t1, description |-> d1, date |-> 60]}

=============================================================================
