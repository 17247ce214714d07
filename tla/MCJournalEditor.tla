-------------------------- MODULE MCJournalEditor --------------------------
(* One text besides "", which a search for it finds. *)
EXTENDS JournalEditor, TLC

CONSTANT a

MCContains == {<<a, a>>}

IdSymmetry == Permutations(Ids)

=============================================================================
