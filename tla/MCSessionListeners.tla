------------------------- MODULE MCSessionListeners -------------------------
(* Two interchangeable users. *)
EXTENDS SessionListeners, TLC

UserSymmetry == Permutations(Users)

=============================================================================
