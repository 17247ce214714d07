----------------------------- MODULE MCSession -----------------------------
(* Two interchangeable users. *)
EXTENDS Session, TLC

UserSymmetry == Permutations(Users)

=============================================================================
