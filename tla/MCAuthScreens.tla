--------------------------- MODULE MCAuthScreens ---------------------------
(* Two addresses and two calls at a time. *)
EXTENDS AuthScreens

=============================================================================
