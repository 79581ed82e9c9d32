-------------------------- MODULE MCMessengerUpdate --------------------------
(* A small instance of MessengerUpdate for TLC. *)
EXTENDS MessengerUpdate, TLC
=============================================================================
