---------------------------- MODULE MCMessages ----------------------------
(* An instance of Messages for TLC. *)
EXTENDS Messages
=============================================================================
