-------------------------- MODULE MCClientConfig --------------------------
(* An instance of ClientConfig for TLC. *)
EXTENDS ClientConfig
=============================================================================
