---- MODULE MCTunnelManager ----
(* One tunnel: it is in tunnel.json, or a creation returns it. *)
EXTENDS TunnelManager
====
