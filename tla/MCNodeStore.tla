---- MODULE MCNodeStore ----
(* One skill, one file of rules and one MCP server. *)
EXTENDS NodeStore
====
