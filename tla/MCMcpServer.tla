----------------------------- MODULE MCMcpServer -----------------------------
(* McpServer for model checking: the configuration gives the number of lines. *)
EXTENDS McpServer
==============================================================================
