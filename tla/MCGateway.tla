------------------------------ MODULE MCGateway ------------------------------
(* Gateway for model checking: the configuration gives the number of retries. *)
EXTENDS Gateway
==============================================================================
