---------------------------- MODULE MCClientToken ----------------------------
(* Instances of ClientToken for TLC.                                       *)
EXTENDS ClientToken
==============================================================================
