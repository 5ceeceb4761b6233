---------------------------- MODULE MCLoginSessions ----------------------------
(* Instances of LoginSessions for TLC.                                     *)
EXTENDS LoginSessions
==============================================================================
