----------------------------- MODULE MCAuthStore -----------------------------
(* AuthStore for model checking: the configuration gives the callers, profiles and credentials. *)
EXTENDS AuthStore
==============================================================================
