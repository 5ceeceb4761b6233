---------------------------- MODULE MCTokenRefresh ----------------------------
(* Instances of TokenRefresh for TLC.  A credential lives for one unit of  *)
(* time: the short validity asks for more than none, the long one for more *)
(* than the whole lifetime, as the refresh route does when it asks for an  *)
(* hour of one-hour tokens.                                                *)
EXTENDS TokenRefresh
==============================================================================
