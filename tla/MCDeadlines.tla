----------------------------- MODULE MCDeadlines -----------------------------
(* Deadlines for model checking: the configuration gives the timeouts, with a tick of twenty seconds. *)
EXTENDS Deadlines
==============================================================================
