----------------------------- MODULE MCRunLoop -----------------------------
(* Two middlewares, three steps, a budget a single expensive turn exceeds. *)
EXTENDS RunLoop
=============================================================================
