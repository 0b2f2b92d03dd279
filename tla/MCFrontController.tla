------------------------- MODULE MCFrontController -------------------------
(* Both orders of the filters and both providers, each once. *)
EXTENDS FrontController

MCSetups ==
    {[before |-> <<"session", "auth", "handler">>, provider |-> "redis"],
     [before |-> <<"auth", "session", "handler">>, provider |-> "memory"]}
=============================================================================
