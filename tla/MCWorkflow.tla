----------------------------- MODULE MCWorkflow -----------------------------
(***************************************************************************)
(* A start that fans out to a request port and a batchable node, which are *)
(* joined again.  The start's failure is propagated, the batchable node's  *)
(* reroutes to a recovery executor, any other fails the run.               *)
(***************************************************************************)
EXTENDS Workflow

GraphNodes == {"s", "p", "b", "j", "f"}
GraphKind == [n \in GraphNodes |-> CASE n = "p" -> "request_port"
                                     [] n = "b" -> "batch"
                                     [] OTHER -> "function"]
GraphDirect == {<<"s", n>> : n \in {"p", "b"}}
GraphFanIn == {<<n, "j">> : n \in {"p", "b"}}
GraphOnFailure == [n \in GraphNodes |-> CASE n = "s" -> "propagate"
                                          [] n = "b" -> "fallback"
                                          [] OTHER -> "fail"]
GraphFallback == [n \in GraphNodes |-> "f"]

=============================================================================
