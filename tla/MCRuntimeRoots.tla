--------------------------- MODULE MCRuntimeRoots ---------------------------
(***************************************************************************)
(* RuntimeRoots for TLC: a root per kind. The configuration leaves blk out:*)
(* run and spawn differ only in who waits for the root's flag.             *)
(***************************************************************************)
EXTENDS RuntimeRoots

CONSTANTS own, blk, host, thr

MCKindOf ==
    [r \in Roots |-> CASE r = own -> "spawn" [] r = blk -> "run"
                       [] r = host -> "enter_host" [] OTHER -> "enter_thread"]

=============================================================================
