--------------------------- MODULE MCOffloadPool ----------------------------
(***************************************************************************)
(* OffloadPool for TLC: three callers with the three kinds of home, and    *)
(* fewer workers than jobs.                                                *)
(***************************************************************************)
EXTENDS OffloadPool, TLC

CONSTANTS j1, j2, j3, w1, w2

MCHome == (j1 :> "strand") @@ (j2 :> "host") @@ (j3 :> "none")

=============================================================================
