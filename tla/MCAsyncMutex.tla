---------------------------- MODULE MCAsyncMutex ----------------------------
(***************************************************************************)
(* AsyncMutex for TLC.  Roots r1, r2, r3 are woken in the four ways a      *)
(* waiter can be; c1 and c2 are tasks that others fork.                    *)
(***************************************************************************)
EXTENDS AsyncMutex, TLC

CONSTANTS r1, r2, r3, c1, c2

FamilyHomes == [t \in Tasks |-> IF t = r2 THEN "blockon" ELSE "strand"]

MixedHomes == (r1 :> "strand") @@ (r2 :> "host") @@ (r3 :> "none") @@ (c1 :> "strand")

=============================================================================
