-------------------------- MODULE MCBackgroundJobs --------------------------
(***************************************************************************)
(* BackgroundJobs for TLC: owner o1 has two jobs under a ceiling of one    *)
(* and an at_most_once tool, owner o2 one job.                             *)
(***************************************************************************)
EXTENDS BackgroundJobs

CONSTANTS a, b, c, o1, o2, w1, w2

MCOwnerOf == [j \in Jobs |-> IF j = c THEN o2 ELSE o1]

MCCeiling == [o \in Owners |-> IF o = o1 THEN 1 ELSE 2]

=============================================================================
