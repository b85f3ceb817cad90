------------------------------ MODULE MCLanes -------------------------------
(***************************************************************************)
(* Lanes for TLC: two workers, two groups; group g1 has strands s1 (two    *)
(* continuations) and s2, group g2 has s3.                                 *)
(***************************************************************************)
EXTENDS Lanes, TLC

CONSTANTS g1, g2, s1, s2, s3, i1, i2, i3, i4, w1, w2

MCGroupOf == [s \in Strands |-> IF s = s3 THEN g2 ELSE g1]

MCStrandOf == [i \in Items |-> IF i \in {i1, i2} THEN s1 ELSE IF i = i3 THEN s2 ELSE s3]

=============================================================================
