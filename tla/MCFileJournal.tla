--------------------------- MODULE MCFileJournal ---------------------------
(***************************************************************************)
(* Two executors and two effects; the frame of the first key's records is  *)
(* two headers long and crosses a block, the other's is shorter.           *)
(***************************************************************************)
EXTENDS FileJournal, TLC

CONSTANTS k1, k2, w1, w2

MCKeys == {k1, k2}
MCRecords == [key : MCKeys, phase : {"intent", "outcome"}]
MCSizeOf(r) == IF r.key = k1 THEN 3 ELSE 1
Symmetric == Permutations(Writers)
=============================================================================
