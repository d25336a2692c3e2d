------------------------------ MODULE MCLogApi ------------------------------
(***************************************************************************)
(* LogApi on small instances.  Three requests are two submissions and one  *)
(* reader, or a submission between two readers; two leaves tell a          *)
(* duplicated submission from a new one.                                   *)
(***************************************************************************)
EXTENDS LogApi, TLC

CONSTANTS r1, r2, r3, x, y

ThreeRequests == {r1, r2, r3}
TwoRequests == {r1, r2}
TwoLeaves == {x, y}
OneLeaf == {x}

Symmetry == Permutations(Requests) \cup Permutations(Leaves)
=============================================================================
