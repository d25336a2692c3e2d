----------------------------- MODULE MCKeyFile -----------------------------
(* KeyFile on small instances: a start that generates the key, one or two  *)
(* that die on the way, and starts that come after them.                   *)
EXTENDS KeyFile, TLC

CONSTANTS s1, s2, s3, s4

TwoStarts == {s1, s2}
FourStarts == {s1, s2, s3, s4}

Symmetry == Permutations(Starts)
=============================================================================
