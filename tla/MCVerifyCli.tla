---------------------------- MODULE MCVerifyCli -----------------------------
EXTENDS VerifyCli, TLC

CONSTANTS a, b

TwoLeaves == {a, b}
TwoAdds == 1..2
ThreeAdds == 1..3

Symmetry == Permutations(TwoLeaves)
=============================================================================
