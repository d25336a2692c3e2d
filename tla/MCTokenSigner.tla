---------------------------- MODULE MCTokenSigner ----------------------------
EXTENDS TokenSigner, TLC

CONSTANTS alice, bob, good, bad, mended, set, unset

TwoKeys == {alice, bob}
ThreeTexts == {good, bad, mended}
OneBadText == {bad}
TwoBodies == {set, unset}

Symmetry == Permutations(Keys)
=============================================================================
