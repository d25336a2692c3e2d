SPECIFICATION TokenSpec
CONSTANTS
  alice = alice
  bob = bob
  good = good
  bad = bad
  mended = mended
  set = set
  unset = unset
  Nothing = Nothing
  Keys <- TwoKeys
  Texts <- ThreeTexts
  BadTexts <- OneBadText
  Replaced = mended
  Bodies <- TwoBodies
  ZeroBody = unset
  MaxSigned = 2
SYMMETRY Symmetry
INVARIANTS
  
  AcceptedWasSigned
  
