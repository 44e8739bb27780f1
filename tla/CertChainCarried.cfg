\* The carried intermediates' purpose, against a vendored one of the same name.
SPECIFICATION ChainSpec
CHECK_DEADLOCK FALSE
CONSTANTS
  CaNames = {i, j}
  VendoredName = i
  RootName = root
  CaKeys = {k1, k2}
  VendoredKey = k1
  RootKey = k0
  Junk = junk
  MaxCarried = 2
  MaxWalk = 8
INVARIANT
  CarriedIntermediateHelps
