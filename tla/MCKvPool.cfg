SPECIFICATION Spec
CONSTANTS
  h1 = h1
  h2 = h2
  h3 = h3
  NoHolder = NoHolder
  Holders <- MCHolders
  NumBlocks = 2
  BlockSize = 2
  MaxTokens = 4
SYMMETRY HolderSymmetry
INVARIANTS TypeOK RefcountExact FreeListExact AllOrNothing CapacityCovered
