SPECIFICATION FairVectorSpec
CONSTANTS
  Elem = {a, b}
  Batches <- MCBatches
  Indices <- MCIndices
  VECTOR_INITIAL_ARR_SIZE = 3
  PointerSize = 2
  MaxInt = 15
  Uninit = Uninit
  NULL = NULL
INVARIANTS
  VectorTypeOK
  InsideItsBlock
PROPERTIES
  ImplementsList
  CallsReturn
CHECK_DEADLOCK FALSE
