SPECIFICATION Spec
CONSTANTS
  Types <- PlainTypes
  depth <- DepthOf
  Values <- ValuesOf
  Items <- PlainItems
  Names = {m1}
  Functions <- PlainFunctions
  Void = Void
  None = None
  Empty = Empty
  MaxPending = 3
  MaxResults = 2
CHECK_DEADLOCK FALSE
INVARIANTS
  BytesAreValues
PROPERTIES
  ImplementsCalls
