CONSTANTS
  x = x  y = y  v = v  w = w
  Names = {x, y}
  Values = {v, w}
  Unbound = Unbound
  Limit = Limit
  Docs = {d, e, Empty, Broken}
  Noops = {Empty}
  Bad = {Broken}
  Kinds <- AllKinds
  Exprs <- MCExprs
  ListExprs <- MCListExprs
  MayRepeat = FALSE
  MaxClauses = 3
  MaxRows = 8
SPECIFICATION Spec
SYMMETRY Symmetry
CHECK_DEADLOCK FALSE
INVARIANTS TypeOK SentAsGiven
PROPERTY UsableWhenBound
