CONSTANTS
  x = x  y = y  v = v  w = w
  Names = {x, y}
  Values = {v, w}
  Unbound = Unbound
  Limit = Limit
  Docs = {d, e, Empty, Broken}
  Noops = {Empty}
  Bad = {Broken}
  Kinds = {"modify"}
  Exprs <- RepeatExprs
  ListExprs <- MCListExprs
  MayRepeat = TRUE
  MaxClauses = 3
  MaxRows = 8
SPECIFICATION Spec
CHECK_DEADLOCK FALSE
INVARIANT SentAsGiven
