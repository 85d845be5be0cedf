CONSTANTS
  find1 = find1  find2 = find2  select = select  update = update  a = a  b = b
  Ops <- AllOps
  Kind <- AllKinds
  Shape <- AllShapes
  Holes <- OneHole
  Limited = {"F"}
  Values <- TwoValues
  Unbound = Unbound
  Limits = {1, 2}
  Int32Max = 1
  MaxId = 2
  MaxArgs = 2
  Sessions <- RecycledSession
SPECIFICATION Spec
SYMMETRY Symmetry
PROPERTY ExecuteGivesResult
CHECK_DEADLOCK FALSE
