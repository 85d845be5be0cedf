CONSTANTS
  s1 = s1  s2 = s2
  Sessions <- TwoSessions
  ClockSeqs = {1, 2}
  MaxTime = 2
  MaxIds = 4
  MaxNodes = 4
SPECIFICATION Spec
SYMMETRY Symmetry
INVARIANTS IdsDiffer
