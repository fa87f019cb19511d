SPECIFICATION Spec
CONSTANTS
  a = a
  b = b
  p1 = p1
  p2 = p2
  p3 = p3
  s1 = s1
  s2 = s2
  Sources = {a}
  DstPorts = {p1, p2, p3}
  Switches = {s1, s2}
  Limit = 2
  Window = 1
  BlockTime = 2
SYMMETRY Symmetric
INVARIANTS
  ScanDetected
