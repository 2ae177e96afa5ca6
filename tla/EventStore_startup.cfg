\* Two processes; is the mirror right once a process has started alone?
SPECIFICATION Spec
CONSTANTS
  p1 = p1
  p2 = p2
  a = a
  b = b
  sys = sys
  r1 = r1
  Proc = {p1, p2}
  RunOrder <- MCRunOrder
  System = sys
  Payload = {a, b}
  Warning = w
  Torn = torn
  Garbled = garbled
  MaxSeq = 2
  MaxLegacy = 0
SYMMETRY TwoSymmetry
PROPERTIES
  StartupRepairsMirror
CHECK_DEADLOCK FALSE
