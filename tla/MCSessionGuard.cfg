SPECIFICATION Spec
CONSTANTS
  a = a  b = b  c = c  x = x  y = y
  Guis <- Windows2
  Clis <- CliPair
  Chances <- Faults
INVARIANTS
  TypeOK Defended GivenBack Recorded
SYMMETRY Alike
CHECK_DEADLOCK FALSE
