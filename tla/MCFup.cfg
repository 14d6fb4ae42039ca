SPECIFICATION GridSpec
CONSTANTS
  Loads = {a, b}
  Stores = {"p", "q"}
  Shapes <- MCShapes
  Widths = {2}
  MaxNodes = 3
  MaxElements = 4
SYMMETRY LoadSymmetry
INVARIANTS GridTypeOK LabelsResolve Computes
\* A grid that has been optimized is done.
CHECK_DEADLOCK FALSE
