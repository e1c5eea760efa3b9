CONSTANTS
  Procs = {p1, p2}
  Default = 3
  Sizes = {1, 2, 3}
  MaxCalls = 4
CHECK_DEADLOCK FALSE
SPECIFICATION Spec
INVARIANTS PresentData GivesBack StrayNeedsClash
SYMMETRY ProcSymmetry
