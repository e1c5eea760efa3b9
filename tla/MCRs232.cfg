CONSTANTS
  Procs = {p1, p2}
  Calls <- AllCalls
  Divisors = {24, 384}
  WordLengths = {3}
  FifoSize = 1
  MaxSize = 2
  MaxCalls = 4
  MaxBytes = 2
  Char = 65
CHECK_DEADLOCK FALSE
SPECIFICATION Spec
INVARIANTS DivisorKept NoJunk WriterOrder ByteOnce
SYMMETRY ProcSymmetry
