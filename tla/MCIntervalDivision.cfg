CONSTANTS
  Numerators <- MCNumerators
  Divisors <- MCDivisors
  MaxCount = 40
SPECIFICATION Spec
INVARIANTS
  Correct
  SearchBounds
  LogarithmicCost
PROPERTY Termination
\* the procedure returns
CHECK_DEADLOCK FALSE
