SPECIFICATION Spec
CONSTANTS
  Lengths = {0, 1, 2, 3, 4, 5}
  Concurrencies = {0, 1, 2, 3}
INVARIANTS
  Window
PROPERTIES
  Reports
  EvenDrains
CHECK_DEADLOCK FALSE
