SPECIFICATION Spec
CONSTANTS
  Cores = 3
  MaxTasks = 4
  Lens = {1, 5}
  UbOnceSize = 2
INVARIANTS
  NeverTooMuch
  CoresApart
  CompleteAtEnd
