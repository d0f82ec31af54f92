CONSTANTS
  Threads = {t1, t2, t3}
  Capacity = 2
SPECIFICATION BudgetSpec
INVARIANT
  Exact
PROPERTY
  Implements
