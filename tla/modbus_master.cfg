SPECIFICATION FairSpec
CONSTANTS
  Dev = {d1, d2}
  None = None
  SEM_MAX = 2
INVARIANTS TypeOK RegistersOwn ResultIsOwn ResourceConserved
PROPERTIES RequestReturns
