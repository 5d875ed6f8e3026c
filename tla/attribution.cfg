\* Expected to fail: the whole gap between two readings goes to the session.
SPECIFICATION ASpec
CONSTANTS
  None = None
  q1 = q1
  Outlets = {q1}
  Simulated = {}
  Sessions = {1}
  OutletOf <- MCOutletOf
  Window = 0
  Chunk = 1
  MaxTime = 3
  MaxUsed <- MCMaxUsed
  MaxSwaps <- MCMaxSwaps
PROPERTY
  AttributedOnlyWhenActive
