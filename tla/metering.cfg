\* Readings, meter swaps and retention of a metered and of a demo outlet.
SPECIFICATION Spec
CONSTANTS
  None = None
  q1 = q1
  sim = sim
  Outlets = {q1, sim}
  Simulated = {sim}
  Sessions = {1}
  OutletOf <- MCOutletOf
  Window = 0
  Chunk = 1
  MaxTime = 3
  MaxUsed <- MCMaxUsed
  MaxSwaps <- MCMaxSwaps
INVARIANTS
  EverythingCounted
  IntervalsDisjoint
  IdleIsOneRow
