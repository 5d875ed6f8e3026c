SPECIFICATION Spec
CONSTANTS
  None = None
  p1 = p1
  p2 = p2
  one = one
  Processes = {p1, p2}
  Servers = {one}
  CabinetsOf <- MCCabinetsOf
  ServerTasks <- MCServerTasks
  CabinetTasks <- MCCabinetTasks
  EVERY <- MCEVERY
  Simulated = {"sim"}
  Raises <- MCRaises
  MaxSurprises = 2
INVARIANT OneCollector
PROPERTIES EveryCabinetPolled SomebodyCollects
CHECK_DEADLOCK FALSE
