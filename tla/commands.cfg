\* Calls, commands and their audit rows with timeouts, resends and a process that dies.
SPECIFICATION FairSpec
CONSTANTS
  None = None
  krk = krk
  sim = sim
  shown = shown
  p1 = p1
  Servers = {krk, sim, shown}
  Clients <- MCClients
  ServerOf <- MCServerOf
  Requests <- MCRequests
  ClientOf <- MCClientOf
  Op <- MCOp
  ATTEMPTS = 2
  Together <- MCTogether
  MaxSurprises = 1
  Processes = {p1}
  ProcessOf <- MCProcessOf
  Marinas = {"own", "demo"}
  MarinaOf <- MCMarinaOf
  Simulated = {sim}
INVARIANTS
  TypeOK
  Audited
  OutcomeTruthful
  BoundedResends
  AnswersAreOwn
PROPERTY
  Ends
CHECK_DEADLOCK FALSE
