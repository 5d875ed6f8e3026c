\* Two rows of one customer on one outlet: constraints refuse what was paired twice.
SPECIFICATION Spec
CONSTANTS
  None = None
  ca = ca
  cb = cb
  q1 = q1
  q2 = q2
  Sessions = {1, 2}
  CabSessions = {ca, cb}
  Customers = {7}
  Outlets = {q1, q2}
  Handlers = {h1}
  Pull = Pull
  Routes = {"range"}
  ErpInfo <- TwiceErpInfo
  CabInfo <- TwiceCabInfo
  Measure <- MCMeasure
  StartedFor <- MCStartedFor
  MaxRegister <- TwiceMaxRegister
INVARIANT
  CoveredIsReconciled
