\* The pull and one web worker; the cabinet changes from one contract to the other.
SPECIFICATION Spec
CONSTANTS
  None = None
  ca = ca
  cb = cb
  q1 = q1
  q2 = q2
  Sessions = {1, 2}
  CabSessions = {ca, cb}
  Customers = {7}
  Outlets = {q1, q2}
  Handlers = {h1}
  Pull = Pull
  Routes = {"range", "by_user"}
  ErpInfo <- MCErpInfo
  CabInfo <- MCCabInfo
  Measure <- MCMeasure
  StartedFor <- MCStartedFor
  MaxRegister <- MCMaxRegister
INVARIANTS
  TypeOK
  LinkJustified
  AckTruthful
  CoveredIsReconciled
  BilledIsMeasured
PROPERTIES
  BilledFrozen
  Settles
