\* Expected to fail: a late webhook overwrites what the pull reconciled.
SPECIFICATION Spec
CONSTANTS
  None = None
  ca = ca
  cb = cb
  q1 = q1
  q2 = q2
  Sessions = {1}
  CabSessions = {ca}
  Customers = {7}
  Outlets = {q1, q2}
  Handlers = {h1}
  Pull = Pull
  Routes = {"range"}
  ErpInfo <- OneErpInfo
  CabInfo <- OneCabInfo
  Measure <- OneMeasure
  StartedFor <- OneStartedFor
  MaxRegister <- OneMaxRegister
INVARIANT
  ReconciledHoldsFinal
